-------------------------------- MODULE Extend ---------------------------------
(***************************************************************************)
(* Where the blocks of a heap come from: the buffer of each heap, cut from *)
(* its start (doMalloc), replaced when it is used up (manager_extend), and *)
(* the slab of address space that new buffers are accounted to             *)
(* (master_extend).                                                        *)
(*                                                                         *)
(* Addresses and sizes count units of __ALIGN__ bytes, so that Ceiling to  *)
(* __ALIGN__ leaves them alone; 0 is nullptr.  The kernel is external: a   *)
(* mapping goes where the hint says if that range is free, otherwise       *)
(* anywhere it fits, or fails.  master_extend runs under extLock, and the  *)
(* rest of manager_extend touches the heap of the calling thread only: an  *)
(* extension is one action.  A block that is freed is kept for its bucket  *)
(* and never returns to a buffer: that part is the module LLHeap.          *)
(***************************************************************************)
EXTENDS Integers

CONSTANTS
  Heap,
  BlockSize,        (* the block sizes of the buckets in use                 *)
  ThreadBlock,      (* malloc_thread_block, heapMaster.sbrkThreadBlock       *)
  HeapExtend,       (* malloc_heap_extend                                    *)
  MinExtend,        (* what always_assert asks of sbrkExtend: 256 K          *)
  TopPad,           (* values given to mallopt for M_TOP_PAD                 *)
  LargeSize,        (* lengths of storage mapped for large requests          *)
  Page,             (* the page size                                         *)
  Limit             (* the end of the address space                          *)

ASSUME ExtendAssumption ==
  /\ Page \in Nat \ {0}
  /\ Limit \in Nat
  /\ BlockSize \subseteq Nat \ {0}
  /\ ThreadBlock \in Nat \ {0}
  /\ HeapExtend \in Nat
  /\ MinExtend \in Nat \ {0}
  /\ TopPad \subseteq Nat
  /\ LargeSize \subseteq Nat \ {0}
  /\ Heap \cap {"free", "reserved", "large"} = {}

Memory == Page .. Limit - 1

VARIABLES
  use,              (* what each unit of the address space is mapped for     *)
  sbrkStart,        (* heapMaster: start of the slab                         *)
  sbrkEnd,          (* the end of the part of it that is accounted for       *)
  sbrkRemaining,    (* what is left of it                                    *)
  sbrkExtend,       (* the length of the next slab                           *)
  slabEnd,          (* history: the end of the slab that was mapped          *)
  bufStart,         (* start of the buffer of each heap                      *)
  bufRemaining,     (* and what is left of it                                *)
  blocks,           (* blocks cut so far, handed out or on a free list       *)
  large             (* storage mapped for large requests                     *)

slab == <<sbrkStart, sbrkEnd, sbrkRemaining, slabEnd>>
buffers == <<bufStart, bufRemaining>>
vars == <<use, slab, sbrkExtend, buffers, blocks, large>>

Range(a, n) == a .. a + n - 1

(* Every variable stays in its range. *)
TypeOK ==
  /\ use \in [Memory -> Heap \cup {"free", "reserved", "large"}]
  /\ {sbrkStart, sbrkEnd, sbrkRemaining, slabEnd} \subseteq Nat
  /\ sbrkExtend \in Nat
  /\ bufStart \in [Heap -> Nat]
  /\ bufRemaining \in [Heap -> Nat]
  /\ blocks \subseteq [heap : Heap, start : Nat, size : BlockSize]
  /\ large \subseteq [start : Nat, size : Nat]

(* Ceiling( n, pageSize ). *)
PageUp(n) == ((n + Page - 1) \div Page) * Page

Init ==
  /\ use = [a \in Memory |-> "free"]
  /\ sbrkStart = 0 /\ sbrkEnd = 0 /\ sbrkRemaining = 0 /\ slabEnd = 0
  /\ sbrkExtend = PageUp(HeapExtend)
  /\ bufStart = [h \in Heap |-> 0]
  /\ bufRemaining = [h \in Heap |-> 0]
  /\ blocks = {}
  /\ large = {}
-------------------------------------------------------------------------------
(* The kernel.                                                              *)

(* The n units at a can be mapped, given what the address space is used for. *)
Fits(space, a, n) ==
  /\ a % Page = 0
  /\ Range(a, n) \subseteq Memory
  /\ \A b \in Range(a, n) : space[b] = "free"

(* Where mmap( hint, n ) without MAP_FIXED may put its pages. *)
Placed(space, hint, n) ==
  IF hint # 0 /\ Fits(space, PageUp(hint), PageUp(n))
  THEN {PageUp(hint)}
  ELSE {a \in Memory : Fits(space, a, PageUp(n))}

Mapped(space, a, n, for) ==
  [b \in Memory |-> IF b \in Range(a, PageUp(n)) THEN for ELSE space[b]]
-------------------------------------------------------------------------------
(* doMalloc: a block cut from the buffer.                                   *)

Bump(h, s) ==
  /\ bufRemaining[h] >= s
  /\ blocks' = blocks \cup {[heap |-> h, start |-> bufStart[h], size |-> s]}
  /\ bufStart' = [bufStart EXCEPT ![h] = @ + s]
  /\ bufRemaining' = [bufRemaining EXCEPT ![h] = @ - s]
  /\ UNCHANGED <<use, slab, sbrkExtend, large>>
-------------------------------------------------------------------------------
(* manager_extend and master_extend.                                        *)

Increase(s) == IF s > ThreadBlock THEN s ELSE ThreadBlock

(* The largest bucket of at most rem units (FragmentFits of SizeClasses).   *)
LargestWithin(rem) ==
  {s \in BlockSize : s <= rem /\ \A r \in BlockSize : r <= rem => r <= s}

(* What is left of the buffer of h, as a block of the bucket it fits.       *)
Remainder(h) ==
  {[heap |-> h, start |-> bufStart[h], size |-> s] : s \in LargestWithin(bufRemaining[h])}

Contiguous(h, a) == a = bufStart[h] + bufRemaining[h]

(* Mutant: the buffer gets the whole increase. *)
NewBufferWhole(h, s, a) ==
  /\ blocks' = blocks \cup (IF Contiguous(h, a) THEN {} ELSE Remainder(h))
                      \cup {[heap |-> h, start |-> a, size |-> s]}
  /\ bufRemaining' = [bufRemaining EXCEPT ![h] = Increase(s)]
  /\ bufStart' = [bufStart EXCEPT ![h] = a + s]

(* The new buffer of h is at a, its first s units are the block returned,   *)
(* and the remainder of the old one is chained if it does not end at a.     *)
NewBuffer(h, s, a) ==
  /\ blocks' = blocks \cup (IF Contiguous(h, a) THEN {} ELSE Remainder(h))
                      \cup {[heap |-> h, start |-> a, size |-> s]}
  /\ bufRemaining' = [bufRemaining EXCEPT ![h] = Increase(s) - s]
  /\ bufStart' = [bufStart EXCEPT ![h] = a + s]

(* Mutant: the request is tested against what remains, not the increase. *)
ExtendFromSlabSmall(h, s) ==
  /\ bufRemaining[h] < s
  /\ sbrkRemaining >= s
  /\ \E a \in Placed(use, sbrkEnd, Increase(s)) :
       /\ use' = Mapped(use, a, Increase(s), h)
       /\ NewBuffer(h, s, a)
  /\ sbrkRemaining' = sbrkRemaining - Increase(s)
  /\ sbrkEnd' = sbrkEnd + Increase(s)
  /\ UNCHANGED <<sbrkStart, slabEnd, sbrkExtend, large>>

(* The slab has room: a thread block is accounted to it.                    *)
ExtendFromSlab(h, s) ==
  /\ bufRemaining[h] < s
  /\ sbrkRemaining >= Increase(s)
  /\ \E a \in Placed(use, sbrkEnd, Increase(s)) :
       /\ use' = Mapped(use, a, Increase(s), h)
       /\ NewBuffer(h, s, a)
  /\ sbrkRemaining' = sbrkRemaining - Increase(s)
  /\ sbrkEnd' = sbrkEnd + Increase(s)
  /\ UNCHANGED <<sbrkStart, slabEnd, sbrkExtend, large>>

(* It has not: a slab is reserved, PROT_NONE, sbrkExtend units long, though *)
(* what remains of it is computed from the increase.                        *)
Reserve(a) ==
  /\ Fits(use, a, PageUp(sbrkExtend))
  /\ sbrkStart' = a
  /\ slabEnd' = a + sbrkExtend

SlabLength(s) == IF Increase(s) > sbrkExtend THEN Increase(s) ELSE sbrkExtend

(* Mutant: the remainder of the old slab is added to that of the new one. *)
ExtendNewSlabKeeps(h, s) ==
  /\ bufRemaining[h] < s
  /\ sbrkRemaining < Increase(s)
  /\ \E r \in Memory :
       /\ Reserve(r)
       /\ LET space == Mapped(use, r, sbrkExtend, "reserved") IN
            \E a \in Placed(space, r, Increase(s)) :
              /\ use' = Mapped(space, a, Increase(s), h)
              /\ NewBuffer(h, s, a)
       /\ sbrkEnd' = r + Increase(s)
  /\ sbrkRemaining' = sbrkRemaining + SlabLength(s) - Increase(s)
  /\ UNCHANGED <<sbrkExtend, large>>

ExtendNewSlab(h, s) ==
  /\ bufRemaining[h] < s
  /\ sbrkRemaining < Increase(s)
  /\ \E r \in Memory :
       /\ Reserve(r)
       /\ LET space == Mapped(use, r, sbrkExtend, "reserved") IN
            \E a \in Placed(space, r, Increase(s)) :
              /\ use' = Mapped(space, a, Increase(s), h)
              /\ NewBuffer(h, s, a)
       /\ sbrkEnd' = r + Increase(s)
  /\ sbrkRemaining' = SlabLength(s) - Increase(s)
  /\ UNCHANGED <<sbrkExtend, large>>

(* The slab is reserved and mapping the thread block fails: nullptr is      *)
(* returned, with the slab moved and what remains of it not.                *)
ExtendFails(h, s) ==
  /\ bufRemaining[h] < s
  /\ sbrkRemaining < Increase(s)
  /\ \E r \in Memory :
       /\ Reserve(r)
       /\ use' = Mapped(use, r, sbrkExtend, "reserved")
       /\ sbrkEnd' = r
  /\ UNCHANGED <<sbrkRemaining, sbrkExtend, buffers, blocks, large>>
-------------------------------------------------------------------------------
(* Large requests, and mallopt.                                             *)

MapLarge(n) ==
  /\ \E a \in Placed(use, 0, n) :
       /\ use' = Mapped(use, a, n, "large")
       /\ large' = large \cup {[start |-> a, size |-> n]}
  /\ UNCHANGED <<slab, sbrkExtend, buffers, blocks>>

UnmapLarge(m) ==
  /\ m \in large
  /\ use' = Mapped(use, m.start, m.size, "free")
  /\ large' = large \ {m}
  /\ UNCHANGED <<slab, sbrkExtend, buffers, blocks>>

(* mallopt( M_TOP_PAD, value ): always_assert ends the program when the     *)
(* value is below the minimum.  Nothing asks for a whole thread block, as   *)
(* heapMasterCtor does of the first extension.                              *)
SetTopPad(value) ==
  /\ PageUp(value) >= MinExtend
  /\ sbrkExtend' = PageUp(value)
  /\ UNCHANGED <<use, slab, buffers, blocks, large>>

Next ==
  \/ \E h \in Heap, s \in BlockSize :
       Bump(h, s) \/ ExtendFromSlab(h, s) \/ ExtendNewSlab(h, s) \/ ExtendFails(h, s)
  \/ \E n \in LargeSize : MapLarge(n)
  \/ \E m \in large : UnmapLarge(m)
  \/ \E v \in TopPad : SetTopPad(v)

Spec == Init /\ [][Next]_vars
-------------------------------------------------------------------------------
(* Storage of the heaps.                                                    *)

Extent(b) == Range(b.start, b.size)
Buffer(h) == Range(bufStart[h], bufRemaining[h])

(* A block and the buffer of a heap lie in storage that is mapped for that  *)
(* heap; two blocks never overlap, nor a block and what remains of a        *)
(* buffer.  No block is cut twice, from the slab, from a fragment or past   *)
(* the end of a buffer, whatever was mapped and unmapped in between.        *)
StorageExclusive ==
  /\ \A b \in blocks : \A a \in Extent(b) : a \in Memory /\ use[a] = b.heap
  /\ \A h \in Heap : \A a \in Buffer(h) : a \in Memory /\ use[a] = h
  /\ \A b, c \in blocks : b # c => Extent(b) \cap Extent(c) = {}
  /\ \A b \in blocks : Extent(b) \cap Buffer(b.heap) = {}

(* The thread blocks accounted to a slab and what remains of it are no more *)
(* than the slab; or, where mallopt made a slab shorter than a single       *)
(* extension, no more than that one extension.  A mapping that fails half   *)
(* way and a change of the length between two slabs leave it so.            *)
SlabNotOversold ==
  \/ sbrkEnd + sbrkRemaining <= slabEnd
  \/ \E s \in BlockSize : sbrkEnd + sbrkRemaining <= sbrkStart + Increase(s)

(* Storage that could serve a request is kept: what remains of a buffer     *)
(* that is replaced is in the new one or chained as a block, unless it is   *)
(* smaller than every bucket.                                               *)
RemainderKept ==
  [][\A h \in Heap :
       bufStart'[h] # bufStart[h] /\ LargestWithin(bufRemaining[h]) # {} =>
         \/ bufStart[h] \in Buffer(h)'
         \/ \E b \in blocks' \ blocks : b.start = bufStart[h]]_vars
===============================================================================
