-------------------------------- MODULE Objects --------------------------------
(***************************************************************************)
(* The allocation routines of the C interface as one thread calls them:    *)
(* the real header of a block, the fake header before an aligned object,   *)
(* the sticky bits, and what resize, realloc and their aligned and posix   *)
(* variants do with an object they are given.                              *)
(*                                                                         *)
(* Sizes and addresses count words of 8 bytes.  A routine is an operator   *)
(* from the blocks to the set of its outcomes: the blocks afterwards, the  *)
(* address returned, and whether errno was set to ENOMEM.  Which block     *)
(* doMalloc takes, and whether there is one, is a choice: that is the      *)
(* business of LLHeap, SizeClasses and Extend.  The array variant of a     *)
(* routine is the routine with the product for a size, which is assumed    *)
(* not to wrap.  The build is the default one, without statistics and      *)
(* debugging.                                                              *)
(***************************************************************************)
EXTENDS ObjectPromise, FiniteSets

CONSTANTS
  Block,           (* pieces of storage                                      *)
  Header,          (* sizeof(Heap::Storage)                                  *)
  BlockSize,       (* bucketSizes                                            *)
  MmapStart,       (* heapMaster.mmapStart                                   *)
  PageSize,        (* heapMaster.pageSize                                    *)
  LittleWaste,     (* the 256 of aligned_resize and aligned_realloc          *)
  Size, Alignment, (* what the program asks for                              *)
  MaxObjects,      (* objects the program holds at once                      *)
  StaleErrno,      (* the program leaves an old ENOMEM in errno              *)
  NoBlock, NoFake, ENOMEM

VARIABLES
  block,           (* storage and headers of the blocks that are allocated   *)
  promise,         (* history: what was promised of each object held         *)
  errno

vars == <<block, promise, errno>>

ASSUME ObjectsAssumption ==
  /\ {Align, Header, MmapStart, PageSize, LittleWaste, MaxObjects} \subseteq Nat \ {0}
  /\ BlockSize \subseteq Nat
  /\ Size \subseteq Nat
  /\ Alignment \subseteq Nat \ {0}
  /\ StaleErrno \in BOOLEAN
  /\ \A n \in 0 .. MmapStart - 1 : \E s \in BlockSize : n + Header <= s
  /\ NoBlock \notin Block
  /\ NoFake \notin [at : Nat, alignment : Nat, offset : Nat]
  (* Both are powers of two, and __ALIGN__ is the size of two pointers.     *)
  /\ Header % Align = 0
  /\ \A a \in Alignment \cup {PageSize} : a > Align => a % Align = 0

Without(f, p) == [x \in DOMAIN f \ {p} |-> f[x]]
With(f, p, r) == [x \in DOMAIN f \cup {p} |-> IF x = p THEN r ELSE f[x]]

Ceiling(n, m) == ((n + m - 1) \div m) * m
-------------------------------------------------------------------------------
(* Headers.  An object is a block and the position of its first byte in it. *)
(* The header just before it is the real one, at position 0, or a fake one. *)

Null == [b |-> NoBlock, at |-> 0]

HeaderAt(p) == p.at - Header

AlignmentBit(B, p) == B[p.b].fake # NoFake /\ B[p.b].fake.at = HeaderAt(p)

RealHeaderAt(B, p) ==
  IF AlignmentBit(B, p) THEN HeaderAt(p) - B[p.b].fake.offset ELSE HeaderAt(p)

malloc_request_size(B, p) == B[p.b].size
malloc_zero_fill(B, p) == B[p.b].zero
malloc_alignment(B, p) == IF AlignmentBit(B, p) THEN B[p.b].fake.alignment ELSE Align

(* Mutant: the storage before an aligned object counts as usable. *)
DataSizeOfBlock(B, p) == B[p.b].bsize - Header

DataSize(B, p) == B[p.b].bsize - (p.at - RealHeaderAt(B, p))

Address(B, p) == B[p.b].base + p.at
-------------------------------------------------------------------------------
(* doMalloc, doFree and memalignNoStats.                                    *)

Done(B, p) == [mem |-> B, ret |-> p, failed |-> FALSE]
NoMemory(B) == [mem |-> B, ret |-> Null, failed |-> TRUE]

(* Mutant: what is mapped is not a number of pages. *)
NewBlockUnrounded(n) ==
  {[base |-> 0, bsize |-> n + Header, mapped |-> TRUE, size |-> n, zero |-> FALSE,
    fake |-> NoFake, data |-> [i \in 0 .. n + Header - 1 |-> Zero]]}

(* A block for n bytes: of the smallest bucket, with what was left in it, or *)
(* mapped, on a page and zero.  Only the address of the former varies.      *)
NewBlock(n) ==
  LET mapped == n >= MmapStart
      bsize == IF mapped THEN Ceiling(n + Header, PageSize)
               ELSE Min({s \in BlockSize : n + Header <= s})
      bases == IF mapped THEN {0}
               ELSE {a \in 0 .. Max(Alignment) - 1 : a % Align = 0}
  IN {[base |-> a, bsize |-> bsize, mapped |-> mapped, size |-> n, zero |-> FALSE,
       fake |-> NoFake,
       data |-> [i \in 0 .. bsize - 1 |-> IF mapped THEN Zero ELSE Unknown]] : a \in bases}

DoMalloc(B, n) ==
  {NoMemory(B)} \cup
  {Done(With(B, b, c), [b |-> b, at |-> Header]) : b \in Block \ DOMAIN B, c \in NewBlock(n)}

DoFree(B, p) == Without(B, p.b)

(* The outcome o of doMalloc becomes an aligned object of n bytes. *)
FakeHeader(o, alignment, n) ==
  LET c == o.mem[o.ret.b]
      user == Ceiling(Address(o.mem, o.ret) + Header, alignment) - c.base
  IN Done([o.mem EXCEPT
             ![o.ret.b].size = n,
             ![o.ret.b].fake = [at |-> user - Header, alignment |-> alignment,
                                offset |-> user - Header - HeaderAt(o.ret)]],
          [b |-> o.ret.b, at |-> user])

MemalignNoStats(B, alignment, n) ==
  IF alignment <= Align \/ n = 0 THEN DoMalloc(B, n)
  ELSE {IF o.failed THEN o ELSE FakeHeader(o, alignment, n) :
          o \in DoMalloc(B, n + alignment - Align + Header)}

(* The storage of the new object is cleared, unless it was mapped, and the  *)
(* object is marked.                                                        *)
Cleared(o, n) ==
  IF o.failed THEN o
  ELSE LET p == o.ret IN
       Done([o.mem EXCEPT
               ![p.b].zero = TRUE,
               ![p.b].data = [i \in DOMAIN @ |->
                  IF ~o.mem[p.b].mapped /\ i \in p.at .. p.at + n - 1 THEN Zero ELSE @[i]]],
            p)

Calloc(B, n) == {Cleared(o, n) : o \in DoMalloc(B, n)}
Cmemalign(B, alignment, n) == {Cleared(o, n) : o \in MemalignNoStats(B, alignment, n)}
Valloc(B, n) == MemalignNoStats(B, PageSize, n)
Pvalloc(B, n) == Valloc(B, Ceiling(n, PageSize))
-------------------------------------------------------------------------------
(* resize and realloc.                                                      *)

(* The object is large enough for n bytes and at most half of it is wasted. *)
Reusable(B, p, n) == n <= DataSize(B, p) /\ DataSize(B, p) <= 2 * n

ResizedInPlace(B, p, n) == Done([B EXCEPT ![p.b].zero = FALSE, ![p.b].size = n], p)

Resize(B, p, n) ==
  IF p = Null THEN DoMalloc(B, n)
  ELSE IF n = 0 THEN {Done(DoFree(B, p), Null)}
  ELSE IF malloc_alignment(B, p) = Align /\ Reusable(B, p, n) THEN {ResizedInPlace(B, p, n)}
  ELSE DoMalloc(DoFree(B, p), n)

(* The bytes at first .. last of the object are set to zero. *)
Zeroed(B, p, first, last) ==
  [B EXCEPT ![p.b].data = [i \in DOMAIN @ |->
                             IF i - p.at \in first .. last THEN Zero ELSE @[i]]]

(* Storage that is added to a zero-filled object is zero filled. *)
FilledUp(B, p, osize, n, ozfill) == IF ozfill THEN Zeroed(B, p, osize, n - 1) ELSE B

(* Mutant: what is added to a reused object is left as it is. *)
ReallocInPlaceUnfilled(B, p, n) == Done([B EXCEPT ![p.b].size = n], p)

ReallocInPlace(B, p, n) ==
  Done(FilledUp([B EXCEPT ![p.b].size = n], p, B[p.b].size, n, B[p.b].zero), p)

(* The old object p is copied to q, and the fill is carried over. *)
Copied(B, p, q, n) ==
  LET osize == B[p.b].size
      ozfill == B[p.b].zero
      moved == [B EXCEPT
                  ![q.b].data = [i \in DOMAIN @ |->
                     IF i - q.at \in 0 .. Min({osize, n}) - 1
                     THEN B[p.b].data[p.at + i - q.at] ELSE @[i]],
                  ![q.b].zero = ozfill]
  IN FilledUp(moved, q, osize, n, ozfill)

(* Mutant: the old object is freed even when there is no new one. *)
MovedAlways(p, n, outcomes) ==
  {IF o.failed THEN NoMemory(DoFree(o.mem, p))
   ELSE Done(DoFree(Copied(o.mem, p, o.ret, n), p), o.ret) : o \in outcomes}

(* The object goes to the new storage, and is left alone if there is none. *)
Moved(p, n, outcomes) ==
  {IF o.failed THEN o ELSE Done(DoFree(Copied(o.mem, p, o.ret, n), p), o.ret) : o \in outcomes}

Realloc(B, p, n) ==
  IF p = Null THEN DoMalloc(B, n)
  ELSE IF n = 0 THEN {Done(DoFree(B, p), Null)}
  ELSE IF Reusable(B, p, n) THEN {ReallocInPlace(B, p, n)}
  ELSE Moved(p, n, MemalignNoStats(B, malloc_alignment(B, p), n))
-------------------------------------------------------------------------------
(* The aligned variants.                                                    *)

(* An aligned object whose address happens to suit the new alignment.       *)
LuckyMatch(B, p, alignment) ==
  /\ AlignmentBit(B, p)
  /\ Address(B, p) % alignment = 0
  /\ \/ malloc_alignment(B, p) <= alignment
     \/ malloc_alignment(B, p) <= LittleWaste

SetAlignment(B, p, alignment) == [B EXCEPT ![p.b].fake.alignment = alignment]

AlignedResize(B, p, alignment, n) ==
  LET nalignment == Max({alignment, Align})
      lucky == p # Null /\ LuckyMatch(B, p, nalignment)
  IN IF p = Null THEN MemalignNoStats(B, alignment, n)
     ELSE IF n = 0 THEN {Done(DoFree(B, p), Null)}
     ELSE IF lucky /\ Reusable(B, p, n)
     THEN {ResizedInPlace(SetAlignment(B, p, nalignment), p, n)}
     ELSE IF ~AlignmentBit(B, p) /\ nalignment = Align THEN Resize(B, p, n)
     ELSE MemalignNoStats(DoFree(B, p), nalignment, n)

(* The alignment of the old object is changed before the new storage is     *)
(* there.                                                                   *)
AlignedRealloc(B, p, alignment, n) ==
  LET nalignment == Max({alignment, Align})
  IN IF p = Null THEN MemalignNoStats(B, alignment, n)
     ELSE IF n = 0 THEN {Done(DoFree(B, p), Null)}
     ELSE IF LuckyMatch(B, p, nalignment)
     THEN Realloc(SetAlignment(B, p, nalignment), p, n)
     ELSE IF ~AlignmentBit(B, p) /\ alignment = Align THEN Realloc(B, p, n)
     ELSE Moved(p, n, MemalignNoStats(B, alignment, n))

(* malloc_usable_size: the request becomes all that can be used. *)
Usable(B, p) == [B EXCEPT ![p.b].size = DataSize(B, p)]
-------------------------------------------------------------------------------
(* The program.                                                             *)

Object == DOMAIN promise

Init ==
  /\ block = <<>>
  /\ promise = <<>>
  /\ errno = 0

(* The outcome o is what happens, and the program now holds the promises q. *)
Returns(o, q) ==
  /\ block' = o.mem
  /\ errno' = IF o.failed THEN ENOMEM ELSE errno
  /\ promise' = q

MayHoldMore == Cardinality(Object) < MaxObjects

(* nullptr given for an old object stands for none, of no bytes. *)
Old(p) == IF p = Null THEN NewObject(0, Align, FALSE) ELSE promise[p]

(* One of the routines that make an object, with outcomes as theirs. *)
Allocate(outcomes, o) ==
  /\ MayHoldMore
  /\ \E out \in outcomes :
       Returns(out, IF out.ret = Null THEN promise ELSE With(promise, out.ret, o))

malloc(n) == Allocate(DoMalloc(block, n), NewObject(n, Align, FALSE))
calloc(n) == Allocate(Calloc(block, n), NewObject(n, Align, TRUE))
memalign(a, n) ==
  Allocate(MemalignNoStats(block, a, n), NewObject(n, Promised(a, n), FALSE))
aligned_alloc(a, n) == memalign(a, n)
cmemalign(a, n) ==
  Allocate(Cmemalign(block, a, n), NewObject(n, Promised(a, n), TRUE))

(* The result is ENOMEM for nullptr, which is not stored. *)
posix_memalign(a, n) == memalign(a, n)

valloc(n) == Allocate(Valloc(block, n), NewObject(n, Promised(PageSize, n), FALSE))
pvalloc(n) ==
  LET m == Ceiling(n, PageSize)
  IN Allocate(Pvalloc(block, n), NewObject(m, Promised(PageSize, m), FALSE))

free(p) == Returns(Done(DoFree(block, p), Null), Without(promise, p))

(* resize gives up the old object, whatever happens. *)
Resizes(p, outcomes, o) ==
  /\ p # Null \/ MayHoldMore
  /\ \E out \in outcomes :
       Returns(out, IF out.ret = Null THEN Without(promise, p)
                    ELSE With(Without(promise, p), out.ret, o))

resize(p, n) == Resizes(p, Resize(block, p, n), NewObject(n, Align, FALSE))
aligned_resize(p, a, n) ==
  Resizes(p, AlignedResize(block, p, a, n), NewObject(n, Promised(a, n), FALSE))

(* ret == nullptr && errno == ENOMEM. *)
ReturnedENOMEM(out) == out.ret = Null /\ (out.failed \/ errno = ENOMEM)

(* What the program holds after a call that reports no memory: all that it  *)
(* held.  aligned_realloc may have changed the alignment of p, though.      *)
Untouched(p, mem) ==
  IF p.b \in DOMAIN mem /\ malloc_alignment(mem, p) # malloc_alignment(block, p)
  THEN [promise EXCEPT ![p] = Realigned(@)]
  ELSE promise

(* realloc keeps the old object if there is no memory; the posix variants   *)
(* say so by their result.                                                  *)
Reallocates(p, outcomes, o, posix) ==
  /\ p # Null \/ MayHoldMore
  /\ \E out \in outcomes :
       Returns(out,
         IF out.failed \/ (posix /\ ReturnedENOMEM(out)) THEN Untouched(p, out.mem)
         ELSE IF out.ret = Null THEN Without(promise, p)
         ELSE With(Without(promise, p), out.ret, o))

realloc(p, n) == Reallocates(p, Realloc(block, p, n), Reallocated(Old(p), n), FALSE)
aligned_realloc(p, a, n) ==
  Reallocates(p, AlignedRealloc(block, p, a, n),
              Aligned(Reallocated(Old(p), n), Promised(a, n)), FALSE)

posix_realloc(p, n) ==
  /\ StaleErrno \/ errno # ENOMEM
  /\ Reallocates(p, Realloc(block, p, n), Reallocated(Old(p), n), TRUE)
posix_aligned_realloc(p, a, n) ==
  /\ StaleErrno \/ errno # ENOMEM
  /\ Reallocates(p, AlignedRealloc(block, p, a, n),
                 Aligned(Reallocated(Old(p), n), Promised(a, n)), TRUE)

malloc_usable_size(p) ==
  Returns(Done(Usable(block, p), p),
          [promise EXCEPT ![p] = Widened(@, DataSize(block, p))])

(* The program writes every byte it may use, or resets errno. *)
Write(p) ==
  /\ block' = [block EXCEPT ![p.b].data =
       [i \in DOMAIN @ |-> IF i - p.at \in 0 .. promise[p].size - 1
                           THEN Written(i - p.at) ELSE @[i]]]
  /\ promise' = [promise EXCEPT ![p] = Filled(@)]
  /\ UNCHANGED errno

ClearErrno == errno' = 0 /\ UNCHANGED <<block, promise>>

Next ==
  \/ \E n \in Size : malloc(n) \/ calloc(n) \/ valloc(n) \/ pvalloc(n)
  \/ \E a \in Alignment, n \in Size :
       memalign(a, n) \/ aligned_alloc(a, n) \/ cmemalign(a, n) \/ posix_memalign(a, n)
  \/ \E p \in Object : free(p) \/ malloc_usable_size(p) \/ Write(p)
  \/ \E p \in Object \cup {Null}, n \in Size : resize(p, n) \/ realloc(p, n) \/ posix_realloc(p, n)
  \/ \E p \in Object \cup {Null}, a \in Alignment, n \in Size :
       aligned_resize(p, a, n) \/ aligned_realloc(p, a, n) \/ posix_aligned_realloc(p, a, n)
  \/ ClearErrno

Spec == Init /\ [][Next]_vars
-------------------------------------------------------------------------------
(* Every variable stays in its range; a block that is mapped is not one of  *)
(* a bucket.                                                                *)
TypeOK ==
  /\ errno \in {0, ENOMEM}
  /\ Object \subseteq [b : Block, at : Nat]
  /\ DOMAIN block \subseteq Block
  /\ \A b \in DOMAIN block :
       LET c == block[b] IN
       /\ c.base \in Nat
       /\ c.size \in Nat
       /\ {c.mapped, c.zero} \subseteq BOOLEAN
       /\ ~c.mapped => c.bsize \in BlockSize
       /\ c.mapped => c.bsize % PageSize = 0
       /\ c.fake # NoFake => c.fake \in [at : Nat, alignment : Nat, offset : Nat]

(* No block is lost and none is freed under the program: the objects the    *)
(* program holds are in different blocks, and there is no other allocated   *)
(* block, whichever step of a resize or realloc failed.                     *)
OneBlockEach ==
  /\ \A p, q \in Object : p.b = q.b => p = q
  /\ DOMAIN block = {p.b : p \in Object}

(* The headers tell what the program was promised, and the promised bytes   *)
(* are there: after any sequence of calls in place or by copy, with and     *)
(* without alignment and fill, some of which fail.  Only the alignment of   *)
(* an object that a failed aligned_realloc has changed is excepted.         *)
PromiseKept ==
  \A p \in Object :
    /\ malloc_request_size(block, p) = promise[p].size
    /\ malloc_zero_fill(block, p) = promise[p].zero
    /\ promise[p].realigned \/ malloc_alignment(block, p) = promise[p].align
    /\ \A i \in 0 .. promise[p].size - 1 :
         promise[p].bytes[i] \in {Unknown, block[p.b].data[p.at + i]}

(* The header leads back to the start of the block; the object lies inside  *)
(* the block, at an address of the alignment that the header tells.         *)
InsideBlock ==
  \A p \in Object :
    /\ RealHeaderAt(block, p) = 0
    /\ Address(block, p) % malloc_alignment(block, p) = 0
    /\ p.at + promise[p].size <= block[p.b].bsize

(* What the comment before posix_realloc says: when it reports ENOMEM the   *)
(* old object is still there; in general, an object the program holds is    *)
(* in a block that was not freed.                                           *)
HeldIsAllocated == \A p \in Object : p.b \in DOMAIN block
===============================================================================
