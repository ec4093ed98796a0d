----------------------------- MODULE ExtendProofs -----------------------------
(***************************************************************************)
(* No storage of Extend is given out twice, for any number of heaps, any   *)
(* sizes of blocks, thread blocks and slabs, and any address space; and    *)
(* the account of the slab exceeds it by no more than one extension that   *)
(* is longer than the slab.                                                *)
(***************************************************************************)
EXTENDS Extend, TLAPS

(* Storage mapped for large requests is marked so, and in use once. *)
LargeInv ==
  /\ \A m \in large : \A a \in Range(m.start, PageUp(m.size)) :
       a \in Memory /\ use[a] = "large"
  /\ \A m, n \in large : m # n =>
       \A a \in Range(m.start, PageUp(m.size)) : a \notin Range(n.start, PageUp(n.size))

Inv == TypeOK /\ StorageExclusive /\ LargeInv
-------------------------------------------------------------------------------
(* Ceiling rounds up. *)
LEMMA PageUpBound ==
  ASSUME NEW n \in Nat
  PROVE  PageUp(n) \in Nat /\ n <= PageUp(n)
<1> DEFINE m == n + Page - 1
           d == m \div Page
<1>1. Page \in Nat /\ Page > 0 /\ m \in Nat
  BY ExtendAssumption
<1>2. d \in Nat /\ m = Page * d + (m % Page) /\ m % Page \in 0 .. Page - 1
  BY <1>1, Z3
<1>3. Page * d \in Nat /\ Page * d = d * Page
  BY <1>1, <1>2, Z3
<1>4. n <= Page * d
  <2> HIDE DEF d
  <2>. QED BY <1>1, <1>2, <1>3
<1> QED BY <1>3, <1>4 DEF PageUp

LEMMA IncreaseBound ==
  ASSUME NEW s \in BlockSize
  PROVE  Increase(s) \in Nat /\ s <= Increase(s)
BY ExtendAssumption DEF Increase

(* A mapping is of pages that were free. *)
LEMMA PlacedFits ==
  ASSUME NEW space, NEW hint \in Nat, NEW n, NEW a \in Placed(space, hint, n)
  PROVE  a \in Int /\ Fits(space, a, PageUp(n))
BY PageUpBound, ExtendAssumption DEF Placed, Memory

(* A range that begins in a fitting one. *)
LEMMA FitsFree ==
  ASSUME NEW space, NEW a, NEW n, Fits(space, a, n), NEW b \in Range(a, n)
  PROVE  b \in Memory /\ space[b] = "free"
BY DEF Fits
-------------------------------------------------------------------------------
(* The storage of heaps and the mapped storage stay as they are when what   *)
(* is mapped was free.                                                      *)
Untouched(space) ==
  /\ space \in [Memory -> Heap \cup {"free", "reserved", "large"}]
  /\ \A b \in Memory : use[b] # "free" => space[b] = use[b]
  /\ \A b \in Memory : space[b] = "free" => use[b] = "free"

LEMMA MappedUntouched ==
  ASSUME TypeOK, NEW space, Untouched(space), NEW a, NEW n,
         Fits(space, a, PageUp(n)),
         NEW for \in Heap \cup {"reserved", "large"}
  PROVE  Untouched(Mapped(space, a, n, for))
<1>1. \A b \in Range(a, PageUp(n)) : b \in Memory => use[b] = "free"
  BY FitsFree DEF Untouched
<1> QED BY <1>1, ExtendAssumption DEF Untouched, Mapped

(* The storage of the heaps is kept by a step that cuts nothing. *)
LEMMA StorageQuiet ==
  ASSUME TypeOK, StorageExclusive, Untouched(use'), UNCHANGED <<buffers, blocks>>
  PROVE  StorageExclusive'
<1>1. \A a \in Memory : use[a] \in Heap => use'[a] = use[a]
  BY ExtendAssumption DEF Untouched
<1>2. \A b \in blocks : b.heap \in Heap
  BY DEF TypeOK
<1> QED BY <1>1, <1>2 DEF StorageExclusive, Extent, Buffer, buffers

LEMMA LargeQuiet ==
  ASSUME TypeOK, LargeInv, Untouched(use'), UNCHANGED large
  PROVE  LargeInv'
BY DEF LargeInv, Untouched
-------------------------------------------------------------------------------
(* A block cut from the buffer, and the types. *)
LEMMA BumpKeeps ==
  ASSUME Inv, NEW h \in Heap, NEW s \in BlockSize, Bump(h, s)
  PROVE  Inv'
<1> DEFINE c == [heap |-> h, start |-> bufStart[h], size |-> s]
<1> USE DEF Inv
<1>1. s \in Nat /\ bufStart[h] \in Nat /\ bufRemaining[h] \in Nat /\ bufRemaining[h] - s \in Nat
  BY ExtendAssumption DEF Bump, TypeOK
<1>2. TypeOK'
  BY <1>1 DEF Bump, TypeOK, slab
<1>3. LargeInv'
  BY DEF Bump, LargeInv
<1>4. Extent(c) \subseteq Buffer(h)
  BY <1>1 DEF Bump, Extent, Buffer, Range
<1>5. Buffer(h)' \subseteq Buffer(h) /\ Buffer(h)' \cap Extent(c) = {}
  BY <1>1 DEF Bump, Extent, Buffer, Range, TypeOK
<1>6. \A g \in Heap : g # h => Buffer(g)' = Buffer(g)
  BY DEF Bump, Buffer, TypeOK
<1>7. blocks' = blocks \cup {c} /\ use' = use
  BY DEF Bump
<1>8. \A b \in blocks' : \A a \in Extent(b) : a \in Memory /\ use[a] = b.heap
  BY <1>4, <1>7 DEF StorageExclusive
<1>9. \A g \in Heap : \A a \in Buffer(g)' : a \in Memory /\ use[a] = g
  BY <1>5, <1>6 DEF StorageExclusive
<1>10. \A b \in blocks : Extent(b) \cap Extent(c) = {}
  <2> SUFFICES ASSUME NEW b \in blocks, NEW a \in Extent(b), a \in Extent(c)
               PROVE  FALSE
    OBVIOUS
  <2>1. use[a] = b.heap /\ use[a] = h
    BY <1>4 DEF StorageExclusive
  <2>. QED BY <2>1, <1>4 DEF StorageExclusive
<1>11. \A b, d \in blocks' : b # d => Extent(b) \cap Extent(d) = {}
  BY <1>7, <1>10 DEF StorageExclusive
<1>12. \A b \in blocks' : b.heap \in Heap /\ Extent(b) \cap Buffer(b.heap)' = {}
  <2>1. \A b \in blocks : b.heap \in Heap /\ Extent(b) \cap Buffer(b.heap)' = {}
    BY <1>5, <1>6 DEF StorageExclusive, TypeOK
  <2>. QED BY <2>1, <1>5, <1>7
<1> QED BY <1>2, <1>3, <1>7, <1>8, <1>9, <1>11, <1>12 DEF StorageExclusive, Extent
-------------------------------------------------------------------------------
(* A new buffer in pages that were free. *)
LEMMA NewBufferKeeps ==
  ASSUME TypeOK, StorageExclusive, NEW h \in Heap, NEW s \in BlockSize,
         NEW space, Untouched(space), NEW a \in Int,
         Fits(space, a, PageUp(Increase(s))),
         use' = Mapped(space, a, Increase(s), h), NewBuffer(h, s, a)
  PROVE  StorageExclusive' /\ a \in Memory
<1> DEFINE c == [heap |-> h, start |-> a, size |-> s]
           n == PageUp(Increase(s))
<1>1. /\ s \in Nat \ {0} /\ Increase(s) \in Nat /\ s <= Increase(s)
      /\ n \in Nat /\ Increase(s) <= n
  BY ExtendAssumption, IncreaseBound, PageUpBound
<1>2. \A b \in Range(a, n) : b \in Memory /\ use[b] = "free" /\ use'[b] = h
  BY FitsFree DEF Untouched, Mapped
<1>3. \A b \in Memory : use[b] # "free" => use'[b] = use[b]
  BY <1>2 DEF Untouched, Mapped
<1>4. a \in Memory
  BY <1>1, <1>2 DEF Range
<1>5. a \in Nat
  BY <1>4, ExtendAssumption DEF Memory
<1> HIDE DEF n
<1>6. Extent(c) \subseteq Range(a, n) /\ Buffer(h)' \subseteq Range(a, n)
      /\ Buffer(h)' \cap Extent(c) = {}
  BY <1>1, <1>5 DEF NewBuffer, Extent, Buffer, Range, TypeOK
<1>7. \A g \in Heap : g # h => Buffer(g)' = Buffer(g)
  BY DEF NewBuffer, Buffer, TypeOK
<1>8. \A r \in Remainder(h) : r.heap = h /\ Extent(r) \subseteq Buffer(h)
  BY ExtendAssumption DEF Remainder, LargestWithin, Extent, Buffer, Range, TypeOK
<1>9. \A q, r \in Remainder(h) : q = r
  <2> SUFFICES ASSUME NEW x \in LargestWithin(bufRemaining[h]),
                      NEW y \in LargestWithin(bufRemaining[h])
               PROVE  x = y
    BY DEF Remainder
  <2>. QED BY ExtendAssumption DEF LargestWithin
<1>10. PICK R : R \subseteq Remainder(h) /\ blocks' = blocks \cup R \cup {c}
  BY DEF NewBuffer
<1>11. \A b \in blocks \cup R : /\ b.heap \in Heap
                                /\ \A x \in Extent(b) : x \in Memory /\ use[x] = b.heap
  BY <1>8, <1>10 DEF StorageExclusive, TypeOK
<1>12. \A b, d \in blocks \cup R : b # d => Extent(b) \cap Extent(d) = {}
  <2> SUFFICES ASSUME NEW b \in blocks \cup R, NEW d \in blocks \cup R, b # d,
                      NEW x \in Extent(b), x \in Extent(d)
               PROVE  FALSE
    OBVIOUS
  <2>1. b.heap = d.heap
    BY <1>11
  <2>2. CASE b \in blocks /\ d \in blocks
    BY <2>2 DEF StorageExclusive
  <2>3. CASE b \in R /\ d \in R
    BY <2>3, <1>9, <1>10
  <2>4. CASE b \in blocks /\ d \in R
    BY <2>1, <2>4, <1>8, <1>10 DEF StorageExclusive
  <2>5. CASE b \in R /\ d \in blocks
    BY <2>1, <2>5, <1>8, <1>10 DEF StorageExclusive
  <2>. QED BY <2>2, <2>3, <2>4, <2>5
<1>13. \A b \in blocks \cup R : \A x \in Extent(b) : x \notin Range(a, n)
  BY <1>2, <1>11, ExtendAssumption
<1>14. \A b \in blocks' : \A x \in Extent(b) : x \in Memory /\ use'[x] = b.heap
  BY <1>2, <1>3, <1>6, <1>10, <1>11, ExtendAssumption
<1>15. \A g \in Heap : \A x \in Buffer(g)' : x \in Memory /\ use'[x] = g
  BY <1>2, <1>3, <1>6, <1>7, ExtendAssumption DEF StorageExclusive
<1>16. \A b, d \in blocks' : b # d => Extent(b) \cap Extent(d) = {}
  BY <1>6, <1>10, <1>12, <1>13
<1>17. \A b \in blocks' : Extent(b) \cap Buffer(b.heap)' = {}
  <2>1. \A b \in blocks \cup R : Extent(b) \cap Buffer(b.heap)' = {}
    <3> SUFFICES ASSUME NEW b \in blocks \cup R, NEW x \in Extent(b), x \in Buffer(b.heap)'
                 PROVE  FALSE
      OBVIOUS
    <3>1. CASE b.heap = h
      BY <3>1, <1>6, <1>13
    <3>2. CASE b.heap # h
      BY <3>2, <1>7, <1>8, <1>10, <1>11 DEF StorageExclusive
    <3>. QED BY <3>1, <3>2
  <2>. QED BY <2>1, <1>6, <1>10
<1> QED BY <1>4, <1>14, <1>15, <1>16, <1>17 DEF StorageExclusive, Extent

(* The types of the buffers and the blocks after an extension. *)
LEMMA NewBufferType ==
  ASSUME TypeOK, NEW h \in Heap, NEW s \in BlockSize, NEW a \in Nat, NewBuffer(h, s, a)
  PROVE  /\ bufStart' \in [Heap -> Nat] /\ bufRemaining' \in [Heap -> Nat]
         /\ blocks' \subseteq [heap : Heap, start : Nat, size : BlockSize]
<1>1. s \in Nat /\ Increase(s) - s \in Nat /\ bufStart[h] \in Nat
  BY IncreaseBound, ExtendAssumption DEF TypeOK
<1>2. Remainder(h) \subseteq [heap : Heap, start : Nat, size : BlockSize]
  BY <1>1 DEF Remainder, LargestWithin
<1> QED BY <1>1, <1>2 DEF NewBuffer, TypeOK
-------------------------------------------------------------------------------
(* The steps that map. *)
LEMMA SelfUntouched ==
  ASSUME TypeOK
  PROVE  Untouched(use)
BY DEF Untouched, TypeOK

LEMMA FromSlabKeeps ==
  ASSUME Inv, NEW h \in Heap, NEW s \in BlockSize, ExtendFromSlab(h, s)
  PROVE  Inv'
<1> USE DEF Inv
<1>1. PICK a \in Placed(use, sbrkEnd, Increase(s)) :
        use' = Mapped(use, a, Increase(s), h) /\ NewBuffer(h, s, a)
  BY DEF ExtendFromSlab
<1>2. a \in Int /\ Fits(use, a, PageUp(Increase(s)))
  BY PlacedFits DEF TypeOK
<1>3. StorageExclusive' /\ a \in Memory
  BY <1>1, <1>2, SelfUntouched, NewBufferKeeps
<1>4. Untouched(use')
  BY <1>1, <1>2, SelfUntouched, MappedUntouched
<1>5. LargeInv'
  BY <1>4, LargeQuiet DEF ExtendFromSlab
<1>6. a \in Nat
  BY <1>3, ExtendAssumption DEF Memory
<1>7. Increase(s) \in Nat
  BY IncreaseBound
<1>8. TypeOK'
  BY <1>1, <1>4, <1>6, <1>7, NewBufferType DEF ExtendFromSlab, TypeOK, Untouched
<1> QED BY <1>3, <1>5, <1>8

(* A slab that is reserved. *)
LEMMA ReserveUntouched ==
  ASSUME TypeOK, NEW r, Reserve(r)
  PROVE  Untouched(Mapped(use, r, sbrkExtend, "reserved"))
BY SelfUntouched, MappedUntouched DEF Reserve

LEMMA NewSlabKeeps ==
  ASSUME Inv, NEW h \in Heap, NEW s \in BlockSize, ExtendNewSlab(h, s)
  PROVE  Inv'
<1> USE DEF Inv
<1>1. PICK r \in Memory :
        /\ Reserve(r)
        /\ LET space == Mapped(use, r, sbrkExtend, "reserved") IN
             \E a \in Placed(space, r, Increase(s)) :
               /\ use' = Mapped(space, a, Increase(s), h)
               /\ NewBuffer(h, s, a)
        /\ sbrkEnd' = r + Increase(s)
  BY DEF ExtendNewSlab
<1> DEFINE space == Mapped(use, r, sbrkExtend, "reserved")
<1>2. Untouched(space)
  BY <1>1, ReserveUntouched
<1> HIDE DEF space
<1>3. PICK a \in Placed(space, r, Increase(s)) :
        use' = Mapped(space, a, Increase(s), h) /\ NewBuffer(h, s, a)
  BY <1>1 DEF space
<1>4. a \in Int /\ Fits(space, a, PageUp(Increase(s)))
  BY PlacedFits, ExtendAssumption DEF Memory
<1>5. StorageExclusive' /\ a \in Memory
  BY <1>2, <1>3, <1>4, NewBufferKeeps
<1>6. Untouched(use')
  BY <1>2, <1>3, <1>4, MappedUntouched
<1>7. LargeInv'
  BY <1>6, LargeQuiet DEF ExtendNewSlab
<1>8. r \in Nat /\ a \in Nat
  BY <1>5, ExtendAssumption DEF Memory
<1>9. Increase(s) \in Nat /\ sbrkExtend \in Nat
  BY IncreaseBound DEF TypeOK
<1>10. SlabLength(s) - Increase(s) \in Nat
  BY <1>9 DEF SlabLength
<1>11. {sbrkStart, sbrkEnd, sbrkRemaining, slabEnd}' \subseteq Nat
  BY <1>1, <1>8, <1>9, <1>10 DEF ExtendNewSlab, Reserve
<1>12. TypeOK'
  BY <1>3, <1>6, <1>8, <1>9, <1>11, NewBufferType DEF ExtendNewSlab, TypeOK, Untouched
<1> QED BY <1>5, <1>7, <1>12

LEMMA FailsKeeps ==
  ASSUME Inv, NEW h \in Heap, NEW s \in BlockSize, ExtendFails(h, s)
  PROVE  Inv'
<1> USE DEF Inv
<1>1. PICK r \in Memory :
        /\ Reserve(r)
        /\ use' = Mapped(use, r, sbrkExtend, "reserved")
        /\ sbrkEnd' = r
  BY DEF ExtendFails
<1>2. Untouched(use')
  BY <1>1, ReserveUntouched
<1>3. StorageExclusive' /\ LargeInv'
  BY <1>2, StorageQuiet, LargeQuiet DEF ExtendFails
<1>4. r \in Nat
  BY ExtendAssumption DEF Memory
<1>5. TypeOK'
  BY <1>1, <1>2, <1>4 DEF ExtendFails, Reserve, TypeOK, Untouched, buffers
<1> QED BY <1>3, <1>5

LEMMA MapLargeKeeps ==
  ASSUME Inv, NEW n \in LargeSize, MapLarge(n)
  PROVE  Inv'
<1> USE DEF Inv
<1>1. PICK a \in Placed(use, 0, n) :
        /\ use' = Mapped(use, a, n, "large")
        /\ large' = large \cup {[start |-> a, size |-> n]}
  BY DEF MapLarge
<1>2. a \in Int /\ Fits(use, a, PageUp(n))
  BY PlacedFits
<1>3. n \in Nat \ {0} /\ PageUp(n) \in Nat /\ n <= PageUp(n)
  BY PageUpBound, ExtendAssumption
<1>4. Untouched(use')
  BY <1>1, <1>2, SelfUntouched, MappedUntouched
<1>5. StorageExclusive'
  BY <1>4, StorageQuiet DEF MapLarge
<1>6. \A b \in Range(a, PageUp(n)) : b \in Memory /\ use[b] = "free" /\ use'[b] = "large"
  BY <1>1, <1>2, FitsFree DEF Mapped
<1>7. a \in Nat
  <2>1. a \in Memory
    BY <1>2, <1>3, <1>6 DEF Range
  <2>. QED BY <2>1, ExtendAssumption DEF Memory
<1>8. \A b \in Memory : use[b] # "free" => use'[b] = use[b]
  BY <1>4 DEF Untouched
<1>9. LargeInv'
  <2> DEFINE new == [start |-> a, size |-> n]
  <2>1. \A m \in large' : \A b \in Range(m.start, PageUp(m.size)) :
          b \in Memory /\ use'[b] = "large"
    BY <1>1, <1>6, <1>8 DEF LargeInv
  <2>2. \A m \in large : \A b \in Range(m.start, PageUp(m.size)) : b \notin Range(a, PageUp(n))
    BY <1>6 DEF LargeInv
  <2>3. \A m, k \in large' : m # k =>
          \A b \in Range(m.start, PageUp(m.size)) : b \notin Range(k.start, PageUp(k.size))
    <3> SUFFICES ASSUME NEW m \in large', NEW k \in large', m # k,
                        NEW b, b \in Range(m.start, PageUp(m.size)),
                        b \in Range(k.start, PageUp(k.size))
                 PROVE  FALSE
      OBVIOUS
    <3>1. CASE m \in large /\ k \in large
      BY <3>1 DEF LargeInv
    <3>2. CASE m = new
      BY <3>2, <1>1, <2>2
    <3>3. CASE k = new
      BY <3>3, <1>1, <2>2
    <3>. QED BY <1>1, <3>1, <3>2, <3>3
  <2>. QED BY <2>1, <2>3 DEF LargeInv, Range
<1>10. TypeOK'
  BY <1>1, <1>3, <1>4, <1>7 DEF MapLarge, TypeOK, Untouched, slab, buffers
<1> QED BY <1>5, <1>9, <1>10

LEMMA UnmapLargeKeeps ==
  ASSUME Inv, NEW m \in large, UnmapLarge(m)
  PROVE  Inv'
<1> USE DEF Inv
<1>1. \A b \in Memory : use'[b] = IF b \in Range(m.start, PageUp(m.size)) THEN "free" ELSE use[b]
  BY DEF UnmapLarge, Mapped
<1>2. \A b \in Range(m.start, PageUp(m.size)) : use[b] = "large"
  BY DEF LargeInv
<1>3. \A b \in Memory : use[b] \in Heap => use'[b] = use[b]
  BY <1>1, <1>2, ExtendAssumption
<1>4. \A b \in blocks : b.heap \in Heap
  BY DEF TypeOK
<1>5. StorageExclusive'
  BY <1>3, <1>4 DEF UnmapLarge, StorageExclusive, Extent, Buffer, buffers
<1>6. LargeInv'
  <2>1. large' = large \ {m}
    BY DEF UnmapLarge
  <2>2. \A k \in large' : \A b \in Range(k.start, PageUp(k.size)) :
          b \in Memory /\ use'[b] = "large"
    BY <1>1, <2>1 DEF LargeInv
  <2>. QED BY <2>1, <2>2 DEF LargeInv, Range
<1>7. use' \in [Memory -> Heap \cup {"free", "reserved", "large"}]
  BY DEF UnmapLarge, Mapped, TypeOK
<1>8. TypeOK'
  BY <1>7 DEF UnmapLarge, TypeOK, slab, buffers
<1> QED BY <1>5, <1>6, <1>8

LEMMA SetTopPadKeeps ==
  ASSUME Inv, NEW v \in TopPad, SetTopPad(v)
  PROVE  Inv'
<1>1. PageUp(v) \in Nat
  BY PageUpBound, ExtendAssumption
<1>2. TypeOK'
  BY <1>1 DEF Inv, SetTopPad, TypeOK, slab, buffers
<1> QED BY <1>2 DEF Inv, SetTopPad, StorageExclusive, LargeInv, Extent, Buffer, buffers
-------------------------------------------------------------------------------
(* Nothing is mapped, cut or accounted for at first. *)
LEMMA InitInv == Init => Inv
<1> SUFFICES ASSUME Init
             PROVE  Inv
  OBVIOUS
<1>1. PageUp(HeapExtend) \in Nat
  BY PageUpBound, ExtendAssumption
<1>2. TypeOK
  BY <1>1 DEF Init, TypeOK
<1>3. \A h \in Heap : Buffer(h) = {}
  <2> SUFFICES ASSUME NEW h \in Heap
               PROVE  Range(0, 0) = {}
    BY DEF Init, Buffer
  <2>. QED BY DEF Range
<1>4. StorageExclusive /\ LargeInv
  BY <1>3 DEF Init, StorageExclusive, LargeInv
<1> QED BY <1>2, <1>4 DEF Inv

LEMMA NextInv == Inv /\ [Next]_vars => Inv'
<1> SUFFICES ASSUME Inv, [Next]_vars
             PROVE  Inv'
  OBVIOUS
<1>1. CASE UNCHANGED vars
  BY <1>1 DEF Inv, vars, slab, buffers, TypeOK, StorageExclusive, LargeInv, Extent, Buffer
<1>2. ASSUME NEW h \in Heap, NEW s \in BlockSize, Bump(h, s) PROVE Inv'
  BY <1>2, BumpKeeps
<1>3. ASSUME NEW h \in Heap, NEW s \in BlockSize, ExtendFromSlab(h, s) PROVE Inv'
  BY <1>3, FromSlabKeeps
<1>4. ASSUME NEW h \in Heap, NEW s \in BlockSize, ExtendNewSlab(h, s) PROVE Inv'
  BY <1>4, NewSlabKeeps
<1>5. ASSUME NEW h \in Heap, NEW s \in BlockSize, ExtendFails(h, s) PROVE Inv'
  BY <1>5, FailsKeeps
<1>6. ASSUME NEW n \in LargeSize, MapLarge(n) PROVE Inv'
  BY <1>6, MapLargeKeeps
<1>7. ASSUME NEW m \in large, UnmapLarge(m) PROVE Inv'
  BY <1>7, UnmapLargeKeeps
<1>8. ASSUME NEW v \in TopPad, SetTopPad(v) PROVE Inv'
  BY <1>8, SetTopPadKeeps
<1> QED BY <1>1, <1>2, <1>3, <1>4, <1>5, <1>6, <1>7, <1>8 DEF Next

LEMMA Invariant == Spec => []Inv
BY InitInv, NextInv, PTL DEF Spec

(* Every variable stays in its range: what remains of a buffer or a slab is *)
(* never negative.                                                          *)
THEOREM TypeCorrect == Spec => []TypeOK
<1>1. Inv => TypeOK
  BY DEF Inv
<1> QED BY <1>1, Invariant, PTL

(* No storage is given out twice or past what is mapped for its heap,       *)
(* wherever the kernel places mappings and whichever fail.                  *)
THEOREM Exclusive == Spec => []StorageExclusive
<1>1. Inv => StorageExclusive
  BY DEF Inv
<1> QED BY <1>1, Invariant, PTL
-------------------------------------------------------------------------------
(* The account of the slab: whatever length mallopt asked for, above or     *)
(* below a thread block, and whichever mapping failed, what is accounted to *)
(* a slab is no more than the slab, or than the one extension that is       *)
(* longer than it.                                                          *)
THEOREM SlabAccount == Spec => []SlabNotOversold
<1>1. ASSUME Init
      PROVE  SlabNotOversold
  BY <1>1 DEF Init, SlabNotOversold
<1>2. ASSUME Inv, SlabNotOversold, [Next]_vars
      PROVE  SlabNotOversold'
  <2>1. {sbrkStart, sbrkEnd, sbrkRemaining, slabEnd, sbrkExtend} \subseteq Nat
    BY <1>2 DEF Inv, TypeOK
  <2>2. \A s \in BlockSize : Increase(s) \in Nat
    BY IncreaseBound
  <2>3. CASE UNCHANGED slab
    BY <1>2, <2>3 DEF slab, SlabNotOversold
  <2>4. ASSUME NEW h \in Heap, NEW s \in BlockSize, ExtendFromSlab(h, s)
        PROVE  SlabNotOversold'
    <3>1. sbrkEnd' + sbrkRemaining' = sbrkEnd + sbrkRemaining
      BY <2>1, <2>2, <2>4 DEF ExtendFromSlab
    <3>. QED BY <1>2, <2>4, <3>1 DEF ExtendFromSlab, SlabNotOversold
  <2>5. ASSUME NEW h \in Heap, NEW s \in BlockSize, ExtendNewSlab(h, s)
        PROVE  SlabNotOversold'
    <3>1. PICK r \in Memory : Reserve(r) /\ sbrkEnd' = r + Increase(s)
      BY <2>5 DEF ExtendNewSlab
    <3>2. r \in Nat
      BY ExtendAssumption DEF Memory
    <3>3. sbrkRemaining' = SlabLength(s) - Increase(s)
      BY <2>5 DEF ExtendNewSlab
    <3>4. sbrkEnd' + sbrkRemaining' = r + SlabLength(s)
      BY <2>1, <2>2, <3>1, <3>2, <3>3 DEF SlabLength
    <3>5. CASE Increase(s) > sbrkExtend
      BY <3>1, <3>4, <3>5 DEF Reserve, SlabLength, SlabNotOversold
    <3>6. CASE ~(Increase(s) > sbrkExtend)
      <4>1. sbrkEnd' + sbrkRemaining' = slabEnd'
        BY <3>1, <3>4, <3>6 DEF Reserve, SlabLength
      <4>. QED BY <2>1, <3>1, <3>2, <4>1 DEF Reserve, SlabNotOversold
    <3>. QED BY <3>5, <3>6
  <2>6. ASSUME NEW h \in Heap, NEW s \in BlockSize, ExtendFails(h, s)
        PROVE  SlabNotOversold'
    <3>1. PICK r \in Memory : Reserve(r) /\ sbrkEnd' = r
      BY <2>6 DEF ExtendFails
    <3>2. r \in Nat
      BY ExtendAssumption DEF Memory
    <3>3. sbrkRemaining' = sbrkRemaining /\ sbrkRemaining < Increase(s)
      BY <2>6 DEF ExtendFails
    <3>4. sbrkEnd' + sbrkRemaining' <= sbrkStart' + Increase(s)
      BY <2>1, <2>2, <3>1, <3>2, <3>3 DEF Reserve
    <3>. QED BY <3>4 DEF SlabNotOversold
  <2>. QED BY <1>2, <2>3, <2>4, <2>5, <2>6
           DEF Next, vars, Bump, MapLarge, UnmapLarge, SetTopPad
<1>3. Init /\ [][Next]_vars => []SlabNotOversold
  BY <1>1, <1>2, Invariant, PTL DEF Spec
<1>. QED BY <1>3 DEF Spec
===============================================================================
