----------------------------- MODULE ObjectsProofs -----------------------------
(***************************************************************************)
(* The routines of Objects keep what they promise, for any number of       *)
(* objects and blocks, any sizes, alignments and buckets.                  *)
(*                                                                         *)
(* First, no routine loses a block or frees one under the program.  Which  *)
(* blocks are allocated is the domain of block.  A routine that makes an   *)
(* object adds one block to it or none; a routine that is given an object  *)
(* gives up its block at most, and adds one at most.  The lemmas say so of *)
(* the outcomes of each routine, and OneOwner puts them together with what *)
(* the program then holds.                                                 *)
(*                                                                         *)
(* Then, an object is in its block as promised: Kept says so of one object *)
(* in its storage, and is what each routine keeps.  The lemmas follow the  *)
(* code again, from the place of a new object through filling, copying and *)
(* realigning up to each routine, and the theorems about headers, contents *)
(* and addresses follow.                                                   *)
(***************************************************************************)
EXTENDS Objects, NaturalsInduction, WellFoundedInduction, TLAPS

(* What a routine that makes an object may do with the blocks D. *)
Makes(D, out) ==
  \/ /\ out.failed = TRUE
     /\ out.ret = Null
     /\ DOMAIN out.mem = D
  \/ /\ out.failed = FALSE
     /\ out.ret.b \in Block \ D
     /\ DOMAIN out.mem = D \cup {out.ret.b}

(* What realloc may do with the blocks D and an object in block b. *)
Exchanges(D, b, out) ==
  \/ /\ out.failed = TRUE
     /\ out.ret = Null
     /\ DOMAIN out.mem = D
  \/ /\ out.failed = FALSE
     /\ out.ret = Null
     /\ DOMAIN out.mem = D \ {b}
  \/ /\ out.failed = FALSE
     /\ out.ret.b \in Block \ (D \ {b})
     /\ DOMAIN out.mem = (D \ {b}) \cup {out.ret.b}

(* doMalloc takes a block that is free, or none. *)
LEMMA DoMallocMakes ==
  ASSUME NEW B, NEW n, NEW out \in DoMalloc(B, n)
  PROVE  Makes(DOMAIN B, out)
<1>1. CASE out = NoMemory(B)
  BY <1>1 DEF NoMemory, Makes
<1>2. CASE \E b \in Block \ DOMAIN B, c \in NewBlock(n) :
             out = Done(With(B, b, c), [b |-> b, at |-> Header])
  <2>1. PICK b \in Block \ DOMAIN B, c \in NewBlock(n) :
          out = Done(With(B, b, c), [b |-> b, at |-> Header])
    BY <1>2
  <2>2. DOMAIN With(B, b, c) = DOMAIN B \cup {b}
    BY DEF With
  <2> QED  BY <2>1, <2>2 DEF Done, Makes
<1> QED  BY <1>1, <1>2 DEF DoMalloc

(* So does memalignNoStats. *)
LEMMA MemalignMakes ==
  ASSUME NEW B, NEW alignment, NEW n, NEW out \in MemalignNoStats(B, alignment, n)
  PROVE  Makes(DOMAIN B, out)
<1>1. CASE alignment <= Align \/ n = 0
  BY <1>1, DoMallocMakes DEF MemalignNoStats
<1>2. CASE ~(alignment <= Align \/ n = 0)
  <2>1. PICK o \in DoMalloc(B, n + alignment - Align + Header) :
          out = IF o.failed THEN o ELSE FakeHeader(o, alignment, n)
    BY <1>2 DEF MemalignNoStats
  <2>2. Makes(DOMAIN B, o)
    BY DoMallocMakes
  <2>3. CASE o.failed = TRUE
    BY <2>1, <2>2, <2>3
  <2>4. CASE o.failed = FALSE
    <3>1. /\ FakeHeader(o, alignment, n).failed = FALSE
          /\ FakeHeader(o, alignment, n).ret.b = o.ret.b
          /\ DOMAIN FakeHeader(o, alignment, n).mem = DOMAIN o.mem
      BY DEF FakeHeader, Done
    <3> QED  BY <2>1, <2>2, <2>4, <3>1 DEF Makes
  <2> QED  BY <2>2, <2>3, <2>4 DEF Makes
<1> QED  BY <1>1, <1>2

(* Clearing the storage of the new object changes no block. *)
LEMMA ClearedMakes ==
  ASSUME NEW D, NEW o, NEW n, Makes(D, o)
  PROVE  Makes(D, Cleared(o, n))
<1>1. CASE o.failed = TRUE
  BY <1>1 DEF Cleared
<1>2. CASE o.failed = FALSE
  <2>1. /\ Cleared(o, n).failed = FALSE
        /\ Cleared(o, n).ret = o.ret
        /\ DOMAIN Cleared(o, n).mem = DOMAIN o.mem
    BY <1>2 DEF Cleared, Done
  <2> QED  BY <1>2, <2>1 DEF Makes
<1> QED  BY <1>1, <1>2 DEF Makes

(* The free and the malloc of resize: the new block may be the old one. *)
LEMMA FreedThenMade ==
  ASSUME NEW B, NEW p, NEW out, Makes(DOMAIN DoFree(B, p), out), p.b \in DOMAIN B
  PROVE  \/ out.ret = Null /\ DOMAIN out.mem = DOMAIN B \ {p.b}
         \/ /\ out.ret.b \in Block \ (DOMAIN B \ {p.b})
            /\ DOMAIN out.mem = (DOMAIN B \ {p.b}) \cup {out.ret.b}
  BY DEF Makes, DoFree, Without

(* The copy of realloc frees the old block when there is a new one. *)
LEMMA MovedExchanges ==
  ASSUME NEW B, NEW p, NEW n, NEW outcomes, p.b \in DOMAIN B,
         \A o \in outcomes : Makes(DOMAIN B, o),
         NEW out \in Moved(p, n, outcomes)
  PROVE  Exchanges(DOMAIN B, p.b, out)
<1>1. PICK o \in outcomes :
        out = IF o.failed THEN o
              ELSE Done(DoFree(Copied(o.mem, p, o.ret, n), p), o.ret)
  BY DEF Moved
<1>2. Makes(DOMAIN B, o)
  OBVIOUS
<1>3. CASE o.failed = TRUE
  BY <1>1, <1>2, <1>3 DEF Makes, Exchanges
<1>4. CASE o.failed = FALSE
  <2>1. DOMAIN Copied(o.mem, p, o.ret, n) = DOMAIN o.mem
    BY DEF Copied, FilledUp, Zeroed
  <2>2. DOMAIN DoFree(Copied(o.mem, p, o.ret, n), p) = DOMAIN o.mem \ {p.b}
    BY <2>1 DEF DoFree, Without
  <2> QED  BY <1>1, <1>2, <1>4, <2>2 DEF Makes, Exchanges, Done
<1> QED  BY <1>2, <1>3, <1>4 DEF Makes

(* A realloc in place leaves the blocks alone. *)
LEMMA InPlaceExchanges ==
  ASSUME NEW B, NEW p, NEW n, p.b \in DOMAIN B, DOMAIN B \subseteq Block,
         NEW out, \/ out = ReallocInPlace(B, p, n)
                  \/ out = ResizedInPlace(B, p, n)
  PROVE  Exchanges(DOMAIN B, p.b, out)
<1>1. CASE out = ReallocInPlace(B, p, n)
  <2>1. DOMAIN FilledUp([B EXCEPT ![p.b].size = n], p, B[p.b].size, n, B[p.b].zero) = DOMAIN B
    BY DEF FilledUp, Zeroed
  <2> QED  BY <1>1, <2>1 DEF ReallocInPlace, Done, Exchanges
<1>2. CASE out = ResizedInPlace(B, p, n)
  BY <1>2 DEF ResizedInPlace, Done, Exchanges
<1> QED  BY <1>1, <1>2

(* realloc of an object. *)
LEMMA ReallocExchanges ==
  ASSUME NEW B, NEW p, NEW n, p.b \in DOMAIN B, DOMAIN B \subseteq Block, p # Null,
         NEW out \in Realloc(B, p, n)
  PROVE  Exchanges(DOMAIN B, p.b, out)
<1>1. CASE n = 0
  BY <1>1 DEF Realloc, DoFree, Without, Done, Exchanges
<1>2. CASE n # 0 /\ Reusable(B, p, n)
  BY <1>2, InPlaceExchanges DEF Realloc
<1>3. CASE n # 0 /\ ~Reusable(B, p, n)
  <2>1. out \in Moved(p, n, MemalignNoStats(B, malloc_alignment(B, p), n))
    BY <1>3 DEF Realloc
  <2> QED  BY <2>1, MemalignMakes, MovedExchanges
<1> QED  BY <1>1, <1>2, <1>3

(* aligned_realloc of an object, by way of realloc or by a copy. *)
LEMMA AlignedReallocExchanges ==
  ASSUME NEW B, NEW p, NEW alignment, NEW n,
         p.b \in DOMAIN B, DOMAIN B \subseteq Block, p # Null,
         NEW out \in AlignedRealloc(B, p, alignment, n)
  PROVE  Exchanges(DOMAIN B, p.b, out)
<1> DEFINE nalignment == Max({alignment, Align})
           C == SetAlignment(B, p, nalignment)
<1>1. CASE n = 0
  BY <1>1 DEF AlignedRealloc, DoFree, Without, Done, Exchanges
<1>2. CASE n # 0 /\ LuckyMatch(B, p, nalignment)
  <2>1. out \in Realloc(C, p, n)
    BY <1>2 DEF AlignedRealloc
  <2>2. DOMAIN C = DOMAIN B
    BY DEF SetAlignment
  <2> HIDE DEF C
  <2> QED  BY <2>1, <2>2, ReallocExchanges
<1>3. CASE n # 0 /\ ~LuckyMatch(B, p, nalignment)
  <2>1. \/ out \in Realloc(B, p, n)
        \/ out \in Moved(p, n, MemalignNoStats(B, alignment, n))
    BY <1>3 DEF AlignedRealloc
  <2> QED  BY <2>1, ReallocExchanges, MemalignMakes, MovedExchanges
<1> QED  BY <1>1, <1>2, <1>3

(* What resize may do: the old object is given up also when there is no     *)
(* memory for the new one.                                                  *)
GivesUp(D, b, out) ==
  \/ out.ret = Null /\ DOMAIN out.mem = D \ {b}
  \/ /\ out.ret.b \in Block \ (D \ {b})
     /\ DOMAIN out.mem = (D \ {b}) \cup {out.ret.b}

(* resize of an object. *)
LEMMA ResizeGivesUp ==
  ASSUME NEW B, NEW p, NEW n, p.b \in DOMAIN B, DOMAIN B \subseteq Block, p # Null,
         NEW out \in Resize(B, p, n)
  PROVE  GivesUp(DOMAIN B, p.b, out)
<1>1. CASE n = 0
  BY <1>1 DEF Resize, DoFree, Without, Done, GivesUp
<1>2. CASE n # 0 /\ malloc_alignment(B, p) = Align /\ Reusable(B, p, n)
  BY <1>2 DEF Resize, ResizedInPlace, Done, GivesUp
<1>3. CASE n # 0 /\ ~(malloc_alignment(B, p) = Align /\ Reusable(B, p, n))
  <2>1. out \in DoMalloc(DoFree(B, p), n)
    BY <1>3 DEF Resize
  <2> QED  BY <2>1, DoMallocMakes, FreedThenMade DEF GivesUp
<1> QED  BY <1>1, <1>2, <1>3

(* aligned_resize of an object. *)
LEMMA AlignedResizeGivesUp ==
  ASSUME NEW B, NEW p, NEW alignment, NEW n,
         p.b \in DOMAIN B, DOMAIN B \subseteq Block, p # Null,
         NEW out \in AlignedResize(B, p, alignment, n)
  PROVE  GivesUp(DOMAIN B, p.b, out)
<1> DEFINE nalignment == Max({alignment, Align})
           lucky == p # Null /\ LuckyMatch(B, p, nalignment)
<1>1. CASE n = 0
  BY <1>1 DEF AlignedResize, DoFree, Without, Done, GivesUp
<1>2. CASE n # 0 /\ lucky /\ Reusable(B, p, n)
  <2>1. out = ResizedInPlace(SetAlignment(B, p, nalignment), p, n)
    BY <1>2 DEF AlignedResize
  <2>2. DOMAIN SetAlignment(B, p, nalignment) = DOMAIN B
    BY DEF SetAlignment
  <2> QED  BY <2>1, <2>2 DEF ResizedInPlace, Done, GivesUp
<1>3. CASE n # 0 /\ ~(lucky /\ Reusable(B, p, n))
  <2>1. \/ out \in Resize(B, p, n)
        \/ out \in MemalignNoStats(DoFree(B, p), nalignment, n)
    BY <1>3 DEF AlignedResize
  <2> QED  BY <2>1, ResizeGivesUp, MemalignMakes, FreedThenMade DEF GivesUp
<1> QED  BY <1>1, <1>2, <1>3
-------------------------------------------------------------------------------
(* The invariant of the objects: what the program holds and what is         *)
(* allocated.                                                               *)
ObjectsInv == OneBlockEach /\ DOMAIN block \subseteq Block

LEMMA NullIsNone == Null.b \notin Block
  BY ObjectsAssumption DEF Null

LEMMA HeldIsNotNull ==
  ASSUME ObjectsInv, NEW p \in Object
  PROVE  p.b \in DOMAIN block /\ p.b \in Block /\ p # Null
  BY NullIsNone DEF ObjectsInv, OneBlockEach

(* A step of a routine that makes an object. *)
LEMMA AllocatePreserves ==
  ASSUME ObjectsInv, NEW outcomes, NEW o, Allocate(outcomes, o),
         \A out \in outcomes : Makes(DOMAIN block, out)
  PROVE  ObjectsInv'
<1>1. PICK out \in outcomes :
        /\ block' = out.mem
        /\ promise' = IF out.ret = Null THEN promise ELSE With(promise, out.ret, o)
  BY DEF Allocate, Returns
<1>2. Makes(DOMAIN block, out)
  OBVIOUS
<1>3. CASE out.ret = Null
  BY <1>1, <1>2, <1>3, NullIsNone DEF Makes, ObjectsInv, OneBlockEach, Object
<1>4. CASE out.ret # Null
  <2>1. Object' = Object \cup {out.ret}
    BY <1>1, <1>4 DEF Object, With
  <2>2. /\ out.ret.b \in Block \ DOMAIN block
        /\ DOMAIN block' = DOMAIN block \cup {out.ret.b}
    BY <1>1, <1>2, <1>4 DEF Makes
  <2> QED  BY <2>1, <2>2 DEF ObjectsInv, OneBlockEach
<1> QED  BY <1>3, <1>4

(* The object p is given up, alone or for another in a block of its own. *)
LEMMA ExchangePreserves ==
  ASSUME ObjectsInv, NEW p \in Object, NEW q,
         \/ /\ Object' = Object \ {p}
            /\ DOMAIN block' = DOMAIN block \ {p.b}
         \/ /\ Object' = (Object \ {p}) \cup {q}
            /\ q.b \in Block \ (DOMAIN block \ {p.b})
            /\ DOMAIN block' = (DOMAIN block \ {p.b}) \cup {q.b}
  PROVE  ObjectsInv'
<1>1. {r.b : r \in Object \ {p}} = DOMAIN block \ {p.b}
  BY DEF ObjectsInv, OneBlockEach
<1>2. CASE Object' = Object \ {p} /\ DOMAIN block' = DOMAIN block \ {p.b}
  BY <1>1, <1>2 DEF ObjectsInv, OneBlockEach
<1>3. CASE /\ Object' = (Object \ {p}) \cup {q}
           /\ q.b \in Block \ (DOMAIN block \ {p.b})
           /\ DOMAIN block' = (DOMAIN block \ {p.b}) \cup {q.b}
  <2>1. \A r \in Object \ {p} : r.b # q.b
    BY <1>1, <1>3
  <2> QED  BY <1>1, <1>3, <2>1 DEF ObjectsInv, OneBlockEach
<1> QED  BY <1>2, <1>3

(* A step of resize and its aligned variant. *)
LEMMA ResizesPreserves ==
  ASSUME ObjectsInv, NEW p \in Object, NEW outcomes, NEW o, Resizes(p, outcomes, o),
         \A out \in outcomes : GivesUp(DOMAIN block, p.b, out)
  PROVE  ObjectsInv'
<1>1. PICK out \in outcomes :
        /\ block' = out.mem
        /\ promise' = IF out.ret = Null THEN Without(promise, p)
                      ELSE With(Without(promise, p), out.ret, o)
  BY DEF Resizes, Returns
<1>2. GivesUp(DOMAIN block, p.b, out)
  OBVIOUS
<1>3. CASE out.ret = Null
  BY <1>1, <1>2, <1>3, NullIsNone, ExchangePreserves DEF GivesUp, Object, Without
<1>4. CASE out.ret # Null
  <2>1. Object' = (Object \ {p}) \cup {out.ret}
    BY <1>1, <1>4 DEF Object, With, Without
  <2> QED  BY <1>1, <1>2, <1>4, <2>1, ExchangePreserves DEF GivesUp
<1> QED  BY <1>3, <1>4

(* A step of realloc and its variants: errno tells failure from success     *)
(* when it was not ENOMEM before.                                           *)
LEMMA ReallocatesPreserves ==
  ASSUME ObjectsInv, NEW p \in Object, NEW outcomes, NEW o, NEW posix,
         Reallocates(p, outcomes, o, posix),
         posix = TRUE => errno # ENOMEM, posix \in BOOLEAN,
         \A out \in outcomes : Exchanges(DOMAIN block, p.b, out)
  PROVE  ObjectsInv'
<1>1. PICK out \in outcomes :
        /\ block' = out.mem
        /\ promise' =
             IF out.failed \/ (posix /\ ReturnedENOMEM(out)) THEN Untouched(p, out.mem)
             ELSE IF out.ret = Null THEN Without(promise, p)
             ELSE With(Without(promise, p), out.ret, o)
  BY DEF Reallocates, Returns
<1>2. Exchanges(DOMAIN block, p.b, out)
  OBVIOUS
<1>3. CASE out.failed = TRUE
  <2>1. DOMAIN block' = DOMAIN block
    BY <1>1, <1>2, <1>3 DEF Exchanges
  <2>2. Object' = Object
    BY <1>1, <1>3 DEF Object, Untouched
  <2> QED  BY <2>1, <2>2 DEF ObjectsInv, OneBlockEach
<1>4. CASE out.failed = FALSE /\ out.ret = Null
  <2>1. ~(out.failed \/ (posix /\ ReturnedENOMEM(out)))
    BY <1>4 DEF ReturnedENOMEM
  <2>2. Object' = Object \ {p}
    BY <1>1, <1>4, <2>1 DEF Object, Without
  <2>3. DOMAIN block' = DOMAIN block \ {p.b}
    BY <1>1, <1>2, <1>4, NullIsNone DEF Exchanges
  <2> QED  BY <2>2, <2>3, ExchangePreserves
<1>5. CASE out.failed = FALSE /\ out.ret # Null
  <2>1. ~(out.failed \/ (posix /\ ReturnedENOMEM(out)))
    BY <1>5 DEF ReturnedENOMEM
  <2>2. Object' = (Object \ {p}) \cup {out.ret}
    BY <1>1, <1>5, <2>1 DEF Object, With, Without
  <2> QED  BY <1>1, <1>2, <1>5, <2>2, ExchangePreserves DEF Exchanges
<1> QED  BY <1>2, <1>3, <1>4, <1>5 DEF Exchanges

(* nullptr for the old object: a step as that of malloc or memalign. *)
LEMMA NullPreserves ==
  ASSUME ObjectsInv, NEW outcomes, NEW o, NEW posix \in BOOLEAN,
         \/ Resizes(Null, outcomes, o)
         \/ Reallocates(Null, outcomes, o, posix),
         \A out \in outcomes : Makes(DOMAIN block, out)
  PROVE  ObjectsInv'
<1>1. Null \notin Object
  BY HeldIsNotNull
<1>2. PICK out \in outcomes :
        /\ block' = out.mem
        /\ \/ out.ret = Null /\ Object' = Object
           \/ out.failed = FALSE /\ Object' = Object \cup {out.ret}
           \/ out.failed = TRUE /\ Object' = Object
  <2>1. /\ DOMAIN Without(promise, Null) = Object
        /\ \A q, r : DOMAIN With(Without(promise, Null), q, r) = Object \cup {q}
    BY <1>1 DEF Without, With, Object
  <2>2. CASE Resizes(Null, outcomes, o)
    <3>1. PICK out \in outcomes :
            /\ block' = out.mem
            /\ promise' = IF out.ret = Null THEN Without(promise, Null)
                          ELSE With(Without(promise, Null), out.ret, o)
      BY <2>2 DEF Resizes, Returns
    <3>2. Makes(DOMAIN block, out)
      OBVIOUS
    <3>3. CASE out.ret = Null
      BY <2>1, <3>1, <3>3 DEF Object
    <3>4. CASE out.ret # Null
      BY <2>1, <3>1, <3>2, <3>4 DEF Object, Makes
    <3> QED  BY <3>3, <3>4
  <2>3. CASE Reallocates(Null, outcomes, o, posix)
    <3>1. PICK out \in outcomes :
            /\ block' = out.mem
            /\ \/ (out.failed \/ out.ret = Null) /\ DOMAIN promise' = Object
               \/ out.ret = Null /\ promise' = Without(promise, Null)
               \/ out.ret # Null /\ promise' = With(Without(promise, Null), out.ret, o)
      BY <2>3 DEF Reallocates, Returns, ReturnedENOMEM, Untouched, Object
    <3>2. Makes(DOMAIN block, out)
      OBVIOUS
    <3>3. CASE out.ret = Null
      BY <2>1, <3>1, <3>3 DEF Object
    <3>4. CASE out.ret # Null
      <4>1. out.failed = FALSE
        BY <3>2, <3>4 DEF Makes
      <4>2. promise' = With(Without(promise, Null), out.ret, o)
        BY <3>1, <3>4, <4>1
      <4>3. DOMAIN promise' = Object \cup {out.ret}
        BY <2>1, <4>2
      <4> QED  BY <3>1, <4>1, <4>3 DEF Object
    <3> QED  BY <3>3, <3>4
  <2> QED  BY <2>2, <2>3
<1>3. Makes(DOMAIN block, out)
  OBVIOUS
<1> QED  BY <1>2, <1>3, NullIsNone DEF Makes, ObjectsInv, OneBlockEach

(* Every step keeps the blocks apart. *)
LEMMA ObjectsStep ==
  ASSUME StaleErrno = FALSE, ObjectsInv, [Next]_vars
  PROVE  ObjectsInv'
<1>1. CASE UNCHANGED vars
  BY <1>1 DEF vars, ObjectsInv, OneBlockEach, Object
<1>2. ASSUME NEW n \in Size, malloc(n) \/ calloc(n) \/ valloc(n) \/ pvalloc(n)
      PROVE  ObjectsInv'
  <2>1. CASE malloc(n)
    BY <2>1, DoMallocMakes, AllocatePreserves DEF malloc
  <2>2. CASE calloc(n)
    <3>1. \A out \in Calloc(block, n) : Makes(DOMAIN block, out)
      BY DoMallocMakes, ClearedMakes DEF Calloc
    <3> QED  BY <2>2, <3>1, AllocatePreserves DEF calloc
  <2>3. CASE valloc(n)
    BY <2>3, MemalignMakes, AllocatePreserves DEF valloc, Valloc
  <2>4. CASE pvalloc(n)
    BY <2>4, MemalignMakes, AllocatePreserves DEF pvalloc, Valloc, Pvalloc
  <2> QED  BY <1>2, <2>1, <2>2, <2>3, <2>4
<1>3. ASSUME NEW a \in Alignment, NEW n \in Size,
             \/ memalign(a, n) \/ aligned_alloc(a, n) \/ cmemalign(a, n)
             \/ posix_memalign(a, n)
      PROVE  ObjectsInv'
  <2>1. CASE memalign(a, n)
    BY <2>1, MemalignMakes, AllocatePreserves DEF memalign
  <2>2. CASE cmemalign(a, n)
    <3>1. \A out \in Cmemalign(block, a, n) : Makes(DOMAIN block, out)
      BY MemalignMakes, ClearedMakes DEF Cmemalign
    <3> QED  BY <2>2, <3>1, AllocatePreserves DEF cmemalign
  <2> QED  BY <1>3, <2>1, <2>2 DEF aligned_alloc, posix_memalign
<1>4. ASSUME NEW p \in Object, free(p)
      PROVE  ObjectsInv'
  BY <1>4, ExchangePreserves DEF free, Returns, Done, DoFree, Without, Object
<1>5. ASSUME NEW p \in Object, malloc_usable_size(p) \/ Write(p)
      PROVE  ObjectsInv'
  <2>1. DOMAIN block' = DOMAIN block /\ Object' = Object
    BY <1>5 DEF malloc_usable_size, Usable, Write, Returns, Done, Object
  <2> QED  BY <2>1 DEF ObjectsInv, OneBlockEach
<1>6. ASSUME NEW p \in Object, NEW n \in Size,
             resize(p, n) \/ realloc(p, n) \/ posix_realloc(p, n)
      PROVE  ObjectsInv'
  BY <1>6, HeldIsNotNull, ResizeGivesUp, ReallocExchanges, ResizesPreserves,
     ReallocatesPreserves DEF resize, realloc, posix_realloc, ObjectsInv
<1>7. ASSUME NEW p \in Object, NEW a \in Alignment, NEW n \in Size,
             \/ aligned_resize(p, a, n) \/ aligned_realloc(p, a, n)
             \/ posix_aligned_realloc(p, a, n)
      PROVE  ObjectsInv'
  BY <1>7, HeldIsNotNull, AlignedResizeGivesUp, AlignedReallocExchanges,
     ResizesPreserves, ReallocatesPreserves
     DEF aligned_resize, aligned_realloc, posix_aligned_realloc, ObjectsInv
<1>8. ASSUME NEW n \in Size,
             resize(Null, n) \/ realloc(Null, n) \/ posix_realloc(Null, n)
      PROVE  ObjectsInv'
  BY <1>8, DoMallocMakes, NullPreserves DEF resize, realloc, posix_realloc, Resize, Realloc
<1>9. ASSUME NEW a \in Alignment, NEW n \in Size,
             \/ aligned_resize(Null, a, n) \/ aligned_realloc(Null, a, n)
             \/ posix_aligned_realloc(Null, a, n)
      PROVE  ObjectsInv'
  <2>1. /\ AlignedResize(block, Null, a, n) = MemalignNoStats(block, a, n)
        /\ AlignedRealloc(block, Null, a, n) = MemalignNoStats(block, a, n)
    BY DEF AlignedResize, AlignedRealloc
  <2> QED  BY <1>9, <2>1, MemalignMakes, NullPreserves
           DEF aligned_resize, aligned_realloc, posix_aligned_realloc
<1>10. CASE ClearErrno
  BY <1>10 DEF ClearErrno, ObjectsInv, OneBlockEach, Object
<1> QED  BY <1>1, <1>2, <1>3, <1>4, <1>5, <1>6, <1>7, <1>8, <1>9, <1>10 DEF Next

(* No routine loses a block or frees one that the program holds, if the     *)
(* program resets errno before it calls posix_realloc.                      *)
THEOREM OneOwner == StaleErrno = FALSE /\ Spec => []OneBlockEach
<1> SUFFICES ASSUME StaleErrno = FALSE
             PROVE  Spec => []OneBlockEach
  OBVIOUS
<1>1. Init => ObjectsInv
  BY DEF Init, ObjectsInv, OneBlockEach, Object
<1>2. ObjectsInv /\ [Next]_vars => ObjectsInv'
  BY ObjectsStep
<1>3. ObjectsInv => OneBlockEach
  BY DEF ObjectsInv
<1> QED  BY <1>1, <1>2, <1>3, PTL DEF Spec
-------------------------------------------------------------------------------
(* Division and multiples. *)
LEMMA Division ==
  ASSUME NEW x \in Int, NEW m \in Nat \ {0}
  PROVE  /\ x \div m \in Int
         /\ x % m \in 0 .. m - 1
         /\ x = (m * (x \div m)) + (x % m)
  BY SMT

LEMMA Multiple ==
  ASSUME NEW q \in Int, NEW m \in Nat \ {0}
  PROVE  (m * q) % m = 0
<1> DEFINE d == (m * q) \div m
           r == (m * q) % m
<1>1. d \in Int /\ r \in 0 .. m - 1 /\ m * q = (m * d) + r
  BY Division, m * q \in Int
<1> HIDE DEF d, r
<1>2. m * (q - d) = r
  BY <1>1
<1>3. q - d = 0
  <2>1. CASE q - d >= 1
    <3>1. m * (q - d) >= m BY <1>1, <2>1
    <3> QED BY <1>1, <1>2, <3>1
  <2>2. CASE q - d <= -1
    <3>1. m * (q - d) <= -m BY <1>1, <2>2
    <3> QED BY <1>1, <1>2, <3>1
  <2> QED BY <1>1, <2>1, <2>2
<1> QED BY <1>2, <1>3, <1>1 DEF r

LEMMA Factor ==
  ASSUME NEW x \in Int, NEW m \in Nat \ {0}, x % m = 0
  PROVE  \E q \in Int : x = m * q
<1>1. x \div m \in Int /\ x = m * (x \div m)
  BY Division
<1> QED BY <1>1

LEMMA MultiplesAdd ==
  ASSUME NEW m \in Nat \ {0}, NEW x \in Int, NEW y \in Int, x % m = 0, y % m = 0
  PROVE  (x + y) % m = 0
<1>1. PICK i \in Int : x = m * i BY Factor
<1>2. PICK j \in Int : y = m * j BY Factor
<1>3. x + y = m * (i + j) BY <1>1, <1>2
<1> QED BY <1>3, Multiple

(* Ceiling: the least multiple from a number on, and, when both the number  *)
(* and the step are multiples of k, at least k less than a step away.       *)
LEMMA CeilingAbove ==
  ASSUME NEW x \in Nat, NEW m \in Nat \ {0}
  PROVE  /\ Ceiling(x, m) \in Nat
         /\ Ceiling(x, m) % m = 0
         /\ x <= Ceiling(x, m)
         /\ Ceiling(x, m) < x + m
<1> DEFINE y == x + m - 1
           d == y \div m
           r == y % m
<1>1. y \in Int BY DEF y
<1>2. d \in Int /\ r \in 0 .. m - 1 /\ y = (m * d) + r
  BY <1>1, Division
<1>3. Ceiling(x, m) = m * d
  BY <1>2 DEF Ceiling, d, y
<1> HIDE DEF d, r
<1>4. (m * d) \in Int /\ (m * d) + r = x + m - 1
  BY <1>2 DEF y
<1> QED BY <1>2, <1>3, <1>4, Multiple

LEMMA CeilingGap ==
  ASSUME NEW k \in Nat \ {0}, NEW x \in Nat, NEW m \in Nat \ {0}, x % k = 0, m % k = 0
  PROVE  Ceiling(x, m) <= x + (m - k)
<1>1. PICK i \in Int : x = k * i BY Factor
<1>2. PICK j \in Int : m = k * j BY Factor
<1>3. Ceiling(x, m) \in Nat /\ Ceiling(x, m) % m = 0 /\ Ceiling(x, m) < x + m
  BY CeilingAbove
<1> DEFINE c == Ceiling(x, m)
<1> HIDE DEF c
<1>4. PICK q \in Int : c = m * q
  <2>1. c \in Int /\ c % m = 0
    BY <1>3 DEF c
  <2> QED  BY <2>1, Factor
<1>5. Ceiling(x, m) = k * (j * q)
  BY <1>2, <1>4 DEF c
<1> DEFINE d == (i + j) - (j * q)
<1>6. d \in Int /\ (x + m) - Ceiling(x, m) = k * d
  BY <1>1, <1>2, <1>5
<1> HIDE DEF d
<1>7. d >= 1
  <2>1. CASE d <= 0
    <3>1. k * d <= 0 BY <1>6, <2>1
    <3> QED BY <1>3, <1>6, <3>1
  <2> QED BY <1>6, <2>1
<1>8. k * d >= k
  BY <1>6, <1>7
<1> QED BY <1>3, <1>6, <1>8

(* The storage of a block, with its header.                                 *)
IsStorage(c) ==
  /\ c \in [base : Nat, bsize : Nat, mapped : BOOLEAN, size : Nat, zero : BOOLEAN,
            fake : {NoFake} \cup [at : Nat, alignment : Nat, offset : Nat],
            data : [0 .. c.bsize - 1 -> Int]]
  /\ c.base % Align = 0
  /\ ~c.mapped => c.bsize \in BlockSize
  /\ c.mapped => c.bsize % PageSize = 0

Suited(a) == a \in Nat /\ Align <= a /\ a % Align = 0

IsPromise(o) ==
  /\ o \in [size : Nat, align : Nat, zero : BOOLEAN, realigned : BOOLEAN,
             bytes : [0 .. o.size - 1 -> Int]]
  /\ Suited(o.align)

(* An object of n bytes and alignment a is at p in the storage c, and the   *)
(* headers say so.                                                          *)
Placed(c, p, n, a) ==
  /\ p \in [b : Block, at : Nat]
  /\ c.size = n
  /\ (c.base + p.at) % a = 0
  /\ Header <= p.at
  /\ p.at + n <= c.bsize
  /\ \/ c.fake = NoFake /\ p.at = Header /\ a = Align
     \/ c.fake = [at |-> p.at - Header, alignment |-> a, offset |-> p.at - Header]

(* The object at p in the storage c is as promised by o.                    *)
Kept(c, p, o) ==
  /\ IsStorage(c)
  /\ IsPromise(o)
  /\ Placed(c, p, o.size, o.align)
  /\ c.zero = o.zero
  /\ \A i \in 0 .. o.size - 1 : o.bytes[i] \in {Unknown, c.data[p.at + i]}

(* What an outcome leaves alone: the blocks of B that are not in S.         *)
Leaves(B, M, S) == \A x \in DOMAIN B \ S : x \in DOMAIN M /\ M[x] = B[x]

(* New storage at p for n bytes with alignment a.  What is mapped is zero.  *)
Fresh(c, p, n, a) ==
  /\ IsStorage(c)
  /\ Placed(c, p, n, a)
  /\ c.zero = FALSE
  /\ c.mapped => \A i \in 0 .. c.bsize - 1 : c.data[i] = Zero

(* An outcome of doMalloc or memalignNoStats for blocks B.                  *)
Serves(B, out, n, a) ==
  \/ /\ out.failed = TRUE
     /\ out.ret = Null
     /\ out.mem = B
  \/ /\ out.failed = FALSE
     /\ out.ret.b \in Block \ DOMAIN B
     /\ DOMAIN out.mem = DOMAIN B \cup {out.ret.b}
     /\ Leaves(B, out.mem, {})
     /\ Fresh(out.mem[out.ret.b], out.ret, n, a)

(* The least alignment, and what is aligned to it.                          *)
LEMMA AlignSuits ==
  /\ Align \in Nat \ {0} /\ Header \in Nat \ {0} /\ PageSize \in Nat \ {0}
  /\ Suited(Align)
  /\ Header % Align = 0 /\ 0 % Align = 0
<1>1. /\ Align \in Nat \ {0} /\ Header \in Nat \ {0} /\ PageSize \in Nat \ {0}
      /\ Header % Align = 0
  BY ObjectsAssumption
<1>2. Align % Align = 0 /\ 0 % Align = 0
  <2>1. Align = Align * 1 /\ 0 = Align * 0
    BY <1>1
  <2> QED  BY <1>1, <2>1, Multiple
<1> QED  BY <1>1, <1>2 DEF Suited

(* A set of naturals that is not empty has a least member. *)
LEMMA MinOfNat ==
  ASSUME NEW S \in SUBSET Nat, S # {}
  PROVE  Min(S) \in S /\ \A x \in S : Min(S) <= x
<1>1. \E x \in S : \A y \in S : x <= y
  <2>1. PICK x \in S : \A y \in S : <<y, x>> \notin OpToRel(<, Nat)
    BY WFMin, NatLessThanWellFounded
  <2>2. \A y \in S : ~(y < x)
    BY <2>1 DEF OpToRel
  <2> QED  BY <2>2
<1> QED  BY <1>1 DEF Min

(* The storage doMalloc gives for n bytes. *)
LEMMA NewBlockRight ==
  ASSUME NEW n \in Nat, NEW c \in NewBlock(n)
  PROVE  /\ IsStorage(c)
         /\ c.size = n /\ c.zero = FALSE /\ c.fake = NoFake
         /\ n + Header <= c.bsize
         /\ c.mapped => \A i \in 0 .. c.bsize - 1 : c.data[i] = Zero
<1> DEFINE mapped == n >= MmapStart
           bsize == IF mapped THEN Ceiling(n + Header, PageSize)
                    ELSE Min({s \in BlockSize : n + Header <= s})
           bases == IF mapped THEN {0}
                    ELSE {a \in 0 .. Max(Alignment) - 1 : a % Align = 0}
           storage(a) ==
             [base |-> a, bsize |-> bsize, mapped |-> mapped, size |-> n, zero |-> FALSE,
              fake |-> NoFake,
              data |-> [i \in 0 .. bsize - 1 |-> IF mapped THEN Zero ELSE Unknown]]
<1>1. PICK a \in bases : c = storage(a)
  BY DEF NewBlock
<1>2. MmapStart \in Nat /\ BlockSize \subseteq Nat /\ n + Header \in Nat
  BY ObjectsAssumption
<1>3. mapped => bsize \in Nat /\ n + Header <= bsize /\ bsize % PageSize = 0
  BY <1>2, AlignSuits, CeilingAbove
<1>4. ~mapped => bsize \in BlockSize /\ n + Header <= bsize
  <2> SUFFICES ASSUME ~mapped
               PROVE  bsize \in BlockSize /\ n + Header <= bsize
    OBVIOUS
  <2> DEFINE S == {s \in BlockSize : n + Header <= s}
  <2>1. n \in 0 .. MmapStart - 1
    BY <1>2
  <2>2. S # {} /\ S \in SUBSET Nat
    BY <1>2, <2>1, ObjectsAssumption
  <2>3. Min(S) \in S
    BY <2>2, MinOfNat
  <2> QED  BY <2>3
<1>5. bsize \in Nat /\ n + Header <= bsize
  BY <1>2, <1>3, <1>4
<1>6. a \in Nat /\ a % Align = 0
  BY AlignSuits
<1> HIDE DEF bsize, bases
<1>7. mapped \in BOOLEAN
  OBVIOUS
<1> HIDE DEF mapped
<1>8. [i \in 0 .. bsize - 1 |-> IF mapped THEN Zero ELSE Unknown] \in [0 .. bsize - 1 -> Int]
  BY <1>5 DEF Zero, Unknown
<1> QED  BY <1>1, <1>3, <1>4, <1>5, <1>6, <1>7, <1>8 DEF IsStorage

(* doMalloc. *)
LEMMA DoMallocServes ==
  ASSUME NEW B, NEW n \in Nat, NEW out \in DoMalloc(B, n)
  PROVE  /\ Serves(B, out, n, Align)
         /\ out.failed = FALSE => out.ret.at = Header
<1>1. CASE out = NoMemory(B)
  BY <1>1 DEF NoMemory, Serves
<1>2. CASE \E b \in Block \ DOMAIN B, c \in NewBlock(n) :
             out = Done(With(B, b, c), [b |-> b, at |-> Header])
  <2>1. PICK b \in Block \ DOMAIN B, c \in NewBlock(n) :
          out = Done(With(B, b, c), [b |-> b, at |-> Header])
    BY <1>2
  <2>2. /\ out.failed = FALSE
        /\ out.ret = [b |-> b, at |-> Header]
        /\ out.mem = With(B, b, c)
    BY <2>1 DEF Done
  <2>3. /\ DOMAIN out.mem = DOMAIN B \cup {b}
        /\ out.mem[b] = c
        /\ Leaves(B, out.mem, {})
    BY <2>2 DEF With, Leaves
  <2>4. /\ IsStorage(c)
        /\ c.size = n /\ c.zero = FALSE /\ c.fake = NoFake
        /\ n + Header <= c.bsize
        /\ c.mapped => \A i \in 0 .. c.bsize - 1 : c.data[i] = Zero
    BY NewBlockRight
  <2>5. (c.base + Header) % Align = 0
    <3>1. c.base \in Nat /\ c.base % Align = 0
      BY <2>4 DEF IsStorage
    <3> QED  BY <3>1, AlignSuits, MultiplesAdd
  <2>6. Placed(c, out.ret, n, Align)
    BY <2>2, <2>4, <2>5, AlignSuits DEF Placed, IsStorage
  <2>7. Fresh(c, out.ret, n, Align)
    BY <2>4, <2>6 DEF Fresh
  <2> QED  BY <2>2, <2>3, <2>7 DEF Serves
<1>3. \/ out = NoMemory(B)
      \/ \E b \in Block \ DOMAIN B, c \in NewBlock(n) :
           out = Done(With(B, b, c), [b |-> b, at |-> Header])
  BY DEF DoMalloc
<1> QED  BY <1>1, <1>2, <1>3

(* Max and Min of two numbers. *)
LEMMA MaxOfTwo ==
  ASSUME NEW a \in Nat, NEW b \in Nat
  PROVE  Max({a, b}) = IF a <= b THEN b ELSE a
<1>1. CASE a <= b
  BY <1>1 DEF Max
<1>2. CASE ~(a <= b)
  BY <1>2 DEF Max
<1> QED  BY <1>1, <1>2

LEMMA MinOfTwo ==
  ASSUME NEW a \in Nat, NEW b \in Nat
  PROVE  Min({a, b}) = IF a <= b THEN a ELSE b
<1>1. CASE a <= b
  BY <1>1 DEF Min
<1>2. CASE ~(a <= b)
  BY <1>2 DEF Min
<1> QED  BY <1>1, <1>2

(* An alignment the program may ask for, or one an object has. *)
Askable(a) == a \in Nat /\ (a > Align => a % Align = 0)

(* Whatever is asked for, the alignment an object gets is suited.           *)
LEMMA Asked ==
  /\ \A a \in Alignment \cup {PageSize} : Askable(a)
  /\ \A a : Suited(a) => Askable(a)
  /\ \A a \in Nat : Askable(a) => Suited(Max({a, Align}))
  /\ \A a, n : Askable(a) => Suited(Promised(a, n))
<1>1. \A a \in Nat : Askable(a) => Suited(Max({a, Align}))
  BY AlignSuits, MaxOfTwo DEF Askable, Suited
<1>2. \A a \in Alignment \cup {PageSize} : Askable(a)
  BY ObjectsAssumption DEF Askable
<1> QED  BY <1>1, <1>2, AlignSuits DEF Askable, Suited, Promised

(* The user's address behind the fake header: within the storage that was   *)
(* asked for, wherever the block is.                                        *)
LEMMA UserFits ==
  ASSUME NEW base \in Nat, base % Align = 0, NEW a \in Nat, a > Align, a % Align = 0
  PROVE  /\ Ceiling(base + Header + Header, a) - base \in Nat
         /\ 2 * Header <= Ceiling(base + Header + Header, a) - base
         /\ Ceiling(base + Header + Header, a) - base <= 2 * Header + (a - Align)
         /\ (base + (Ceiling(base + Header + Header, a) - base)) % a = 0
<1> DEFINE x == base + Header + Header
           u == Ceiling(x, a)
<1>1. x \in Nat /\ a \in Nat \ {0} /\ Align \in Nat \ {0}
  BY AlignSuits
<1>2. x % Align = 0
  <2>1. /\ base \in Int /\ base % Align = 0
        /\ Header \in Int /\ Header % Align = 0
    BY AlignSuits
  <2>2. (base + Header) % Align = 0
    BY <1>1, <2>1, MultiplesAdd
  <2>3. base + Header \in Int
    BY <2>1
  <2> QED  BY <1>1, <2>1, <2>2, <2>3, MultiplesAdd
<1>3. u \in Nat /\ u % a = 0 /\ x <= u
  BY <1>1, CeilingAbove
<1>4. u <= x + (a - Align)
  BY <1>1, <1>2, CeilingGap
<1> HIDE DEF u
<1>5. base + (u - base) = u
  BY <1>3
<1> QED  BY <1>3, <1>4, <1>5, AlignSuits DEF u

(* memalignNoStats: the storage is large enough for the bytes behind any    *)
(* fake header, and the fake header leads back to the real one.             *)
LEMMA FakeHeaderServes ==
  ASSUME NEW B, NEW n \in Nat, NEW a \in Nat, a > Align, a % Align = 0,
         NEW o, Serves(B, o, n + a - Align + Header, Align), o.failed = FALSE,
         o.ret.at = Header
  PROVE  Serves(B, FakeHeader(o, a, n), n, a)
<1> DEFINE b == o.ret.b
           c == o.mem[b]
           user == Ceiling(c.base + Header + Header, a) - c.base
           fake == [at |-> user - Header, alignment |-> a, offset |-> user - Header]
           d == [c EXCEPT !.size = n, !.fake = fake]
           out == FakeHeader(o, a, n)
<1>1. /\ b \in Block \ DOMAIN B
      /\ DOMAIN o.mem = DOMAIN B \cup {b}
      /\ Leaves(B, o.mem, {})
      /\ Fresh(c, o.ret, n + a - Align + Header, Align)
  BY DEF Serves
<1>2. /\ IsStorage(c) /\ c.zero = FALSE
      /\ c.mapped => \A i \in 0 .. c.bsize - 1 : c.data[i] = Zero
      /\ o.ret.at = Header
      /\ Header + (n + a - Align + Header) <= c.bsize
  <2> HIDE DEF c
  <2> QED  BY <1>1 DEF Fresh, Placed
<1>3. c.base \in Nat /\ c.base % Align = 0 /\ c.bsize \in Nat
  BY <1>2 DEF IsStorage
<1>4. /\ user \in Nat
      /\ 2 * Header <= user
      /\ user <= 2 * Header + (a - Align)
      /\ (c.base + user) % a = 0
  BY <1>3, UserFits
<1>5. out = Done([o.mem EXCEPT ![b] = d], [b |-> b, at |-> user])
  <2>1. Address(o.mem, o.ret) + Header = c.base + Header + Header
    BY <1>2, <1>3, AlignSuits DEF Address
  <2>2. user - Header - HeaderAt(o.ret) = user - Header
    BY <1>2, <1>4, AlignSuits DEF HeaderAt
  <2> HIDE DEF user
  <2> QED  BY <2>1, <2>2 DEF FakeHeader, user
<1> HIDE DEF user, out
<1>6. /\ out.failed = FALSE
      /\ out.ret = [b |-> b, at |-> user]
      /\ DOMAIN out.mem = DOMAIN o.mem
      /\ out.mem[b] = d
      /\ \A x \in DOMAIN o.mem \ {b} : out.mem[x] = o.mem[x]
  BY <1>1, <1>5 DEF Done
<1>7. /\ fake \in [at : Nat, alignment : Nat, offset : Nat]
      /\ fake = [at |-> user - Header, alignment |-> a, offset |-> user - Header]
  BY <1>4, AlignSuits
<1> HIDE DEF fake, c
<1>8. /\ IsStorage(d)
      /\ d.size = n /\ d.fake = fake /\ d.base = c.base /\ d.bsize = c.bsize
      /\ d.zero = c.zero /\ d.mapped = c.mapped /\ d.data = c.data
  BY <1>2, <1>7 DEF IsStorage
<1> HIDE DEF d
<1>9. Placed(d, out.ret, n, a)
  BY <1>1, <1>2, <1>3, <1>4, <1>6, <1>7, <1>8, AlignSuits DEF Placed
<1>10. Fresh(d, out.ret, n, a)
  BY <1>2, <1>8, <1>9 DEF Fresh
<1>11. Leaves(B, out.mem, {})
  BY <1>1, <1>6 DEF Leaves
<1> QED  BY <1>1, <1>6, <1>10, <1>11 DEF Serves, out

(* memalignNoStats, with and without a fake header. *)
LEMMA MemalignServes ==
  ASSUME NEW B, NEW n \in Nat, NEW a, Askable(a), NEW out \in MemalignNoStats(B, a, n)
  PROVE  Serves(B, out, n, Promised(a, n))
<1>0. a \in Nat /\ Align \in Nat /\ Header \in Nat
  BY AlignSuits DEF Askable
<1>1. CASE a <= Align \/ n = 0
  <2>1. Promised(a, n) = Align
    BY <1>0, <1>1, MaxOfTwo DEF Promised
  <2> QED  BY <1>1, <2>1, DoMallocServes DEF MemalignNoStats
<1>2. CASE ~(a <= Align \/ n = 0)
  <2>1. a > Align /\ a % Align = 0 /\ n # 0
    BY <1>0, <1>2 DEF Askable
  <2>2. Promised(a, n) = a
    BY <1>0, <2>1, MaxOfTwo DEF Promised
  <2>3. n + a - Align + Header \in Nat
    BY <1>0, <2>1
  <2>4. PICK o \in DoMalloc(B, n + a - Align + Header) :
          out = IF o.failed THEN o ELSE FakeHeader(o, a, n)
    BY <1>2 DEF MemalignNoStats
  <2>5. /\ Serves(B, o, n + a - Align + Header, Align)
        /\ o.failed = FALSE => o.ret.at = Header
    BY <2>3, DoMallocServes
  <2>6. CASE o.failed = TRUE
    BY <2>4, <2>5, <2>6 DEF Serves
  <2>7. CASE o.failed = FALSE
    BY <1>0, <2>1, <2>2, <2>4, <2>5, <2>7, FakeHeaderServes
  <2> QED  BY <2>5, <2>6, <2>7 DEF Serves
<1> QED  BY <1>1, <1>2

(* An outcome of a routine that makes an object with the promise o.         *)
Gives(B, out, o) ==
  \/ /\ out.failed = TRUE
     /\ out.ret = Null
     /\ out.mem = B
  \/ /\ out.failed = FALSE
     /\ out.ret.b \in Block \ DOMAIN B
     /\ Leaves(B, out.mem, {})
     /\ Kept(out.mem[out.ret.b], out.ret, o)

(* The promises of a new object. *)
Unfilled(n, a) == NewObject(n, a, FALSE)
ZeroFilled(n, a) == NewObject(n, a, TRUE)

(* They promise what they are made for. *)
LEMMA NewPromise ==
  ASSUME NEW n \in Nat, NEW a, Suited(a)
  PROVE  LET o == Unfilled(n, a) IN
         /\ IsPromise(o) /\ o.size = n /\ o.align = a /\ o.zero = FALSE
         /\ o.bytes = [i \in 0 .. n - 1 |-> Unknown]
<1>1. [i \in 0 .. n - 1 |-> Unknown] \in [0 .. n - 1 -> Int]
  BY DEF Unknown
<1> QED  BY <1>1 DEF Unfilled, ZeroFilled, NewObject, IsPromise, Suited

LEMMA ZeroPromise ==
  ASSUME NEW n \in Nat, NEW a, Suited(a)
  PROVE  LET o == ZeroFilled(n, a) IN
         /\ IsPromise(o) /\ o.size = n /\ o.align = a /\ o.zero = TRUE
         /\ o.bytes = [i \in 0 .. n - 1 |-> Zero]
<1>1. [i \in 0 .. n - 1 |-> Zero] \in [0 .. n - 1 -> Int]
  BY DEF Zero
<1> QED  BY <1>1 DEF Unfilled, ZeroFilled, NewObject, IsPromise, Suited

(* malloc, memalign and valloc promise nothing of the bytes. *)
LEMMA ServesGives ==
  ASSUME NEW B, NEW n \in Nat, NEW a, Suited(a), NEW out, Serves(B, out, n, a)
  PROVE  Gives(B, out, Unfilled(n, a))
<1>1. CASE out.failed = TRUE
  BY <1>1 DEF Serves, Gives
<1>2. CASE out.failed = FALSE
  <2> DEFINE c == out.mem[out.ret.b]
             o == Unfilled(n, a)
  <2>1. Fresh(c, out.ret, n, a)
    BY <1>2 DEF Serves
  <2>2. /\ IsPromise(o) /\ o.size = n /\ o.align = a /\ o.zero = FALSE
        /\ o.bytes = [i \in 0 .. n - 1 |-> Unknown]
    BY NewPromise
  <2> HIDE DEF c, o
  <2>3. Kept(c, out.ret, o)
    BY <2>1, <2>2 DEF Fresh, Kept
  <2> QED  BY <1>2, <2>3 DEF Serves, Gives, c, o
<1> QED  BY <1>1, <1>2 DEF Serves

(* calloc and its aligned variants: the object is zero, if by mmap.         *)
LEMMA ClearedGives ==
  ASSUME NEW B, NEW n \in Nat, NEW a, Suited(a), NEW o, Serves(B, o, n, a)
  PROVE  Gives(B, Cleared(o, n), ZeroFilled(n, a))
<1>1. CASE o.failed = TRUE
  BY <1>1 DEF Serves, Gives, Cleared
<1>2. CASE o.failed = FALSE
  <2> DEFINE p == o.ret
             c == o.mem[p.b]
             data == [i \in DOMAIN c.data |->
                        IF ~c.mapped /\ i \in p.at .. p.at + n - 1 THEN Zero ELSE c.data[i]]
             d == [c EXCEPT !.zero = TRUE, !.data = data]
             out == Cleared(o, n)
             q == ZeroFilled(n, a)
  <2>1. /\ p.b \in Block \ DOMAIN B
        /\ DOMAIN o.mem = DOMAIN B \cup {p.b}
        /\ Leaves(B, o.mem, {})
        /\ Fresh(c, p, n, a)
    BY <1>2 DEF Serves
  <2>2. out = Done([o.mem EXCEPT ![p.b] = d], p)
    BY <1>2 DEF Cleared
  <2> HIDE DEF out, p
  <2>3. /\ out.failed = FALSE /\ out.ret = p /\ out.mem[p.b] = d
        /\ DOMAIN out.mem = DOMAIN o.mem
        /\ \A x \in DOMAIN o.mem \ {p.b} : out.mem[x] = o.mem[x]
    BY <2>1, <2>2 DEF Done
  <2> HIDE DEF c
  <2>4. /\ IsStorage(c) /\ Placed(c, p, n, a) /\ c.zero = FALSE
        /\ c.mapped => \A i \in 0 .. c.bsize - 1 : c.data[i] = Zero
    BY <2>1 DEF Fresh
  <2>5. /\ c.bsize \in Nat /\ c.data \in [0 .. c.bsize - 1 -> Int]
        /\ p.at \in Nat /\ p.at + n <= c.bsize
    BY <2>4 DEF IsStorage, Placed
  <2>6. /\ data \in [0 .. c.bsize - 1 -> Int]
        /\ \A i \in 0 .. n - 1 : data[p.at + i] = Zero
    <3>1. data \in [0 .. c.bsize - 1 -> Int]
      BY <2>5 DEF Zero
    <3>2. ASSUME NEW i \in 0 .. n - 1 PROVE data[p.at + i] = Zero
      <4>1. p.at + i \in DOMAIN c.data /\ p.at + i \in p.at .. p.at + n - 1
        BY <2>5
      <4>2. CASE c.mapped
        BY <2>4, <2>5, <4>1, <4>2
      <4>3. CASE ~c.mapped
        BY <4>1, <4>3
      <4> QED  BY <4>2, <4>3
    <3> QED  BY <3>1, <3>2
  <2> HIDE DEF data
  <2>7. /\ IsStorage(d) /\ d.zero = TRUE /\ d.data = data
        /\ d.base = c.base /\ d.bsize = c.bsize /\ d.size = c.size /\ d.fake = c.fake
    BY <2>4, <2>6 DEF IsStorage
  <2> HIDE DEF d
  <2>8. /\ IsPromise(q) /\ q.size = n /\ q.align = a /\ q.zero = TRUE
        /\ q.bytes = [i \in 0 .. n - 1 |-> Zero]
    BY ZeroPromise
  <2> HIDE DEF q
  <2>9. Placed(d, p, n, a)
    BY <2>4, <2>7 DEF Placed
  <2>10. Kept(d, p, q)
    BY <2>6, <2>7, <2>8, <2>9 DEF Kept
  <2>11. Leaves(B, out.mem, {})
    BY <2>1, <2>3 DEF Leaves
  <2> QED  BY <2>1, <2>3, <2>10, <2>11 DEF Gives, out, q
<1> QED  BY <1>1, <1>2 DEF Serves

(* What the headers say of an object that is kept. *)
LEMMA HeadersRight ==
  ASSUME NEW B, NEW p, NEW o, Kept(B[p.b], p, o)
  PROVE  /\ RealHeaderAt(B, p) = 0
         /\ malloc_alignment(B, p) = o.align
         /\ DataSize(B, p) = B[p.b].bsize - p.at
         /\ DataSize(B, p) \in Nat
         /\ o.size <= DataSize(B, p)
         /\ AlignmentBit(B, p) => B[p.b].fake # NoFake
<1> DEFINE c == B[p.b]
<1>1. /\ IsStorage(c) /\ IsPromise(o) /\ Placed(c, p, o.size, o.align)
  BY DEF Kept
<1> HIDE DEF c
<1>2. /\ p.at \in Nat /\ Header \in Nat /\ Header <= p.at /\ p.at + o.size <= c.bsize
      /\ c.bsize \in Nat /\ o.size \in Nat /\ o.align \in Nat
  BY <1>1, AlignSuits DEF IsStorage, IsPromise, Placed
<1>3. CASE c.fake = NoFake /\ p.at = Header /\ o.align = Align
  <2>1. ~AlignmentBit(B, p)
    BY <1>3 DEF AlignmentBit, c
  <2>2. RealHeaderAt(B, p) = 0 /\ malloc_alignment(B, p) = o.align
    BY <1>2, <1>3, <2>1 DEF RealHeaderAt, malloc_alignment, HeaderAt
  <2>3. DataSize(B, p) = c.bsize - p.at
    BY <1>2, <2>2 DEF DataSize, c
  <2> QED  BY <1>2, <2>1, <2>2, <2>3 DEF c
<1>4. CASE c.fake = [at |-> p.at - Header, alignment |-> o.align, offset |-> p.at - Header]
  <2>1. c.fake \in [at : Nat, alignment : Nat, offset : Nat]
    BY <1>2, <1>4
  <2>2. AlignmentBit(B, p) /\ c.fake # NoFake
    BY <1>4, <2>1, ObjectsAssumption DEF AlignmentBit, HeaderAt, c
  <2>3. RealHeaderAt(B, p) = 0 /\ malloc_alignment(B, p) = o.align
    BY <1>2, <1>4, <2>2 DEF RealHeaderAt, malloc_alignment, HeaderAt, c
  <2>4. DataSize(B, p) = c.bsize - p.at
    BY <1>2, <2>3 DEF DataSize, c
  <2> QED  BY <1>2, <2>2, <2>3, <2>4 DEF c
<1> QED  BY <1>1, <1>3, <1>4 DEF Placed

(* The object stays where it is, with other contents, size or fill. *)
LEMMA Altered ==
  ASSUME NEW c, NEW p, NEW o, Kept(c, p, o),
         NEW d, IsStorage(d), d.base = c.base, d.bsize = c.bsize, d.fake = c.fake,
         NEW q, IsPromise(q), q.align = o.align, p.at + q.size <= c.bsize,
         d.size = q.size, d.zero = q.zero,
         \A i \in 0 .. q.size - 1 : q.bytes[i] \in {Unknown, d.data[p.at + i]}
  PROVE  Kept(d, p, q)
  BY DEF Kept, Placed

(* A reallocated object that is found with the alignment a. *)
Grown(o, n, a) == [Reallocated(o, n) EXCEPT !.align = a]

(* The promise of a reallocated object. *)
LEMMA ReallocatedPromise ==
  ASSUME NEW o, IsPromise(o), NEW n \in Nat, NEW a, Suited(a)
  PROVE  LET q == Grown(o, n, a) IN
         /\ IsPromise(q) /\ q.size = n /\ q.align = a /\ q.zero = o.zero
         /\ q.bytes = [i \in 0 .. n - 1 |-> IF i < o.size THEN o.bytes[i]
                                            ELSE IF o.zero THEN Zero ELSE Unknown]
<1> DEFINE bytes == [i \in 0 .. n - 1 |-> IF i < o.size THEN o.bytes[i]
                                          ELSE IF o.zero THEN Zero ELSE Unknown]
<1>1. bytes \in [0 .. n - 1 -> Int]
  <2> SUFFICES ASSUME NEW i \in 0 .. n - 1
               PROVE  (IF i < o.size THEN o.bytes[i]
                       ELSE IF o.zero THEN Zero ELSE Unknown) \in Int
    OBVIOUS
  <2>1. o.size \in Nat /\ o.bytes \in [0 .. o.size - 1 -> Int]
    BY DEF IsPromise
  <2> QED  BY <2>1 DEF Zero, Unknown
<1>2. Grown(o, n, a) = [o EXCEPT !.size = n, !.align = a, !.bytes = bytes]
  BY DEF Grown, Reallocated
<1>3. a \in Nat
  BY DEF Suited
<1> HIDE DEF bytes
<1>4. LET q == [o EXCEPT !.size = n, !.align = a, !.bytes = bytes] IN
      /\ q \in [size : Nat, align : Nat, zero : BOOLEAN, realigned : BOOLEAN,
               bytes : [0 .. q.size - 1 -> Int]]
      /\ q.size = n /\ q.align = a /\ q.zero = o.zero /\ q.bytes = bytes
  BY <1>1, <1>3 DEF IsPromise
<1> QED  BY <1>2, <1>4 DEF IsPromise, bytes

(* The object at p has grown from s.size to n bytes, filled if s was.       *)
Grows(B, M, p, s, n) ==
  LET c == B[p.b]
      d == M[p.b]
  IN /\ DOMAIN M = DOMAIN B
     /\ Leaves(B, M, {p.b})
     /\ IsStorage(d)
     /\ d.base = c.base /\ d.bsize = c.bsize /\ d.fake = c.fake
     /\ d.size = c.size /\ d.zero = c.zero /\ d.mapped = c.mapped
     /\ \A i \in 0 .. n - 1 :
          p.at + i < c.bsize =>
            /\ i < s.size \/ s.zero = FALSE => d.data[p.at + i] = c.data[p.at + i]
            /\ ~(i < s.size) /\ s.zero = TRUE => d.data[p.at + i] = Zero

(* Filling what is added to a zero-filled object. *)
LEMMA FilledUpRight ==
  ASSUME NEW B, NEW p, p.b \in DOMAIN B, IsStorage(B[p.b]), p.at \in Nat,
         NEW n \in Nat, NEW s, s.size \in Nat, s.zero \in BOOLEAN
  PROVE  Grows(B, FilledUp(B, p, s.size, n, s.zero), p, s, n)
<1> DEFINE M == FilledUp(B, p, s.size, n, s.zero)
           c == B[p.b]
<1>1. CASE s.zero = FALSE
  <2>1. M = B
    BY <1>1 DEF FilledUp
  <2> QED  BY <1>1, <2>1 DEF Leaves, Grows
<1>2. CASE s.zero = TRUE
  <2> DEFINE data == [i \in DOMAIN c.data |->
                        IF i - p.at \in s.size .. n - 1 THEN Zero ELSE c.data[i]]
             d == [c EXCEPT !.data = data]
  <2>1. M = [B EXCEPT ![p.b] = d]
    BY <1>2 DEF FilledUp, Zeroed
  <2> HIDE DEF M
  <2>2. DOMAIN M = DOMAIN B /\ M[p.b] = d /\ Leaves(B, M, {p.b})
    BY <2>1 DEF Leaves
  <2> HIDE DEF c
  <2>3. IsStorage(c) /\ c.bsize \in Nat /\ c.data \in [0 .. c.bsize - 1 -> Int]
    BY DEF c, IsStorage
  <2>4. data \in [0 .. c.bsize - 1 -> Int]
    BY <2>3 DEF Zero
  <2>5. ASSUME NEW i \in 0 .. n - 1, p.at + i < c.bsize
        PROVE  /\ i < s.size => data[p.at + i] = c.data[p.at + i]
               /\ ~(i < s.size) => data[p.at + i] = Zero
    <3>1. p.at + i \in DOMAIN c.data /\ (p.at + i) - p.at = i
      BY <2>3, <2>5
    <3> QED  BY <2>5, <3>1
  <2> HIDE DEF data
  <2>6. /\ IsStorage(d) /\ d.data = data
        /\ d.base = c.base /\ d.bsize = c.bsize /\ d.fake = c.fake
        /\ d.size = c.size /\ d.zero = c.zero /\ d.mapped = c.mapped
    BY <2>3, <2>4 DEF IsStorage
  <2> HIDE DEF d
  <2> QED  BY <1>2, <2>2, <2>5, <2>6 DEF c, M, Grows
<1> QED  BY <1>1, <1>2

(* An outcome in which the object p, and nothing else, is kept as q.        *)
Keeps(B, out, p, q) ==
  /\ out.failed = FALSE
  /\ out.ret = p
  /\ Leaves(B, out.mem, {p.b})
  /\ Kept(out.mem[p.b], p, q)

(* resize in place. *)
LEMMA ResizedInPlaceKeeps ==
  ASSUME NEW B, NEW p, NEW o, p.b \in DOMAIN B, Kept(B[p.b], p, o),
         NEW n \in Nat, Reusable(B, p, n)
  PROVE  Keeps(B, ResizedInPlace(B, p, n), p, Unfilled(n, o.align))
<1> DEFINE c == B[p.b]
           d == [c EXCEPT !.zero = FALSE, !.size = n]
           out == ResizedInPlace(B, p, n)
           q == Unfilled(n, o.align)
<1>1. out = Done([B EXCEPT ![p.b] = d], p)
  BY DEF ResizedInPlace
<1> HIDE DEF out
<1>2. /\ out.failed = FALSE /\ out.ret = p /\ out.mem[p.b] = d
      /\ Leaves(B, out.mem, {p.b})
  BY <1>1 DEF Done, Leaves
<1>3. p.at + n <= c.bsize
  <2>1. n <= c.bsize - p.at
    BY HeadersRight DEF Reusable
  <2> HIDE DEF c
  <2>2. p.at \in Nat /\ c.bsize \in Nat
    BY DEF Kept, Placed, IsStorage, c
  <2> QED  BY <2>1, <2>2
<1>4. IsPromise(q) /\ q.size = n /\ q.align = o.align /\ q.zero = FALSE
      /\ q.bytes = [i \in 0 .. n - 1 |-> Unknown]
  BY NewPromise DEF Kept, IsPromise
<1> HIDE DEF c, q
<1>5. IsStorage(d) /\ d.base = c.base /\ d.bsize = c.bsize /\ d.fake = c.fake
      /\ d.size = n /\ d.zero = FALSE
  BY DEF c, Kept, IsStorage
<1> HIDE DEF d
<1>6. Kept(c, p, o)
  BY DEF c
<1>7. \A i \in 0 .. q.size - 1 : q.bytes[i] \in {Unknown, d.data[p.at + i]}
  BY <1>4
<1>8. Kept(d, p, q)
  BY <1>3, <1>4, <1>5, <1>6, <1>7, Altered
<1> QED  BY <1>2, <1>8 DEF Keeps, out, q

(* realloc in place: what was there stays, what is added is filled.         *)
LEMMA ReallocInPlaceKeeps ==
  ASSUME NEW B, NEW p, NEW o, p.b \in DOMAIN B, Kept(B[p.b], p, o),
         NEW n \in Nat, Reusable(B, p, n)
  PROVE  Keeps(B, ReallocInPlace(B, p, n), p, Grown(o, n, o.align))
<1> DEFINE c == B[p.b]
           e == [c EXCEPT !.size = n]
           A == [B EXCEPT ![p.b] = e]
           M == FilledUp(A, p, c.size, n, c.zero)
           d == M[p.b]
           q == Grown(o, n, o.align)
           out == ReallocInPlace(B, p, n)
<1>1. out = Done(M, p)
  BY DEF ReallocInPlace
<1>2. DOMAIN A = DOMAIN B /\ A[p.b] = e /\ Leaves(B, A, {p.b})
  BY DEF Leaves
<1>3. /\ Kept(c, p, o) /\ IsStorage(c) /\ p.at \in Nat /\ c.bsize \in Nat
      /\ c.size \in Nat /\ c.zero \in BOOLEAN /\ c.size = o.size /\ c.zero = o.zero
      /\ IsPromise(o) /\ Suited(o.align)
      /\ \A i \in 0 .. o.size - 1 : o.bytes[i] \in {Unknown, c.data[p.at + i]}
  BY DEF Kept, Placed, IsStorage, IsPromise
<1>4. p.at + n <= c.bsize
  <2>1. n <= c.bsize - p.at
    BY HeadersRight DEF Reusable
  <2> HIDE DEF c
  <2> QED  BY <1>3, <2>1
<1> HIDE DEF c
<1>5. /\ IsStorage(e) /\ e.base = c.base /\ e.bsize = c.bsize /\ e.fake = c.fake
      /\ e.size = n /\ e.zero = c.zero /\ e.data = c.data
  BY <1>3 DEF IsStorage
<1> HIDE DEF A, e, q, out
<1>6. Grows(A, M, p, c, n)
  BY <1>2, <1>3, <1>5, FilledUpRight
<1> HIDE DEF M
<1>11. /\ DOMAIN M = DOMAIN A
       /\ Leaves(A, M, {p.b})
       /\ IsStorage(d)
       /\ d.base = e.base /\ d.bsize = e.bsize /\ d.fake = e.fake
       /\ d.size = e.size /\ d.zero = e.zero
       /\ \A i \in 0 .. n - 1 :
            p.at + i < e.bsize =>
              /\ i < c.size \/ c.zero = FALSE => d.data[p.at + i] = e.data[p.at + i]
              /\ ~(i < c.size) /\ c.zero = TRUE => d.data[p.at + i] = Zero
  BY <1>2, <1>6 DEF Grows
<1>7. /\ IsPromise(q) /\ q.size = n /\ q.align = o.align /\ q.zero = o.zero
      /\ q.bytes = [i \in 0 .. n - 1 |-> IF i < o.size THEN o.bytes[i]
                                         ELSE IF o.zero THEN Zero ELSE Unknown]
  BY <1>3, ReallocatedPromise DEF q
<1> HIDE DEF d
<1>8. ASSUME NEW i \in 0 .. n - 1 PROVE q.bytes[i] \in {Unknown, d.data[p.at + i]}
  <2>1. p.at + i < e.bsize
    BY <1>3, <1>4, <1>5
  <2>2. /\ i < c.size \/ c.zero = FALSE => d.data[p.at + i] = c.data[p.at + i]
        /\ ~(i < c.size) /\ c.zero = TRUE => d.data[p.at + i] = Zero
    BY <1>5, <1>11, <2>1
  <2>3. CASE i < o.size
    <3>1. q.bytes[i] = o.bytes[i]
      BY <1>7, <2>3
    <3>2. i \in 0 .. o.size - 1
      BY <1>3, <2>3
    <3> QED  BY <1>3, <2>2, <2>3, <3>1, <3>2
  <2>4. CASE ~(i < o.size) /\ o.zero = TRUE
    BY <1>3, <1>7, <2>2, <2>4
  <2>5. CASE ~(i < o.size) /\ o.zero = FALSE
    BY <1>7, <2>5
  <2> QED  BY <1>3, <2>3, <2>4, <2>5
<1>9. Kept(d, p, q)
  BY <1>3, <1>4, <1>5, <1>11, <1>7, <1>8, Altered
<1>10. Leaves(B, M, {p.b})
  BY <1>2, <1>11 DEF Leaves
<1> QED  BY <1>1, <1>9, <1>10 DEF Keeps, Done, out, q, d

(* malloc_usable_size. *)
LEMMA UsableKeeps ==
  ASSUME NEW B, NEW p, NEW o, p.b \in DOMAIN B, Kept(B[p.b], p, o)
  PROVE  Keeps(B, Done(Usable(B, p), p), p, Widened(o, DataSize(B, p)))
<1> DEFINE c == B[p.b]
           n == DataSize(B, p)
           d == [c EXCEPT !.size = n]
           bytes == [i \in 0 .. n - 1 |-> IF i < o.size THEN o.bytes[i] ELSE Unknown]
           q == [o EXCEPT !.size = n, !.bytes = bytes]
           out == Done(Usable(B, p), p)
<1>1. /\ Kept(c, p, o) /\ IsStorage(c) /\ p.at \in Nat /\ c.bsize \in Nat
      /\ c.zero = o.zero /\ IsPromise(o) /\ o.size \in Nat
      /\ o.bytes \in [0 .. o.size - 1 -> Int]
      /\ \A i \in 0 .. o.size - 1 : o.bytes[i] \in {Unknown, c.data[p.at + i]}
  BY DEF Kept, Placed, IsStorage, IsPromise
<1>2. n \in Nat /\ n = c.bsize - p.at
  BY HeadersRight
<1>3. out = Done([B EXCEPT ![p.b] = d], p)
  BY DEF Usable
<1>4. Widened(o, n) = q
  BY DEF Widened
<1> HIDE DEF n, out
<1>5. /\ out.failed = FALSE /\ out.ret = p /\ out.mem[p.b] = d
      /\ Leaves(B, out.mem, {p.b})
  BY <1>3 DEF Done, Leaves
<1> HIDE DEF c
<1>6. /\ IsStorage(d) /\ d.base = c.base /\ d.bsize = c.bsize /\ d.fake = c.fake
      /\ d.size = n /\ d.zero = c.zero /\ d.data = c.data
  BY <1>1, <1>2 DEF IsStorage
<1> HIDE DEF d
<1>7. bytes \in [0 .. n - 1 -> Int]
  BY <1>1, <1>2 DEF Unknown
<1>8. \A i \in 0 .. n - 1 : bytes[i] \in {Unknown, d.data[p.at + i]}
  BY <1>1, <1>6
<1> HIDE DEF bytes
<1>9. /\ IsPromise(q) /\ q.size = n /\ q.align = o.align /\ q.zero = o.zero
      /\ q.bytes = bytes
  BY <1>1, <1>2, <1>7 DEF IsPromise
<1> HIDE DEF q
<1>10. p.at + n <= c.bsize
  BY <1>1, <1>2
<1>11. Kept(d, p, q)
  BY <1>1, <1>6, <1>8, <1>9, <1>10, Altered
<1> QED  BY <1>4, <1>5, <1>11 DEF Keeps, out, n

(* The program fills the object. *)
LEMMA WrittenKept ==
  ASSUME NEW B, NEW p, NEW o, p.b \in DOMAIN B, Kept(B[p.b], p, o)
  PROVE  LET M == [B EXCEPT ![p.b].data =
                     [i \in DOMAIN @ |-> IF i - p.at \in 0 .. o.size - 1
                                         THEN Written(i - p.at) ELSE @[i]]]
         IN Leaves(B, M, {p.b}) /\ Kept(M[p.b], p, Filled(o))
<1> DEFINE c == B[p.b]
           data == [i \in DOMAIN c.data |-> IF i - p.at \in 0 .. o.size - 1
                                            THEN Written(i - p.at) ELSE c.data[i]]
           d == [c EXCEPT !.data = data]
           bytes == [i \in 0 .. o.size - 1 |-> Written(i)]
           q == [o EXCEPT !.bytes = bytes]
           M == [B EXCEPT ![p.b] = d]
<1>1. /\ Kept(c, p, o) /\ IsStorage(c) /\ p.at \in Nat /\ c.bsize \in Nat
      /\ c.zero = o.zero /\ c.size = o.size /\ IsPromise(o) /\ o.size \in Nat
      /\ c.data \in [0 .. c.bsize - 1 -> Int] /\ p.at + o.size <= c.bsize
  BY DEF Kept, Placed, IsStorage, IsPromise
<1>2. M[p.b] = d /\ Leaves(B, M, {p.b})
  BY DEF Leaves
<1> HIDE DEF c
<1>3. data \in [0 .. c.bsize - 1 -> Int]
  BY <1>1 DEF Written
<1>4. bytes \in [0 .. o.size - 1 -> Int]
  BY <1>1 DEF Written
<1>5. ASSUME NEW i \in 0 .. o.size - 1 PROVE bytes[i] = data[p.at + i]
  <2>1. p.at + i \in DOMAIN c.data /\ (p.at + i) - p.at = i
    BY <1>1
  <2> QED  BY <2>1
<1> HIDE DEF data, bytes
<1>6. /\ IsStorage(d) /\ d.base = c.base /\ d.bsize = c.bsize /\ d.fake = c.fake
      /\ d.size = c.size /\ d.zero = c.zero /\ d.data = data
  BY <1>1, <1>3 DEF IsStorage
<1>7. /\ IsPromise(q) /\ q.size = o.size /\ q.align = o.align /\ q.zero = o.zero
      /\ q.bytes = bytes
  BY <1>1, <1>4 DEF IsPromise
<1>8. Filled(o) = q
  BY DEF Filled, bytes
<1> HIDE DEF d, q
<1>9. Kept(d, p, q)
  BY <1>1, <1>5, <1>6, <1>7, Altered
<1> QED  BY <1>2, <1>8, <1>9 DEF M, d, data, c

(* The fake header says that the object has another alignment, which is     *)
(* that of its address.                                                     *)
LEMMA SetAlignmentKept ==
  ASSUME NEW B, NEW p, NEW o, p.b \in DOMAIN B, Kept(B[p.b], p, o),
         NEW a, Suited(a), LuckyMatch(B, p, a)
  PROVE  /\ DOMAIN SetAlignment(B, p, a) = DOMAIN B
         /\ Leaves(B, SetAlignment(B, p, a), {p.b})
         /\ Kept(SetAlignment(B, p, a)[p.b], p, [o EXCEPT !.align = a])
<1> DEFINE c == B[p.b]
           fake == [c.fake EXCEPT !.alignment = a]
           d == [c EXCEPT !.fake = fake]
           M == SetAlignment(B, p, a)
           q == [o EXCEPT !.align = a]
<1>1. /\ IsStorage(c) /\ IsPromise(o) /\ Placed(c, p, o.size, o.align) /\ c.zero = o.zero
      /\ \A i \in 0 .. o.size - 1 : o.bytes[i] \in {Unknown, c.data[p.at + i]}
  BY DEF Kept
<1>2. M = [B EXCEPT ![p.b] = d]
  BY DEF SetAlignment
<1> HIDE DEF M
<1>3. DOMAIN M = DOMAIN B /\ Leaves(B, M, {p.b}) /\ M[p.b] = d
  BY <1>2 DEF Leaves
<1>4. c.fake # NoFake /\ (c.base + p.at) % a = 0 /\ a \in Nat
  BY HeadersRight DEF LuckyMatch, Address, Suited
<1> HIDE DEF c
<1>5. /\ fake = [at |-> p.at - Header, alignment |-> a, offset |-> p.at - Header]
      /\ fake \in [at : Nat, alignment : Nat, offset : Nat]
  <2>1. c.fake = [at |-> p.at - Header, alignment |-> o.align, offset |-> p.at - Header]
    BY <1>1, <1>4 DEF Placed
  <2>2. p.at - Header \in Nat
    BY <1>1, AlignSuits DEF Placed
  <2> QED  BY <1>4, <2>1, <2>2
<1> HIDE DEF fake
<1>6. /\ IsStorage(d) /\ d.base = c.base /\ d.bsize = c.bsize /\ d.fake = fake
      /\ d.size = c.size /\ d.zero = c.zero /\ d.data = c.data
  BY <1>1, <1>5 DEF IsStorage
<1> HIDE DEF d
<1>7. /\ IsPromise(q) /\ q.size = o.size /\ q.align = a /\ q.zero = o.zero
      /\ q.bytes = o.bytes
  BY <1>1, <1>4 DEF IsPromise
<1> HIDE DEF q
<1>8. Placed(d, p, q.size, q.align)
  BY <1>1, <1>4, <1>5, <1>6, <1>7 DEF Placed
<1>9. Kept(d, p, q)
  BY <1>1, <1>6, <1>7, <1>8 DEF Kept
<1> QED  BY <1>3, <1>9 DEF M, q

(* The copy of realloc: what was promised of the old object is found in the *)
(* new one, and what is added is filled if the old object was.              *)
LEMMA CopiedKept ==
  ASSUME NEW B, NEW p, NEW o, p.b \in DOMAIN B, Kept(B[p.b], p, o),
         NEW n \in Nat, NEW a, Suited(a),
         NEW q, q.b \in DOMAIN B, Fresh(B[q.b], q, n, a)
  PROVE  /\ DOMAIN Copied(B, p, q, n) = DOMAIN B
         /\ Leaves(B, Copied(B, p, q, n), {q.b})
         /\ Kept(Copied(B, p, q, n)[q.b], q, Grown(o, n, a))
<1> DEFINE s == B[p.b]
           c == B[q.b]
           data == [i \in DOMAIN c.data |->
                      IF i - q.at \in 0 .. Min({s.size, n}) - 1
                      THEN s.data[p.at + i - q.at] ELSE c.data[i]]
           e == [c EXCEPT !.data = data, !.zero = s.zero]
           A == [B EXCEPT ![q.b] = e]
           M == FilledUp(A, q, s.size, n, s.zero)
           d == M[q.b]
           r == Grown(o, n, a)
<1>1. Copied(B, p, q, n) = M
  BY DEF Copied
<1>2. DOMAIN A = DOMAIN B /\ A[q.b] = e /\ Leaves(B, A, {q.b})
  BY DEF Leaves
<1>3. /\ IsStorage(s) /\ s.size = o.size /\ s.zero = o.zero /\ s.size \in Nat
      /\ s.bsize \in Nat /\ s.zero \in BOOLEAN /\ s.data \in [0 .. s.bsize - 1 -> Int]
      /\ p.at \in Nat /\ p.at + o.size <= s.bsize
      /\ IsPromise(o)
      /\ \A i \in 0 .. o.size - 1 : o.bytes[i] \in {Unknown, s.data[p.at + i]}
  BY DEF Kept, Placed, IsStorage
<1>4. /\ IsStorage(c) /\ Placed(c, q, n, a) /\ q.at \in Nat /\ c.bsize \in Nat
      /\ c.data \in [0 .. c.bsize - 1 -> Int] /\ q.at + n <= c.bsize
  BY DEF Fresh, Placed, IsStorage
<1> HIDE DEF s, c
<1>5. Min({s.size, n}) = IF s.size <= n THEN s.size ELSE n
  BY <1>3, MinOfTwo
<1>6. data \in [0 .. c.bsize - 1 -> Int]
  <2> SUFFICES ASSUME NEW i \in 0 .. c.bsize - 1
               PROVE  (IF i - q.at \in 0 .. Min({s.size, n}) - 1
                       THEN s.data[p.at + i - q.at] ELSE c.data[i]) \in Int
    BY <1>4
  <2>1. CASE i - q.at \in 0 .. Min({s.size, n}) - 1
    <3> DEFINE k == i - q.at
    <3>1. k \in Int /\ 0 <= k /\ k < s.size
      BY <1>3, <1>4, <1>5, <2>1
    <3>2. p.at + k \in 0 .. s.bsize - 1
      <4> HIDE DEF k
      <4> QED  BY <1>3, <3>1
    <3>3. p.at + i - q.at = p.at + k
      BY <1>3, <1>4
    <3> QED  BY <1>3, <2>1, <3>2, <3>3
  <2>2. CASE ~(i - q.at \in 0 .. Min({s.size, n}) - 1)
    BY <1>4, <2>2
  <2> QED  BY <2>1, <2>2
<1>7. ASSUME NEW i \in 0 .. n - 1, i < s.size
      PROVE  data[q.at + i] = s.data[p.at + i]
  <2>1. q.at + i \in DOMAIN c.data /\ (q.at + i) - q.at = i
    BY <1>4
  <2>2. i \in 0 .. Min({s.size, n}) - 1
    BY <1>3, <1>5, <1>7
  <2>3. p.at + (q.at + i) - q.at = p.at + i
    BY <1>3, <1>4
  <2> QED  BY <2>1, <2>2, <2>3
<1> HIDE DEF data
<1>8. /\ IsStorage(e) /\ e.base = c.base /\ e.bsize = c.bsize /\ e.fake = c.fake
      /\ e.size = c.size /\ e.zero = s.zero /\ e.data = data
  BY <1>3, <1>4, <1>6 DEF IsStorage
<1> HIDE DEF e, A, r
<1>9. Grows(A, M, q, s, n)
  BY <1>2, <1>3, <1>4, <1>8, FilledUpRight
<1> HIDE DEF M
<1>10. /\ DOMAIN M = DOMAIN A
       /\ Leaves(A, M, {q.b})
       /\ IsStorage(d)
       /\ d.base = e.base /\ d.bsize = e.bsize /\ d.fake = e.fake
       /\ d.size = e.size /\ d.zero = e.zero
       /\ \A i \in 0 .. n - 1 :
            q.at + i < e.bsize =>
              /\ i < s.size \/ s.zero = FALSE => d.data[q.at + i] = e.data[q.at + i]
              /\ ~(i < s.size) /\ s.zero = TRUE => d.data[q.at + i] = Zero
  BY <1>2, <1>9 DEF Grows
<1>11. /\ IsPromise(r) /\ r.size = n /\ r.align = a /\ r.zero = o.zero
       /\ r.bytes = [i \in 0 .. n - 1 |-> IF i < o.size THEN o.bytes[i]
                                          ELSE IF o.zero THEN Zero ELSE Unknown]
  BY <1>3, ReallocatedPromise DEF r
<1> HIDE DEF d
<1>12. ASSUME NEW i \in 0 .. n - 1 PROVE r.bytes[i] \in {Unknown, d.data[q.at + i]}
  <2>1. q.at + i < e.bsize
    BY <1>4, <1>8
  <2>2. /\ i < s.size => d.data[q.at + i] = data[q.at + i]
        /\ ~(i < s.size) /\ s.zero = TRUE => d.data[q.at + i] = Zero
    BY <1>8, <1>10, <2>1
  <2>3. CASE i < o.size
    <3>1. r.bytes[i] = o.bytes[i]
      BY <1>11, <2>3
    <3>2. i \in 0 .. o.size - 1
      BY <1>3, <2>3
    <3> QED  BY <1>3, <1>7, <2>2, <2>3, <3>1, <3>2
  <2>4. CASE ~(i < o.size) /\ o.zero = TRUE
    BY <1>3, <1>11, <2>2, <2>4
  <2>5. CASE ~(i < o.size) /\ o.zero = FALSE
    BY <1>11, <2>5
  <2> QED  BY <1>3, <2>3, <2>4, <2>5
<1>13. Placed(d, q, r.size, r.align)
  BY <1>4, <1>8, <1>10, <1>11 DEF Placed
<1>14. Kept(d, q, r)
  BY <1>3, <1>8, <1>10, <1>11, <1>12, <1>13 DEF Kept
<1>15. Leaves(B, M, {q.b})
  BY <1>2, <1>10 DEF Leaves
<1> QED  BY <1>1, <1>2, <1>10, <1>14, <1>15 DEF r, d

(* An outcome of realloc for the object p: it fails and p is kept with the  *)
(* promise o, but for the alignment, or p is gone, or it is kept, there or  *)
(* elsewhere, with the promise q.                                           *)
Trades(B, p, out, o, q) ==
  \/ /\ out.failed = TRUE
     /\ out.ret = Null
     /\ Leaves(B, out.mem, {p.b})
     /\ Kept(out.mem[p.b], p, [o EXCEPT !.align = malloc_alignment(out.mem, p)])
  \/ /\ out.failed = FALSE
     /\ out.ret = Null
     /\ Leaves(B, out.mem, {p.b})
  \/ /\ out.failed = FALSE
     /\ out.ret.b \in Block
     /\ Leaves(B, out.mem, {p.b})
     /\ Kept(out.mem[out.ret.b], out.ret, q)

(* An outcome of resize for the object p.                                   *)
Replaces(B, p, out, q) ==
  /\ Leaves(B, out.mem, {p.b})
  /\ \/ out.ret = Null
     \/ out.ret.b \in Block /\ Kept(out.mem[out.ret.b], out.ret, q)

(* With the alignment that the header has the promise is what it was.       *)
LEMMA SameAlignment ==
  ASSUME NEW B, NEW p, NEW o, Kept(B[p.b], p, o)
  PROVE  Kept(B[p.b], p, [o EXCEPT !.align = malloc_alignment(B, p)])
<1>1. malloc_alignment(B, p) = o.align
  BY HeadersRight
<1>2. [o EXCEPT !.align = o.align] = o
  BY DEF Kept, IsPromise
<1> QED  BY <1>1, <1>2

(* realloc to other storage, or to none.                                    *)
LEMMA MovedTrades ==
  ASSUME NEW B, NEW p, NEW o, p.b \in DOMAIN B, Kept(B[p.b], p, o),
         NEW n \in Nat, NEW a, Suited(a), NEW outcomes,
         \A x \in outcomes : Serves(B, x, n, a),
         NEW out \in Moved(p, n, outcomes)
  PROVE  Trades(B, p, out, o, Grown(o, n, a))
<1>1. PICK x \in outcomes :
        out = IF x.failed THEN x
              ELSE Done(DoFree(Copied(x.mem, p, x.ret, n), p), x.ret)
  BY DEF Moved
<1>2. Serves(B, x, n, a)
  OBVIOUS
<1>3. CASE x.failed = TRUE
  <2>1. out = x /\ out.mem = B /\ out.ret = Null
    BY <1>1, <1>2, <1>3 DEF Serves
  <2> QED  BY <1>3, <2>1, SameAlignment DEF Trades, Leaves
<1>4. CASE x.failed = FALSE
  <2> DEFINE q == x.ret
             M == Copied(x.mem, p, q, n)
             r == Grown(o, n, a)
  <2>1. /\ q.b \in Block \ DOMAIN B
        /\ DOMAIN x.mem = DOMAIN B \cup {q.b}
        /\ Leaves(B, x.mem, {})
        /\ Fresh(x.mem[q.b], q, n, a)
    BY <1>2, <1>4 DEF Serves
  <2>2. x.mem[p.b] = B[p.b] /\ p.b \in DOMAIN x.mem /\ q.b \in DOMAIN x.mem
    BY <2>1 DEF Leaves
  <2>3. out = Done(DoFree(M, p), q)
    BY <1>1, <1>4
  <2> HIDE DEF q, r
  <2>4. Kept(x.mem[p.b], p, o)
    BY <2>2
  <2>5. DOMAIN M = DOMAIN x.mem
    BY DEF Copied, FilledUp, Zeroed
  <2>6. Leaves(x.mem, M, {q.b})
    BY <2>1, <2>2, <2>4, CopiedKept
  <2>7. Kept(M[q.b], q, r)
    BY <2>1, <2>2, <2>4, CopiedKept DEF r
  <2> HIDE DEF M
  <2>8. /\ out.failed = FALSE /\ out.ret = q
        /\ DOMAIN out.mem = DOMAIN M \ {p.b}
        /\ \A y \in DOMAIN M \ {p.b} : out.mem[y] = M[y]
    BY <2>3 DEF Done, DoFree, Without
  <2>9. Leaves(B, out.mem, {p.b})
    BY <2>1, <2>5, <2>6, <2>8 DEF Leaves
  <2>10. out.mem[q.b] = M[q.b]
    BY <2>1, <2>2, <2>5, <2>8
  <2> QED  BY <2>1, <2>7, <2>8, <2>9, <2>10 DEF Trades, r
<1> QED  BY <1>2, <1>3, <1>4 DEF Serves

(* A size of zero frees the object. *)
LEMMA FreedTrades ==
  ASSUME NEW B, NEW p
  PROVE  LET out == Done(DoFree(B, p), Null) IN
         /\ out.failed = FALSE /\ out.ret = Null /\ Leaves(B, out.mem, {p.b})
  BY DEF Done, DoFree, Without, Leaves

(* realloc. *)
LEMMA ReallocTrades ==
  ASSUME NEW B, NEW p, NEW o, p.b \in DOMAIN B, p # Null, Kept(B[p.b], p, o),
         NEW n \in Nat, NEW out \in Realloc(B, p, n)
  PROVE  Trades(B, p, out, o, Grown(o, n, o.align))
<1>0. malloc_alignment(B, p) = o.align /\ Suited(o.align)
  BY HeadersRight DEF Kept, IsPromise
<1>1. CASE n = 0
  <2>1. out = Done(DoFree(B, p), Null)
    BY <1>1 DEF Realloc
  <2> QED  BY <2>1, FreedTrades DEF Trades
<1>2. CASE n # 0 /\ Reusable(B, p, n)
  <2>1. out = ReallocInPlace(B, p, n)
    BY <1>2 DEF Realloc
  <2>2. Keeps(B, out, p, Grown(o, n, o.align))
    BY <1>2, <2>1, ReallocInPlaceKeeps
  <2>3. p.b \in Block
    BY DEF Kept, Placed
  <2> QED  BY <2>2, <2>3 DEF Trades, Keeps
<1>3. CASE n # 0 /\ ~Reusable(B, p, n)
  <2>1. out \in Moved(p, n, MemalignNoStats(B, o.align, n))
    BY <1>0, <1>3 DEF Realloc
  <2>2. Promised(o.align, n) = o.align
    BY <1>0, <1>3, AlignSuits, MaxOfTwo DEF Promised, Suited
  <2>3. \A x \in MemalignNoStats(B, o.align, n) : Serves(B, x, n, o.align)
    BY <1>0, <2>2, Asked, MemalignServes
  <2> QED  BY <1>0, <2>1, <2>3, MovedTrades
<1> QED  BY <1>1, <1>2, <1>3

(* aligned_realloc: after a change of the alignment alone, or by a copy.     *)
LEMMA AlignedReallocTrades ==
  ASSUME NEW B, NEW p, NEW o, p.b \in DOMAIN B, p # Null, Kept(B[p.b], p, o),
         NEW a \in Nat, Askable(a), NEW n \in Nat, NEW out \in AlignedRealloc(B, p, a, n)
  PROVE  Trades(B, p, out, o, Grown(o, n, Promised(a, n)))
<1> DEFINE nalignment == Max({a, Align})
           C == SetAlignment(B, p, nalignment)
           u == [o EXCEPT !.align = nalignment]
<1>0. Suited(nalignment) /\ Suited(Promised(a, n))
  BY Asked
<1>1. CASE n = 0
  <2>1. out = Done(DoFree(B, p), Null)
    BY <1>1 DEF AlignedRealloc
  <2> QED  BY <2>1, FreedTrades DEF Trades
<1>2. CASE n # 0 /\ LuckyMatch(B, p, nalignment)
  <2>1. out \in Realloc(C, p, n)
    BY <1>2 DEF AlignedRealloc
  <2>2. Promised(a, n) = nalignment
    BY <1>2 DEF Promised
  <2> HIDE DEF nalignment
  <2>3. DOMAIN C = DOMAIN B
    BY <1>0, <1>2, SetAlignmentKept
  <2>4. Leaves(B, C, {p.b})
    BY <1>0, <1>2, SetAlignmentKept
  <2>5. Kept(C[p.b], p, u)
    BY <1>0, <1>2, SetAlignmentKept
  <2>6. u.align = nalignment /\ Grown(u, n, nalignment) = Grown(o, n, nalignment)
        /\ \A b : [u EXCEPT !.align = b] = [o EXCEPT !.align = b]
    <3>1. IsPromise(o)
      BY DEF Kept
    <3> QED  BY <3>1 DEF Grown, Reallocated, IsPromise
  <2> HIDE DEF C, u
  <2>7. Trades(C, p, out, u, Grown(u, n, u.align))
    BY <2>1, <2>3, <2>5, ReallocTrades
  <2>8. Leaves(C, out.mem, {p.b}) => Leaves(B, out.mem, {p.b})
    BY <2>3, <2>4 DEF Leaves
  <2> QED  BY <2>2, <2>6, <2>7, <2>8 DEF Trades
<1>3. CASE n # 0 /\ ~LuckyMatch(B, p, nalignment) /\ ~AlignmentBit(B, p) /\ a = Align
  <2>1. out \in Realloc(B, p, n)
    BY <1>3 DEF AlignedRealloc
  <2>2. o.align = Promised(a, n)
    <3>1. o.align = Align
      BY <1>3, HeadersRight DEF malloc_alignment
    <3> QED  BY <1>3, <3>1, AlignSuits, MaxOfTwo DEF Promised
  <2> QED  BY <2>1, <2>2, ReallocTrades
<1>4. CASE n # 0 /\ ~LuckyMatch(B, p, nalignment) /\ ~(~AlignmentBit(B, p) /\ a = Align)
  <2>1. out \in Moved(p, n, MemalignNoStats(B, a, n))
    BY <1>4 DEF AlignedRealloc
  <2>2. \A x \in MemalignNoStats(B, a, n) : Serves(B, x, n, Promised(a, n))
    BY MemalignServes
  <2> QED  BY <1>0, <2>1, <2>2, MovedTrades
<1> QED  BY <1>1, <1>2, <1>3, <1>4

(* The free and the malloc of resize. *)
LEMMA FreedThenGives ==
  ASSUME NEW B, NEW p, NEW out, NEW q, Gives(DoFree(B, p), out, q)
  PROVE  Replaces(B, p, out, q)
<1>1. Leaves(DoFree(B, p), out.mem, {}) => Leaves(B, out.mem, {p.b})
  BY DEF DoFree, Without, Leaves
<1>2. Leaves(B, DoFree(B, p), {p.b})
  BY DEF DoFree, Without, Leaves
<1> QED  BY <1>1, <1>2 DEF Gives, Replaces

(* resize. *)
LEMMA ResizeReplaces ==
  ASSUME NEW B, NEW p, NEW o, p.b \in DOMAIN B, p # Null, Kept(B[p.b], p, o),
         NEW n \in Nat, NEW out \in Resize(B, p, n)
  PROVE  Replaces(B, p, out, Unfilled(n, Align))
<1>1. CASE n = 0
  <2>1. out = Done(DoFree(B, p), Null)
    BY <1>1 DEF Resize
  <2> QED  BY <2>1, FreedTrades DEF Replaces
<1>2. CASE n # 0 /\ malloc_alignment(B, p) = Align /\ Reusable(B, p, n)
  <2>1. out = ResizedInPlace(B, p, n)
    BY <1>2 DEF Resize
  <2>2. o.align = Align
    BY <1>2, HeadersRight
  <2>3. Keeps(B, out, p, Unfilled(n, Align))
    BY <1>2, <2>1, <2>2, ResizedInPlaceKeeps
  <2>4. p.b \in Block
    BY DEF Kept, Placed
  <2> QED  BY <2>3, <2>4 DEF Replaces, Keeps
<1>3. CASE n # 0 /\ ~(malloc_alignment(B, p) = Align /\ Reusable(B, p, n))
  <2>1. out \in DoMalloc(DoFree(B, p), n)
    BY <1>3 DEF Resize
  <2> QED  BY <2>1, AlignSuits, DoMallocServes, ServesGives, FreedThenGives
<1> QED  BY <1>1, <1>2, <1>3

(* aligned_resize. *)
LEMMA AlignedResizeReplaces ==
  ASSUME NEW B, NEW p, NEW o, p.b \in DOMAIN B, p # Null, Kept(B[p.b], p, o),
         NEW a \in Nat, Askable(a), NEW n \in Nat, NEW out \in AlignedResize(B, p, a, n)
  PROVE  Replaces(B, p, out, Unfilled(n, Promised(a, n)))
<1> DEFINE nalignment == Max({a, Align})
           C == SetAlignment(B, p, nalignment)
           u == [o EXCEPT !.align = nalignment]
           lucky == LuckyMatch(B, p, nalignment) /\ Reusable(B, p, n)
<1>0. Suited(nalignment) /\ Suited(Promised(a, n)) /\ (n # 0 => Promised(a, n) = nalignment)
  BY Asked DEF Promised
<1>1. CASE n = 0
  <2>1. out = Done(DoFree(B, p), Null)
    BY <1>1 DEF AlignedResize
  <2> QED  BY <2>1, FreedTrades DEF Replaces
<1>2. CASE n # 0 /\ lucky
  <2>1. out = ResizedInPlace(C, p, n)
    BY <1>2 DEF AlignedResize
  <2> HIDE DEF nalignment
  <2>2. DOMAIN C = DOMAIN B
    BY <1>0, <1>2, SetAlignmentKept
  <2>3. Leaves(B, C, {p.b})
    BY <1>0, <1>2, SetAlignmentKept
  <2>4. Kept(C[p.b], p, u)
    BY <1>0, <1>2, SetAlignmentKept
  <2>5. u.align = nalignment
    BY DEF Kept, IsPromise
  <2>6. Reusable(C, p, n)
    <3>1. DataSize(B, p) = B[p.b].bsize - p.at
      BY HeadersRight
    <3> HIDE DEF C, u
    <3>2. DataSize(C, p) = C[p.b].bsize - p.at
      BY <2>4, HeadersRight
    <3>3. C[p.b].bsize = B[p.b].bsize
      <4>1. C = [B EXCEPT ![p.b] = [B[p.b] EXCEPT !.fake =
                   [B[p.b].fake EXCEPT !.alignment = nalignment]]]
        BY DEF C, SetAlignment
      <4> QED  BY <4>1 DEF Kept, IsStorage
    <3> QED  BY <1>2, <3>1, <3>2, <3>3 DEF Reusable
  <2> HIDE DEF C, u
  <2>7. Keeps(C, out, p, Unfilled(n, nalignment))
    BY <2>1, <2>2, <2>4, <2>5, <2>6, ResizedInPlaceKeeps
  <2>8. p.b \in Block
    BY DEF Kept, Placed
  <2>9. Leaves(B, out.mem, {p.b})
    BY <2>2, <2>3, <2>7 DEF Leaves, Keeps
  <2> QED  BY <1>0, <1>2, <2>7, <2>8, <2>9 DEF Replaces, Keeps
<1>3. CASE n # 0 /\ ~lucky /\ ~AlignmentBit(B, p) /\ nalignment = Align
  <2>1. out \in Resize(B, p, n)
    BY <1>3 DEF AlignedResize
  <2> QED  BY <1>0, <1>3, <2>1, ResizeReplaces
<1>4. CASE n # 0 /\ ~lucky /\ ~(~AlignmentBit(B, p) /\ nalignment = Align)
  <2>1. out \in MemalignNoStats(DoFree(B, p), nalignment, n)
    BY <1>4 DEF AlignedResize
  <2>2. Promised(nalignment, n) = nalignment
    <3> HIDE DEF nalignment
    <3> QED  BY <1>0, <1>4, AlignSuits, MaxOfTwo DEF Promised, Suited
  <2>3. Askable(nalignment)
    BY <1>0, Asked
  <2> HIDE DEF nalignment
  <2>4. Serves(DoFree(B, p), out, n, nalignment)
    BY <2>1, <2>2, <2>3, MemalignServes
  <2> QED  BY <1>0, <1>4, <2>4, ServesGives, FreedThenGives
<1> QED  BY <1>1, <1>2, <1>3, <1>4

(* The object at p is as promised by o, but for its alignment when a failed *)
(* aligned_realloc has changed that.                                        *)
Stands(c, p, o) ==
  /\ IsPromise(o)
  /\ \E a : Kept(c, p, [o EXCEPT !.align = a]) /\ (o.realigned = FALSE => a = o.align)

LEMMA KeptStands ==
  ASSUME NEW c, NEW p, NEW o, Kept(c, p, o)
  PROVE  Stands(c, p, o)
<1>1. IsPromise(o) /\ [o EXCEPT !.align = o.align] = o
  BY DEF Kept, IsPromise
<1> QED  BY <1>1 DEF Stands

(* An object stands whatever history says of it, once it is kept. *)
LEMMA KeptMarked ==
  ASSUME NEW c, NEW p, NEW o, Kept(c, p, o), NEW b \in BOOLEAN
  PROVE  Kept(c, p, [o EXCEPT !.realigned = b])
<1>1. IsPromise(o)
  BY DEF Kept
<1>2. LET q == [o EXCEPT !.realigned = b] IN
      /\ IsPromise(q) /\ q.size = o.size /\ q.align = o.align /\ q.zero = o.zero
      /\ q.bytes = o.bytes
  BY <1>1 DEF IsPromise
<1> QED  BY <1>2 DEF Kept

(* What is promised of p, with the alignment that the header tells.         *)
Found(B, p, o) == [o EXCEPT !.align = malloc_alignment(B, p)]

LEMMA StandsFound ==
  ASSUME NEW B, NEW p, NEW o, Stands(B[p.b], p, o)
  PROVE  LET u == Found(B, p, o) IN
         /\ Kept(B[p.b], p, u)
         /\ IsPromise(o) /\ IsPromise(u)
         /\ u.align = malloc_alignment(B, p)
         /\ o.realigned = FALSE => malloc_alignment(B, p) = o.align
<1>1. PICK a : Kept(B[p.b], p, [o EXCEPT !.align = a]) /\ (o.realigned = FALSE => a = o.align)
  BY DEF Stands
<1>2. malloc_alignment(B, p) = [o EXCEPT !.align = a].align
  BY <1>1, HeadersRight
<1>3. [o EXCEPT !.align = a].align = a
  BY DEF Stands, IsPromise
<1>4. IsPromise([o EXCEPT !.align = a])
  BY <1>1 DEF Kept
<1> QED  BY <1>1, <1>2, <1>3, <1>4 DEF Stands, Found

(* A reallocated object has the alignment and the history it had.           *)
LEMMA ReallocatedKeeps ==
  ASSUME NEW o, IsPromise(o), NEW n
  PROVE  LET r == Reallocated(o, n) IN
         /\ r.align = o.align /\ r.realigned = o.realigned
         /\ Grown(o, n, o.align) = r
         /\ \A a : o.realigned = FALSE => Grown(o, n, a) = Aligned(r, a)
<1> DEFINE r == Reallocated(o, n)
           bytes == [i \in 0 .. n - 1 |-> IF i < o.size THEN o.bytes[i]
                                          ELSE IF o.zero THEN Zero ELSE Unknown]
<1>1. r = [o EXCEPT !.size = n, !.bytes = bytes]
  BY DEF Reallocated
<1> HIDE DEF r, bytes
<1>2. r = [size |-> n, align |-> o.align, zero |-> o.zero, realigned |-> o.realigned,
           bytes |-> bytes]
  BY <1>1 DEF IsPromise
<1>3. Grown(o, n, o.align) = r
  <2>1. [r EXCEPT !.align = o.align] = r
    BY <1>2
  <2> QED  BY <2>1 DEF r, Grown
<1>4. ASSUME NEW a, NEW marked, o.realigned = marked
      PROVE  [r EXCEPT !.align = a] = [r EXCEPT !.align = a, !.realigned = marked]
  <2> DEFINE e(f) == [size |-> n, align |-> a, zero |-> o.zero, realigned |-> f,
                      bytes |-> bytes]
  <2>1. [r EXCEPT !.align = a] = e(o.realigned)
    BY <1>2
  <2>2. [r EXCEPT !.align = a, !.realigned = marked] =
          [[r EXCEPT !.align = a] EXCEPT !.realigned = marked]
    OBVIOUS
  <2>3. [e(o.realigned) EXCEPT !.realigned = marked] = e(marked)
    OBVIOUS
  <2> HIDE DEF e
  <2> QED  BY <1>4, <2>1, <2>2, <2>3
<1>5. r.align = o.align /\ r.realigned = o.realigned
  BY <1>2
<1>6. ASSUME NEW a, o.realigned = FALSE PROVE Grown(o, n, a) = Aligned(r, a)
  <2>1. [r EXCEPT !.align = a] = [r EXCEPT !.align = a, !.realigned = FALSE]
    BY <1>4, <1>6, Zenon
  <2>2. Grown(o, n, a) = [r EXCEPT !.align = a]
    BY DEF r, Grown
  <2>3. Aligned(r, a) = [r EXCEPT !.align = a, !.realigned = FALSE]
    BY DEF Aligned
  <2> QED  BY <2>1, <2>2, <2>3, Zenon
<1> QED  BY <1>3, <1>5, <1>6 DEF r

(* Promises that differ in their alignment alone are reallocated alike.     *)
LEMMA GrownStands ==
  ASSUME NEW o, IsPromise(o), NEW u, IsPromise(u), NEW a, u = [o EXCEPT !.align = a],
         Suited(a), o.realigned = FALSE => a = o.align,
         NEW n \in Nat, NEW c, NEW q, Kept(c, q, Grown(u, n, a))
  PROVE  Stands(c, q, Reallocated(o, n))
<1> DEFINE r == Reallocated(o, n)
<1>1. IsPromise(r) /\ r.align = o.align /\ r.realigned = o.realigned
  <2>1. Grown(o, n, o.align) = r
    BY ReallocatedKeeps
  <2>2. Suited(o.align)
    BY DEF IsPromise
  <2>3. \A b : Suited(b) => IsPromise(Grown(o, n, b))
    BY ReallocatedPromise
  <2>4. r.align = o.align /\ r.realigned = o.realigned
    BY ReallocatedKeeps
  <2> QED  BY <2>1, <2>2, <2>3, <2>4
<1>2. [r EXCEPT !.align = a] = Grown(u, n, a)
  BY DEF Grown, Reallocated, IsPromise
<1> HIDE DEF r
<1>3. Stands(c, q, r)
  BY <1>1, <1>2 DEF Stands
<1> QED  BY <1>3 DEF r

(* An object that was given an alignment stands with it. *)
LEMMA AlignedStands ==
  ASSUME NEW o, IsPromise(o), NEW u, IsPromise(u), NEW a, u = [o EXCEPT !.align = a],
         NEW n \in Nat, NEW b, NEW c, NEW q, Kept(c, q, Grown(u, n, b))
  PROVE  Stands(c, q, Aligned(Reallocated(o, n), b))
<1> DEFINE g == Grown(u, n, b)
<1>1. [g EXCEPT !.realigned = FALSE] = Aligned(Reallocated(o, n), b)
  BY DEF Grown, Reallocated, Aligned, IsPromise
<1>2. Kept(c, q, [g EXCEPT !.realigned = FALSE])
  BY KeptMarked
<1> QED  BY <1>1, <1>2, KeptStands

(* So are those of which more may be used, and that the program has filled. *)
LEMMA WidenedStands ==
  ASSUME NEW o, IsPromise(o), NEW u, NEW a, u = [o EXCEPT !.align = a],
         o.realigned = FALSE => a = o.align,
         NEW n, NEW c, NEW q, Kept(c, q, Widened(u, n))
  PROVE  Stands(c, q, Widened(o, n))
<1> DEFINE w == Widened(o, n)
<1>1. [w EXCEPT !.align = a] = Widened(u, n)
  BY DEF Widened, IsPromise
<1>2. IsPromise([w EXCEPT !.align = a])
  BY <1>1 DEF Kept
<1>3. w.align = o.align /\ w.realigned = o.realigned
  BY DEF Widened, IsPromise
<1>4. IsPromise(w)
  <2>1. w = [o EXCEPT !.size = n, !.bytes = w.bytes] /\ w.size = n
    BY DEF Widened, IsPromise
  <2> HIDE DEF w
  <2>2. n \in Nat /\ w.bytes \in [0 .. n - 1 -> Int]
    BY <1>2, <2>1 DEF IsPromise
  <2> QED  BY <2>1, <2>2 DEF IsPromise
<1> HIDE DEF w
<1>5. Stands(c, q, w)
  BY <1>1, <1>3, <1>4 DEF Stands
<1> QED  BY <1>5 DEF w

LEMMA FilledStands ==
  ASSUME NEW o, IsPromise(o), NEW u, NEW a, u = [o EXCEPT !.align = a],
         o.realigned = FALSE => a = o.align,
         NEW c, NEW q, Kept(c, q, Filled(u))
  PROVE  Stands(c, q, Filled(o))
<1> DEFINE w == Filled(o)
<1>1. [w EXCEPT !.align = a] = Filled(u)
  BY DEF Filled, IsPromise
<1>2. w.align = o.align /\ w.realigned = o.realigned
  BY DEF Filled, IsPromise
<1>3. IsPromise(w)
  BY DEF Filled, IsPromise, Written
<1> HIDE DEF w
<1>4. Stands(c, q, w)
  BY <1>1, <1>2, <1>3 DEF Stands
<1> QED  BY <1>4 DEF w

(* Every object is kept as promised.                                        *)
AllKept ==
  /\ errno \in {0, ENOMEM}
  /\ \A p \in Object : Stands(block[p.b], p, promise[p])

KeptInv == ObjectsInv /\ AllKept

(* Objects whose block and promise a step leaves alone stay as they are.    *)
LEMMA OthersKept ==
  ASSUME KeptInv, errno' \in {0, ENOMEM},
         \A r \in Object' :
           \/ Stands(block'[r.b], r, promise'[r])
           \/ r \in Object /\ promise'[r] = promise[r] /\ block'[r.b] = block[r.b]
  PROVE  AllKept'
  BY DEF KeptInv, AllKept

(* errno is set to ENOMEM or left. *)
LEMMA ErrnoTyped ==
  ASSUME KeptInv, NEW out, NEW q, Returns(out, q)
  PROVE  errno' \in {0, ENOMEM}
  BY DEF Returns, KeptInv, AllKept

(* The program holds the object that a routine made, if it made one.        *)
LEMMA MadeKeeps ==
  ASSUME KeptInv, NEW out, NEW o, Gives(block, out, o),
         block' = out.mem, errno' \in {0, ENOMEM},
         out.ret = Null => Object' = Object,
         out.ret # Null => Object' = Object \cup {out.ret} /\ promise'[out.ret] = o,
         \A r \in Object \ {out.ret} : promise'[r] = promise[r]
  PROVE  AllKept'
<1>1. \A r \in Object : r.b \in DOMAIN block /\ r # Null
  BY HeldIsNotNull DEF KeptInv
<1>2. CASE out.ret = Null
  <2>1. block' = block
    BY <1>2, NullIsNone DEF Gives
  <2> QED  BY <1>1, <1>2, <2>1, OthersKept
<1>3. CASE out.ret # Null
  <2>1. /\ out.ret.b \in Block \ DOMAIN block
        /\ Leaves(block, block', {})
        /\ Kept(block'[out.ret.b], out.ret, o)
    BY <1>3 DEF Gives
  <2>2. \A r \in Object : block'[r.b] = block[r.b]
    BY <1>1, <2>1 DEF Leaves
  <2>3. Stands(block'[out.ret.b], out.ret, o)
    BY <2>1, KeptStands
  <2> QED  BY <1>3, <2>2, <2>3, OthersKept
<1> QED  BY <1>2, <1>3

(* A step of a routine that makes an object. *)
LEMMA AllocateKeeps ==
  ASSUME KeptInv, NEW outcomes, NEW o, Allocate(outcomes, o),
         \A out \in outcomes : Gives(block, out, o)
  PROVE  AllKept'
<1>1. PICK out \in outcomes :
        Returns(out, IF out.ret = Null THEN promise ELSE With(promise, out.ret, o))
  BY DEF Allocate
<1>2. Gives(block, out, o) /\ block' = out.mem /\ errno' \in {0, ENOMEM}
  BY <1>1, ErrnoTyped DEF Returns
<1>3. CASE out.ret = Null
  <2>1. promise' = promise
    BY <1>1, <1>3 DEF Returns
  <2> QED  BY <1>2, <1>3, <2>1, MadeKeeps DEF Object
<1>4. CASE out.ret # Null
  <2>1. promise' = With(promise, out.ret, o)
    BY <1>1, <1>4 DEF Returns
  <2>2. /\ Object' = Object \cup {out.ret}
        /\ promise'[out.ret] = o
        /\ \A r \in Object \ {out.ret} : promise'[r] = promise[r]
    BY <2>1 DEF With, Object
  <2> QED  BY <1>2, <1>4, <2>2, MadeKeeps
<1> QED  BY <1>3, <1>4

(* The object p is given up, alone or for another. *)
LEMMA ExchangeKeeps ==
  ASSUME KeptInv, NEW p \in Object, errno' \in {0, ENOMEM},
         Leaves(block, block', {p.b}),
         \/ promise' = Without(promise, p)
         \/ \E q, o : promise' = With(Without(promise, p), q, o) /\ Stands(block'[q.b], q, o)
  PROVE  AllKept'
<1>1. \A r \in Object \ {p} : r.b \in DOMAIN block \ {p.b}
  BY DEF KeptInv, ObjectsInv, OneBlockEach
<1>2. \A r \in Object \ {p} : block'[r.b] = block[r.b]
  BY <1>1 DEF Leaves
<1>3. CASE promise' = Without(promise, p)
  <2>1. /\ Object' = Object \ {p}
        /\ \A r \in Object \ {p} : promise'[r] = promise[r]
    BY <1>3 DEF Without, Object
  <2> QED  BY <1>2, <2>1, OthersKept
<1>4. ASSUME NEW q, NEW o,
             promise' = With(Without(promise, p), q, o), Stands(block'[q.b], q, o)
      PROVE  AllKept'
  <2>1. /\ Object' = (Object \ {p}) \cup {q}
        /\ promise'[q] = o
        /\ \A r \in (Object \ {p}) \ {q} : promise'[r] = promise[r]
    BY <1>4 DEF With, Without, Object
  <2> QED  BY <1>2, <1>4, <2>1, OthersKept
<1> QED  BY <1>3, <1>4

(* The object p keeps its place with another promise. *)
LEMMA UpdateKeeps ==
  ASSUME KeptInv, NEW p \in Object, errno' \in {0, ENOMEM},
         Leaves(block, block', {p.b}),
         NEW o, promise' = [promise EXCEPT ![p] = o], Stands(block'[p.b], p, o)
  PROVE  AllKept'
<1>1. \A r \in Object \ {p} : r.b \in DOMAIN block \ {p.b}
  BY DEF KeptInv, ObjectsInv, OneBlockEach
<1>2. \A r \in Object \ {p} : block'[r.b] = block[r.b]
  BY <1>1 DEF Leaves
<1>3. /\ Object' = Object /\ promise'[p] = o
      /\ \A r \in Object \ {p} : promise'[r] = promise[r]
  BY DEF Object
<1> QED  BY <1>2, <1>3, OthersKept

(* A step of resize and its aligned variant. *)
LEMMA ResizesKeeps ==
  ASSUME KeptInv, NEW p \in Object, NEW outcomes, NEW o, Resizes(p, outcomes, o),
         \A out \in outcomes : Replaces(block, p, out, o)
  PROVE  AllKept'
<1>1. PICK out \in outcomes :
        Returns(out, IF out.ret = Null THEN Without(promise, p)
                     ELSE With(Without(promise, p), out.ret, o))
  BY DEF Resizes
<1>2. Replaces(block, p, out, o) /\ block' = out.mem /\ errno' \in {0, ENOMEM}
  BY <1>1, ErrnoTyped DEF Returns
<1>3. CASE out.ret = Null
  <2>1. promise' = Without(promise, p)
    BY <1>1, <1>3 DEF Returns
  <2> QED  BY <1>2, <2>1, ExchangeKeeps DEF Replaces
<1>4. CASE out.ret # Null
  <2>1. promise' = With(Without(promise, p), out.ret, o)
    BY <1>1, <1>4 DEF Returns
  <2>2. Stands(block'[out.ret.b], out.ret, o)
    BY <1>2, <1>4, KeptStands DEF Replaces
  <2> QED  BY <1>2, <2>1, <2>2, ExchangeKeeps DEF Replaces
<1> QED  BY <1>3, <1>4

(* A step of realloc and its variants: the outcomes are for what is found   *)
(* of p, and a success stands with the new promise o.                       *)
LEMMA ReallocatesKeeps ==
  ASSUME KeptInv, NEW p \in Object, NEW outcomes, NEW o, NEW g, NEW posix,
         Reallocates(p, outcomes, o, posix),
         posix = TRUE => errno # ENOMEM, posix \in BOOLEAN,
         \A out \in outcomes :
           /\ Trades(block, p, out, Found(block, p, promise[p]), g)
           /\ Exchanges(DOMAIN block, p.b, out),
         \A c, q : Kept(c, q, g) => Stands(c, q, o)
  PROVE  AllKept'
<1> DEFINE u == Found(block, p, promise[p])
           old == malloc_alignment(block, p)
<1>0. p # Null /\ p.b \in DOMAIN block /\ Stands(block[p.b], p, promise[p])
  BY HeldIsNotNull DEF KeptInv, AllKept
<1>1. PICK out \in outcomes :
        Returns(out,
          IF out.failed \/ (posix /\ ReturnedENOMEM(out)) THEN Untouched(p, out.mem)
          ELSE IF out.ret = Null THEN Without(promise, p)
          ELSE With(Without(promise, p), out.ret, o))
  BY DEF Reallocates
<1>2. /\ Trades(block, p, out, u, g)
      /\ Exchanges(DOMAIN block, p.b, out)
  OBVIOUS
<1>3. block' = out.mem /\ errno' \in {0, ENOMEM}
  BY <1>1, ErrnoTyped DEF Returns
<1>4. CASE out.failed = TRUE
  <2> DEFINE new == malloc_alignment(out.mem, p)
             v == [promise[p] EXCEPT !.align = new]
  <2>1. Leaves(block, block', {p.b}) /\ Kept(block'[p.b], p, [u EXCEPT !.align = new])
    BY <1>2, <1>3, <1>4 DEF Trades
  <2>2. p.b \in DOMAIN out.mem
    BY <1>0, <1>2, <1>4 DEF Exchanges
  <2>3. promise' = IF new # old THEN [promise EXCEPT ![p] = Realigned(promise[p])]
                   ELSE promise
    BY <1>1, <1>4, <2>2 DEF Returns, Untouched
  <2>4. IsPromise(promise[p]) /\ (promise[p].realigned = FALSE => old = promise[p].align)
    BY <1>0, StandsFound
  <2>5. [u EXCEPT !.align = new] = v
    BY <2>4 DEF IsPromise, Found
  <2> HIDE DEF new, old, u, v
  <2>6. Kept(block'[p.b], p, v)
    BY <2>1, <2>5
  <2>7. CASE new # old
    <3> DEFINE w == Realigned(promise[p])
    <3>1. Kept(block'[p.b], p, [v EXCEPT !.realigned = TRUE])
      BY <2>6, KeptMarked
    <3>2. [w EXCEPT !.align = new] = [v EXCEPT !.realigned = TRUE]
      BY <2>4 DEF Realigned, IsPromise, v
    <3>3. IsPromise(w) /\ w.realigned = TRUE
      BY <2>4 DEF Realigned, IsPromise
    <3> HIDE DEF w
    <3>4. Stands(block'[p.b], p, w)
      BY <3>1, <3>2, <3>3 DEF Stands
    <3>5. promise' = [promise EXCEPT ![p] = w]
      BY <2>3, <2>7 DEF w
    <3> QED  BY <1>3, <2>1, <3>4, <3>5, UpdateKeeps
  <2>8. CASE new = old
    <3>1. Stands(block'[p.b], p, promise[p])
      BY <2>4, <2>6, <2>8 DEF Stands, v
    <3>2. promise' = promise
      BY <2>3, <2>8
    <3>3. \A r \in Object \ {p} : r.b \in DOMAIN block \ {p.b}
      BY DEF KeptInv, ObjectsInv, OneBlockEach
    <3>4. \A r \in Object \ {p} : block'[r.b] = block[r.b]
      BY <2>1, <3>3 DEF Leaves
    <3> QED  BY <1>3, <3>1, <3>2, <3>4, OthersKept DEF Object
  <2> QED  BY <2>7, <2>8
<1>5. CASE out.failed = FALSE /\ out.ret = Null
  <2>1. ~(out.failed \/ (posix /\ ReturnedENOMEM(out)))
    BY <1>5 DEF ReturnedENOMEM
  <2>2. promise' = Without(promise, p)
    BY <1>1, <1>5, <2>1 DEF Returns
  <2>3. Leaves(block, block', {p.b})
    BY <1>2, <1>3 DEF Trades
  <2> QED  BY <1>3, <2>2, <2>3, ExchangeKeeps
<1>6. CASE out.failed = FALSE /\ out.ret # Null
  <2>1. ~(out.failed \/ (posix /\ ReturnedENOMEM(out)))
    BY <1>6 DEF ReturnedENOMEM
  <2>2. promise' = With(Without(promise, p), out.ret, o)
    BY <1>1, <1>6, <2>1 DEF Returns
  <2>3. /\ Leaves(block, block', {p.b})
        /\ Kept(block'[out.ret.b], out.ret, g)
    BY <1>2, <1>3, <1>6 DEF Trades
  <2> QED  BY <1>3, <2>2, <2>3, ExchangeKeeps
<1> QED  BY <1>2, <1>4, <1>5, <1>6 DEF Exchanges

(* nullptr is an object of no bytes. *)
LEMMA OldNull ==
  /\ IsPromise(Old(Null)) /\ Old(Null).size = 0 /\ Old(Null).zero = FALSE
  /\ Old(Null).align = Align /\ Old(Null).realigned = FALSE
<1>1. Old(Null) = Unfilled(0, Align)
  BY DEF Old, Unfilled
<1>2. IsPromise(Unfilled(0, Align))
  <2>1. PICK z \in Nat : z = 0
    OBVIOUS
  <2>2. IsPromise(Unfilled(z, Align))
    BY AlignSuits, NewPromise
  <2> QED  BY <2>1, <2>2
<1> QED  BY <1>1, <1>2 DEF Unfilled, NewObject

(* nullptr given to realloc stands for an object of no bytes: all that is   *)
(* reallocated is new.                                                      *)
LEMMA NothingGrown ==
  ASSUME NEW B, NEW out, NEW n \in Nat, NEW a, Suited(a), Gives(B, out, Unfilled(n, a))
  PROVE  Gives(B, out, Grown(Old(Null), n, a))
<1> DEFINE o == Unfilled(n, a)
           q == Grown(Old(Null), n, a)
<1>2. /\ IsPromise(Old(Null)) /\ Old(Null).size = 0 /\ Old(Null).zero = FALSE
  BY OldNull
<1>3. /\ IsPromise(q) /\ q.size = n /\ q.align = a /\ q.zero = Old(Null).zero
      /\ q.bytes = [i \in 0 .. n - 1 |-> IF i < Old(Null).size THEN Old(Null).bytes[i]
                                         ELSE IF Old(Null).zero THEN Zero ELSE Unknown]
  BY <1>2, ReallocatedPromise
<1>4. o.size = n /\ o.align = a /\ o.zero = FALSE
  BY NewPromise
<1> HIDE DEF o, q
<1>5. \A i \in 0 .. n - 1 : q.bytes[i] = Unknown
  BY <1>2, <1>3
<1>6. \A c, p : Kept(c, p, o) => Kept(c, p, q)
  BY <1>2, <1>3, <1>4, <1>5 DEF Kept
<1> QED  BY <1>6 DEF Gives, o, q

(* nullptr for the old object: a step as that of malloc or memalign. *)
LEMMA NullKeeps ==
  ASSUME KeptInv, NEW outcomes, NEW o, NEW posix \in BOOLEAN,
         \/ Resizes(Null, outcomes, o)
         \/ Reallocates(Null, outcomes, o, posix),
         \A out \in outcomes : Gives(block, out, o)
  PROVE  AllKept'
<1>1. Null \notin Object
  BY HeldIsNotNull DEF KeptInv
<1>2. /\ DOMAIN Without(promise, Null) = Object
      /\ \A r \in Object : Without(promise, Null)[r] = promise[r]
  BY <1>1 DEF Without, Object
<1>3. PICK out \in outcomes :
        /\ block' = out.mem /\ errno' \in {0, ENOMEM}
        /\ \/ out.ret = Null /\ promise' = promise
           \/ out.ret = Null /\ promise' = Without(promise, Null)
           \/ out.ret # Null /\ out.failed = TRUE
           \/ out.ret # Null /\ promise' = With(Without(promise, Null), out.ret, o)
  <2>1. CASE Resizes(Null, outcomes, o)
    <3>1. PICK out \in outcomes :
            Returns(out, IF out.ret = Null THEN Without(promise, Null)
                         ELSE With(Without(promise, Null), out.ret, o))
      BY <2>1 DEF Resizes
    <3> QED  BY <3>1, ErrnoTyped DEF Returns
  <2>2. CASE Reallocates(Null, outcomes, o, posix)
    <3>1. PICK out \in outcomes :
            Returns(out,
              IF out.failed \/ (posix /\ ReturnedENOMEM(out)) THEN Untouched(Null, out.mem)
              ELSE IF out.ret = Null THEN Without(promise, Null)
              ELSE With(Without(promise, Null), out.ret, o))
      BY <2>2 DEF Reallocates
    <3>2. Gives(block, out, o)
      OBVIOUS
    <3>3. block' = out.mem /\ errno' \in {0, ENOMEM}
      BY <3>1, ErrnoTyped DEF Returns
    <3>4. out.failed => Untouched(Null, out.mem) = promise
      BY <3>2, NullIsNone DEF Gives, Untouched, KeptInv, ObjectsInv
    <3>5. \/ out.ret = Null /\ promise' = promise
          \/ out.ret = Null /\ promise' = Without(promise, Null)
          \/ out.ret # Null /\ promise' = With(Without(promise, Null), out.ret, o)
      BY <3>1, <3>2, <3>4, NullIsNone DEF Returns, ReturnedENOMEM, Gives
    <3> QED  BY <3>3, <3>5
  <2> QED  BY <2>1, <2>2
<1>4. Gives(block, out, o)
  OBVIOUS
<1>5. out.ret # Null => out.failed # TRUE
  BY <1>4 DEF Gives
<1>6. CASE out.ret = Null
  <2>1. Object' = Object /\ \A r \in Object : promise'[r] = promise[r]
    BY <1>2, <1>3, <1>6 DEF Object
  <2> QED  BY <1>3, <1>4, <1>6, <2>1, MadeKeeps
<1>7. CASE out.ret # Null
  <2>1. promise' = With(Without(promise, Null), out.ret, o)
    BY <1>3, <1>5, <1>7
  <2>2. /\ Object' = Object \cup {out.ret}
        /\ promise'[out.ret] = o
        /\ \A r \in Object \ {out.ret} : promise'[r] = promise[r]
    BY <1>2, <2>1 DEF With, Object
  <2> QED  BY <1>3, <1>4, <1>7, <2>2, MadeKeeps
<1> QED  BY <1>6, <1>7

(* Every step keeps the objects as promised. *)
LEMMA StepKeeps ==
  ASSUME StaleErrno = FALSE, KeptInv, [Next]_vars
  PROVE  AllKept'
<1>0. /\ Size \subseteq Nat /\ Alignment \subseteq Nat
      /\ \A a \in Alignment \cup {PageSize} : Askable(a)
      /\ PageSize \in Nat \ {0}
      /\ \A a \in Alignment \cup {PageSize}, n \in Nat : Suited(Promised(a, n))
      /\ Suited(Align)
  BY ObjectsAssumption, Asked, AlignSuits
<1>1. CASE UNCHANGED vars
  BY <1>1 DEF vars, KeptInv, AllKept, Object
<1>2. ASSUME NEW n \in Nat, malloc(n) PROVE AllKept'
  <2>1. \A out \in DoMalloc(block, n) : Gives(block, out, Unfilled(n, Align))
    BY <1>0, DoMallocServes, ServesGives
  <2> QED  BY <1>2, <2>1, AllocateKeeps DEF malloc, Unfilled
<1>3. ASSUME NEW n \in Nat, calloc(n) PROVE AllKept'
  <2>1. \A out \in Calloc(block, n) : Gives(block, out, ZeroFilled(n, Align))
    BY <1>0, DoMallocServes, ClearedGives DEF Calloc
  <2> QED  BY <1>3, <2>1, AllocateKeeps DEF calloc, ZeroFilled
<1>4. ASSUME NEW n \in Nat, NEW a \in Alignment \cup {PageSize}
      PROVE  \A out \in MemalignNoStats(block, a, n) :
               Gives(block, out, Unfilled(n, Promised(a, n)))
  BY <1>0, MemalignServes, ServesGives
<1>5. ASSUME NEW n \in Nat, valloc(n) \/ pvalloc(n) PROVE AllKept'
  <2>1. CASE valloc(n)
    BY <1>4, <2>1, AllocateKeeps DEF valloc, Valloc, Unfilled
  <2>2. CASE pvalloc(n)
    <3> DEFINE m == Ceiling(n, PageSize)
    <3>1. m \in Nat
      BY <1>0, CeilingAbove
    <3>2. Allocate(MemalignNoStats(block, PageSize, m), Unfilled(m, Promised(PageSize, m)))
      BY <2>2 DEF pvalloc, Pvalloc, Valloc, Unfilled
    <3> HIDE DEF m
    <3> QED  BY <1>4, <3>1, <3>2, AllocateKeeps
  <2> QED  BY <1>5, <2>1, <2>2
<1>6. ASSUME NEW a \in Alignment, NEW n \in Nat, memalign(a, n) PROVE AllKept'
  BY <1>4, <1>6, AllocateKeeps DEF memalign, Unfilled
<1>7. ASSUME NEW a \in Alignment, NEW n \in Nat, cmemalign(a, n) PROVE AllKept'
  <2>1. \A out \in Cmemalign(block, a, n) :
          Gives(block, out, ZeroFilled(n, Promised(a, n)))
    BY <1>0, MemalignServes, ClearedGives DEF Cmemalign
  <2> QED  BY <1>7, <2>1, AllocateKeeps DEF cmemalign, ZeroFilled
<1>8. ASSUME NEW p \in Object
      PROVE  LET o == promise[p]
                 u == Found(block, p, o)
                 a == malloc_alignment(block, p)
             IN /\ p.b \in DOMAIN block /\ p # Null /\ Old(p) = o
                /\ DOMAIN block \subseteq Block
                /\ Kept(block[p.b], p, u) /\ IsPromise(o) /\ IsPromise(u) /\ Suited(a)
                /\ u = [o EXCEPT !.align = a] /\ u.align = a
                /\ o.realigned = FALSE => a = o.align
  <2>1. Stands(block[p.b], p, promise[p])
    BY DEF KeptInv, AllKept
  <2>2. /\ p.b \in DOMAIN block /\ p # Null /\ Old(p) = promise[p]
        /\ DOMAIN block \subseteq Block
    BY HeldIsNotNull DEF KeptInv, ObjectsInv, Old
  <2> QED  BY <2>1, <2>2, StandsFound DEF Found, IsPromise
<1>9. ASSUME NEW p \in Object, free(p) PROVE AllKept'
  <2>1. /\ block' = DoFree(block, p) /\ promise' = Without(promise, p)
        /\ errno' \in {0, ENOMEM}
    BY <1>9, ErrnoTyped DEF free, Returns, Done
  <2>2. Leaves(block, block', {p.b})
    BY <2>1 DEF DoFree, Without, Leaves
  <2> QED  BY <2>1, <2>2, ExchangeKeeps
<1>10. ASSUME NEW p \in Object, malloc_usable_size(p) PROVE AllKept'
  <2> DEFINE o == Widened(promise[p], DataSize(block, p))
             out == Done(Usable(block, p), p)
  <2>1. Returns(out, [promise EXCEPT ![p] = o])
    BY <1>10 DEF malloc_usable_size
  <2>2. Keeps(block, out, p, Widened(Found(block, p, promise[p]), DataSize(block, p)))
    BY <1>8, UsableKeeps
  <2>3. Kept(out.mem[p.b], p, Widened(Found(block, p, promise[p]), DataSize(block, p)))
    BY <2>2 DEF Keeps
  <2>4. Stands(out.mem[p.b], p, o)
    BY <1>8, <2>3, WidenedStands
  <2> HIDE DEF o, out
  <2>5. /\ block' = out.mem /\ promise' = [promise EXCEPT ![p] = o]
        /\ errno' \in {0, ENOMEM}
    BY <2>1, ErrnoTyped DEF Returns
  <2> QED  BY <2>2, <2>4, <2>5, UpdateKeeps DEF Keeps
<1>11. ASSUME NEW p \in Object, Write(p) PROVE AllKept'
  <2> DEFINE o == promise[p]
             u == Found(block, p, o)
             M == [block EXCEPT ![p.b].data =
                     [i \in DOMAIN @ |-> IF i - p.at \in 0 .. o.size - 1
                                         THEN Written(i - p.at) ELSE @[i]]]
  <2>1. block' = M /\ promise' = [promise EXCEPT ![p] = Filled(o)] /\ errno' \in {0, ENOMEM}
    BY <1>11 DEF Write, KeptInv, AllKept
  <2>2. u.size = o.size
    BY <1>8 DEF IsPromise
  <2>3. Leaves(block, M, {p.b}) /\ Kept(M[p.b], p, Filled(u))
    BY <1>8, <2>2, WrittenKept
  <2>4. Stands(M[p.b], p, Filled(o))
    BY <1>8, <2>3, FilledStands
  <2> HIDE DEF M, o
  <2> QED  BY <2>1, <2>3, <2>4, UpdateKeeps
<1>12. ASSUME NEW p \in Object, NEW n \in Nat, resize(p, n) PROVE AllKept'
  <2>1. \A out \in Resize(block, p, n) : Replaces(block, p, out, Unfilled(n, Align))
    BY <1>8, ResizeReplaces
  <2> QED  BY <1>12, <2>1, ResizesKeeps DEF resize, Unfilled
<1>13. ASSUME NEW p \in Object, NEW n \in Nat, realloc(p, n) \/ posix_realloc(p, n)
       PROVE  AllKept'
  <2> DEFINE u == Found(block, p, promise[p])
             g == Grown(u, n, u.align)
  <2>1. \A out \in Realloc(block, p, n) :
          /\ Trades(block, p, out, u, g)
          /\ Exchanges(DOMAIN block, p.b, out)
    BY <1>8, ReallocTrades, ReallocExchanges
  <2>2. PICK posix \in BOOLEAN :
          /\ posix = TRUE => errno # ENOMEM
          /\ Reallocates(p, Realloc(block, p, n), Reallocated(promise[p], n), posix)
    BY <1>8, <1>13 DEF realloc, posix_realloc
  <2>3. \A c, q : Kept(c, q, g) => Stands(c, q, Reallocated(promise[p], n))
    BY <1>8, GrownStands
  <2> QED  BY <2>1, <2>2, <2>3, ReallocatesKeeps
<1>14. ASSUME NEW p \in Object, NEW a \in Alignment, NEW n \in Nat, aligned_resize(p, a, n)
       PROVE  AllKept'
  <2>1. \A out \in AlignedResize(block, p, a, n) :
          Replaces(block, p, out, Unfilled(n, Promised(a, n)))
    BY <1>0, <1>8, AlignedResizeReplaces
  <2> QED  BY <1>14, <2>1, ResizesKeeps DEF aligned_resize, Unfilled
<1>15. ASSUME NEW p \in Object, NEW a \in Alignment, NEW n \in Nat,
              aligned_realloc(p, a, n) \/ posix_aligned_realloc(p, a, n)
       PROVE  AllKept'
  <2> DEFINE u == Found(block, p, promise[p])
             g == Grown(u, n, Promised(a, n))
             o == Aligned(Reallocated(promise[p], n), Promised(a, n))
  <2>1. \A out \in AlignedRealloc(block, p, a, n) :
          /\ Trades(block, p, out, u, g)
          /\ Exchanges(DOMAIN block, p.b, out)
    BY <1>0, <1>8, AlignedReallocTrades, AlignedReallocExchanges
  <2>2. PICK posix \in BOOLEAN :
          /\ posix = TRUE => errno # ENOMEM
          /\ Reallocates(p, AlignedRealloc(block, p, a, n), o, posix)
    BY <1>8, <1>15 DEF aligned_realloc, posix_aligned_realloc
  <2>3. \A c, q : Kept(c, q, g) => Stands(c, q, o)
    BY <1>8, AlignedStands
  <2> HIDE DEF o
  <2> QED  BY <2>1, <2>2, <2>3, ReallocatesKeeps
<1>16. ASSUME NEW n \in Nat, resize(Null, n) \/ realloc(Null, n) \/ posix_realloc(Null, n)
       PROVE  AllKept'
  <2>1. /\ Resize(block, Null, n) = DoMalloc(block, n)
        /\ Realloc(block, Null, n) = DoMalloc(block, n)
        /\ Old(Null).align = Align
    BY DEF Resize, Realloc, Old, NewObject
  <2>2. \A out \in DoMalloc(block, n) : Gives(block, out, Unfilled(n, Align))
    BY <1>0, DoMallocServes, ServesGives
  <2>3. CASE resize(Null, n)
    BY <2>1, <2>2, <2>3, NullKeeps DEF resize, Unfilled
  <2>4. CASE realloc(Null, n) \/ posix_realloc(Null, n)
    <3>1. PICK posix \in BOOLEAN :
            Reallocates(Null, DoMalloc(block, n), Reallocated(Old(Null), n), posix)
      BY <2>1, <2>4 DEF realloc, posix_realloc
    <3>2. Grown(Old(Null), n, Align) = Reallocated(Old(Null), n)
      BY OldNull, ReallocatedKeeps
    <3>3. \A out \in DoMalloc(block, n) : Gives(block, out, Reallocated(Old(Null), n))
      BY <1>0, <2>2, <3>2, NothingGrown
    <3> QED  BY <3>1, <3>3, NullKeeps
  <2> QED  BY <1>16, <2>3, <2>4
<1>17. ASSUME NEW a \in Alignment, NEW n \in Nat,
              \/ aligned_resize(Null, a, n) \/ aligned_realloc(Null, a, n)
              \/ posix_aligned_realloc(Null, a, n)
       PROVE  AllKept'
  <2> DEFINE outcomes == MemalignNoStats(block, a, n)
             q == Unfilled(n, Promised(a, n))
  <2>1. /\ AlignedResize(block, Null, a, n) = outcomes
        /\ AlignedRealloc(block, Null, a, n) = outcomes
    BY DEF AlignedResize, AlignedRealloc
  <2>2. \A out \in outcomes : Gives(block, out, q)
    BY <1>4
  <2>3. CASE aligned_resize(Null, a, n)
    <3>1. Resizes(Null, outcomes, q)
      BY <2>1, <2>3 DEF aligned_resize, Unfilled
    <3> HIDE DEF outcomes, q
    <3> QED  BY <2>2, <3>1, NullKeeps
  <2>4. CASE aligned_realloc(Null, a, n) \/ posix_aligned_realloc(Null, a, n)
    <3> DEFINE o == Aligned(Reallocated(Old(Null), n), Promised(a, n))
    <3>1. PICK posix \in BOOLEAN : Reallocates(Null, outcomes, o, posix)
      BY <2>1, <2>4 DEF aligned_realloc, posix_aligned_realloc
    <3>2. Grown(Old(Null), n, Promised(a, n)) = o
      BY OldNull, ReallocatedKeeps
    <3>3. \A out \in outcomes : Gives(block, out, o)
      BY <1>0, <2>2, <3>2, NothingGrown
    <3> HIDE DEF outcomes, o
    <3> QED  BY <3>1, <3>3, NullKeeps
  <2> QED  BY <1>17, <2>3, <2>4
<1>18. CASE ClearErrno
  BY <1>18 DEF ClearErrno, KeptInv, AllKept, Object
<1>19. ASSUME NEW n \in Size, malloc(n) \/ calloc(n) \/ valloc(n) \/ pvalloc(n)
       PROVE  AllKept'
  BY <1>0, <1>2, <1>3, <1>5, <1>19
<1>20. ASSUME NEW a \in Alignment, NEW n \in Size,
              \/ memalign(a, n) \/ aligned_alloc(a, n) \/ cmemalign(a, n)
              \/ posix_memalign(a, n)
       PROVE  AllKept'
  BY <1>0, <1>6, <1>7, <1>20 DEF aligned_alloc, posix_memalign
<1>21. ASSUME NEW p \in Object \cup {Null}, NEW n \in Size,
              resize(p, n) \/ realloc(p, n) \/ posix_realloc(p, n)
       PROVE  AllKept'
  BY <1>0, <1>12, <1>13, <1>16, <1>21
<1>22. ASSUME NEW p \in Object \cup {Null}, NEW a \in Alignment, NEW n \in Size,
              \/ aligned_resize(p, a, n) \/ aligned_realloc(p, a, n)
              \/ posix_aligned_realloc(p, a, n)
       PROVE  AllKept'
  BY <1>0, <1>14, <1>15, <1>17, <1>22
<1> QED  BY <1>1, <1>9, <1>10, <1>11, <1>18, <1>19, <1>20, <1>21, <1>22 DEF Next

-------------------------------------------------------------------------------
(* Objects are kept as promised in every behaviour. *)
LEMMA KeptInvariant == StaleErrno = FALSE /\ Spec => []KeptInv
<1> SUFFICES ASSUME StaleErrno = FALSE
             PROVE  Spec => []KeptInv
  OBVIOUS
<1>1. Init => KeptInv
  BY DEF Init, KeptInv, AllKept, ObjectsInv, OneBlockEach, Object
<1>2. KeptInv /\ [Next]_vars => KeptInv'
  BY StepKeeps, ObjectsStep DEF KeptInv
<1> QED  BY <1>1, <1>2, PTL DEF Spec

(* Headers and storage stay in their ranges, also those of objects that     *)
(* were aligned, moved and resized in any order: what is mapped is a number *)
(* of pages and all else is a block of a bucket.                            *)
THEOREM TypeCorrect == StaleErrno = FALSE /\ Spec => []TypeOK
<1>1. KeptInv => TypeOK
  <2> SUFFICES ASSUME KeptInv PROVE TypeOK
    OBVIOUS
  <2>1. \A p \in Object : \E o : Kept(block[p.b], p, o)
    BY DEF KeptInv, AllKept, Stands
  <2>2. DOMAIN block = {p.b : p \in Object}
    BY DEF KeptInv, ObjectsInv, OneBlockEach
  <2>3. \A b \in DOMAIN block : IsStorage(block[b])
    BY <2>1, <2>2 DEF Kept
  <2>4. errno \in {0, ENOMEM} /\ DOMAIN block \subseteq Block
    BY DEF KeptInv, AllKept, ObjectsInv
  <2>5. Object \subseteq [b : Block, at : Nat]
    BY <2>1 DEF Kept, Placed
  <2> QED  BY <2>3, <2>4, <2>5 DEF TypeOK, IsStorage
<1> QED  BY <1>1, KeptInvariant, PTL

(* After any sequence of calls, in place or by copy, aligned or not, and    *)
(* whichever of them fail, the headers say what was promised, and the bytes *)
(* that were promised are found.                                            *)
THEOREM PromisesKept == StaleErrno = FALSE /\ Spec => []PromiseKept
<1>1. KeptInv => PromiseKept
  <2> SUFFICES ASSUME KeptInv, NEW p \in Object
               PROVE  /\ malloc_request_size(block, p) = promise[p].size
                      /\ malloc_zero_fill(block, p) = promise[p].zero
                      /\ \/ promise[p].realigned
                         \/ malloc_alignment(block, p) = promise[p].align
                      /\ \A i \in 0 .. promise[p].size - 1 :
                           promise[p].bytes[i] \in {Unknown, block[p.b].data[p.at + i]}
    BY DEF PromiseKept
  <2> DEFINE o == promise[p]
             u == Found(block, p, o)
  <2>1. /\ Kept(block[p.b], p, u) /\ IsPromise(o)
        /\ o.realigned = FALSE => malloc_alignment(block, p) = o.align
    BY StandsFound DEF KeptInv, AllKept
  <2>2. u.size = o.size /\ u.zero = o.zero /\ u.bytes = o.bytes /\ o.realigned \in BOOLEAN
    BY <2>1 DEF IsPromise, Found
  <2> HIDE DEF u
  <2> QED  BY <2>1, <2>2 DEF Kept, Placed, malloc_request_size, malloc_zero_fill
<1> QED  BY <1>1, KeptInvariant, PTL

(* The header of an object always leads back to its block, and the object   *)
(* lies in the block at an address of its alignment, for any bucket sizes,  *)
(* page length and alignments that are multiples of the least.              *)
THEOREM ObjectsInside == StaleErrno = FALSE /\ Spec => []InsideBlock
<1>1. KeptInv => InsideBlock
  <2> SUFFICES ASSUME KeptInv, NEW p \in Object
               PROVE  /\ RealHeaderAt(block, p) = 0
                      /\ Address(block, p) % malloc_alignment(block, p) = 0
                      /\ p.at + promise[p].size <= block[p.b].bsize
    BY DEF InsideBlock
  <2> DEFINE u == Found(block, p, promise[p])
  <2>1. Kept(block[p.b], p, u) /\ IsPromise(promise[p])
    BY StandsFound DEF KeptInv, AllKept
  <2>2. RealHeaderAt(block, p) = 0 /\ malloc_alignment(block, p) = u.align
    BY <2>1, HeadersRight
  <2>3. u.size = promise[p].size
    BY <2>1 DEF IsPromise, Found
  <2> HIDE DEF u
  <2> QED  BY <2>1, <2>2, <2>3 DEF Kept, Placed, Address
<1> QED  BY <1>1, KeptInvariant, PTL
===============================================================================
