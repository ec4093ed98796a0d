--------------------------- MODULE LookupTableProofs ---------------------------
(***************************************************************************)
(* The table that heapMasterCtor fills is right, for every table of bucket *)
(* sizes: the loop's index is always the smallest bucket of the size       *)
(* before the one it looks at.  And it is the table that SizeClasses is    *)
(* about, so that the theorems about Spec hold after the boot.             *)
(***************************************************************************)
EXTENDS SizesBoot, TLAPS

Filled == 0 .. FilledBuckets - 1

(* What the loop goes through is the beginning of the table.                *)
LEMMA FilledFacts ==
  /\ Filled \subseteq Bucket
  /\ Ctor!Bucket = Filled
  /\ \A b \in Filled : b \in Nat /\ FirstBuckets[b] = bucketSizes[b] /\ bucketSizes[b] \in Nat
  /\ \A b, c \in Filled : b < c => bucketSizes[b] < bucketSizes[c]
  /\ FilledBuckets \in 1 .. 256
<1> USE BucketAssumption, FilledAssumption DEF Filled, Bucket
<1>1. Filled \subseteq Bucket /\ FilledBuckets \in 1 .. 256
  OBVIOUS
<1>2. Ctor!Bucket = Filled
  BY DEF Ctor!Bucket
<1>3. \A b \in Filled : b \in Nat /\ FirstBuckets[b] = bucketSizes[b] /\ bucketSizes[b] \in Nat
  BY <1>1 DEF FirstBuckets
<1>4. \A b, c \in Filled : b < c => bucketSizes[b] < bucketSizes[c]
  BY <1>1
<1> QED BY <1>1, <1>2, <1>3, <1>4

(* The smallest bucket among the first ones is the smallest of all.         *)
LEMMA FirstIsSmallest ==
  ASSUME NEW b, NEW n
  PROVE  Ctor!Smallest(b, n) <=> b \in Filled /\ Smallest(b, n)
<1>1. ASSUME b \in Filled PROVE \A j \in Bucket : j < b => j \in Filled
  BY <1>1, FilledFacts, BucketAssumption, FilledAssumption DEF Filled, Bucket
<1> QED BY <1>1, FilledFacts DEF Ctor!Smallest, Smallest

(* A size has one smallest bucket. *)
LEMMA OneSmallest ==
  ASSUME NEW n \in Nat, NEW b, NEW c, Smallest(b, n), Smallest(c, n)
  PROVE  b = c
<1> USE BucketAssumption DEF Bucket, Smallest
<1>1. ~ (b < c)
  OBVIOUS
<1>2. ~ (c < b)
  OBVIOUS
<1> QED BY <1>1, <1>2
-------------------------------------------------------------------------------
(* The two indices of the loop are in step. *)
InStep ==
  /\ c_i = 0 => c_idx = 0
  /\ c_i > 0 => Ctor!Smallest(c_idx, c_i - 1)

LoopInv == Ctor!TypeOK /\ Ctor!LookupRight /\ InStep

(* The bucket that the loop moves to is the smallest of the size it is at,  *)
(* and the always_assert of heapMasterCtor accepts it.                      *)
LEMMA NextBucketRight ==
  ASSUME LoopInv, c_i < FilledSizes
  PROVE  Ctor!Smallest(Ctor!NextBucket, c_i) /\ Ctor!Checked(Ctor!NextBucket)
<1> DEFINE next == Ctor!NextBucket
<1>1. c_i \in Nat /\ c_idx \in Filled /\ c_idx \in Nat
  BY FilledFacts, FilledAssumption DEF LoopInv, Ctor!TypeOK
<1>2. next = IF c_i > bucketSizes[c_idx] THEN c_idx + 1 ELSE c_idx
  BY <1>1, FilledFacts DEF Ctor!NextBucket
<1> HIDE DEF next
<1>3. Ctor!Smallest(next, c_i)
  <2>1. CASE c_i = 0
    <3>1. c_idx = 0 /\ next = 0
      BY <1>1, <1>2, <2>1, FilledFacts DEF LoopInv, InStep
    <3> QED BY <1>1, <2>1, <3>1, FilledFacts DEF Ctor!Smallest
  <2>2. CASE c_i > 0 /\ c_i <= bucketSizes[c_idx]
    <3>1. next = c_idx
      BY <1>1, <1>2, <2>2, FilledFacts
    <3>2. Ctor!Smallest(c_idx, c_i - 1)
      BY <2>2 DEF LoopInv, InStep
    <3> QED BY <1>1, <2>2, <3>1, <3>2, FilledFacts DEF Ctor!Smallest
  <2>3. CASE c_i > 0 /\ c_i > bucketSizes[c_idx]
    <3>1. next = c_idx + 1
      BY <1>2, <2>3
    <3>2. Ctor!Smallest(c_idx, c_i - 1)
      BY <2>3 DEF LoopInv, InStep
    <3>3. bucketSizes[c_idx] = c_i - 1
      BY <1>1, <2>3, <3>2, FilledFacts DEF Ctor!Smallest
    <3>4. c_idx + 1 \in Filled
      <4>1. bucketSizes[c_idx] < bucketSizes[FilledBuckets - 1]
        <5>1. FilledBuckets - 1 \in Filled
          BY FilledFacts DEF Filled
        <5> QED BY <1>1, <3>3, <5>1, FilledAssumption, FilledFacts
      <4> QED BY <1>1, <4>1, FilledFacts DEF Filled
    <3>5. \A j \in Filled : j < c_idx + 1 => bucketSizes[j] <= bucketSizes[c_idx]
      BY <1>1, FilledFacts
    <3>6. bucketSizes[c_idx] < bucketSizes[c_idx + 1]
      BY <1>1, <3>4, FilledFacts
    <3> QED BY <1>1, <3>1, <3>3, <3>4, <3>5, <3>6, FilledFacts DEF Ctor!Smallest
  <2> QED BY <1>1, <2>1, <2>2, <2>3, FilledFacts
<1>4. Ctor!Checked(next)
  BY <1>1, <1>3, FilledFacts DEF Ctor!Checked, Ctor!Smallest
<1> QED BY <1>3, <1>4 DEF next

(* One iteration keeps the invariant. *)
LEMMA FillKeeps == LoopInv /\ Ctor!Fill => LoopInv'
<1> SUFFICES ASSUME LoopInv, Ctor!Fill
             PROVE  LoopInv'
  OBVIOUS
<1> DEFINE next == Ctor!NextBucket
<1>1. /\ c_i < FilledSizes
      /\ c_i \in 0 .. FilledSizes
      /\ Ctor!Smallest(next, c_i)
      /\ Ctor!Checked(next)
  BY NextBucketRight DEF Ctor!Fill, LoopInv, Ctor!TypeOK
<1>2. /\ next \in Filled
      /\ next % 256 = next
  <2>1. next \in Filled
    BY <1>1, FilledFacts DEF Ctor!Smallest
  <2> HIDE DEF next
  <2> QED BY <2>1, FilledFacts DEF Filled
<1>3. /\ c_i' = c_i + 1
      /\ c_idx' = next
      /\ c_aborted' = FALSE
      /\ c_lookup' = [c_lookup EXCEPT ![c_i] = next]
  BY <1>1, <1>2 DEF Ctor!Fill
<1> HIDE DEF next
<1>4. Ctor!TypeOK'
  <2>1. c_i' \in 0 .. FilledSizes
    BY <1>1, <1>3, FilledAssumption
  <2>2. next \in 0 .. 255
    BY <1>2, FilledFacts DEF Filled
  <2>3. c_lookup' \in [0 .. FilledSizes - 1 -> 0 .. 255]
    BY <1>3, <2>2 DEF LoopInv, Ctor!TypeOK
  <2> QED BY <1>2, <1>3, <2>1, <2>3, FilledFacts DEF Ctor!TypeOK, Ctor!Bucket
<1>5. Ctor!LookupRight'
  <2>1. c_lookup'[c_i] = next
    BY <1>1, <1>3, FilledAssumption DEF LoopInv, Ctor!TypeOK
  <2>2. \A n \in 0 .. c_i - 1 : c_lookup'[n] = c_lookup[n]
    BY <1>1, <1>3, FilledAssumption DEF LoopInv, Ctor!TypeOK
  <2>3. \A n \in 0 .. c_i : Ctor!Smallest(c_lookup'[n], n)
    <3>1. \A n \in 0 .. c_i - 1 : Ctor!Smallest(c_lookup[n], n)
      BY DEF LoopInv, Ctor!LookupRight
    <3> QED BY <1>1, <2>1, <2>2, <3>1, FilledAssumption
  <2>4. c_i' - 1 = c_i
    BY <1>1, <1>3, FilledAssumption
  <2> QED BY <1>3, <2>3, <2>4 DEF Ctor!LookupRight, Ctor!Smallest, Ctor!Bucket
<1>6. InStep'
  BY <1>1, <1>3, FilledAssumption DEF InStep, Ctor!Smallest, Ctor!Bucket
<1> QED BY <1>4, <1>5, <1>6 DEF LoopInv

LEMMA LoopInit == Ctor!Init => LoopInv
<1> SUFFICES ASSUME Ctor!Init PROVE LoopInv
  OBVIOUS
<1>1. c_i \in 0 .. FilledSizes /\ c_idx \in Ctor!Bucket
  BY FilledAssumption, FilledFacts DEF Ctor!Init, Filled
<1>2. c_lookup \in [0 .. FilledSizes - 1 -> 0 .. 255]
  BY DEF Ctor!Init
<1>3. Ctor!LookupRight /\ InStep
  BY DEF Ctor!Init, Ctor!LookupRight, InStep
<1> QED BY <1>1, <1>2, <1>3 DEF Ctor!Init, LoopInv, Ctor!TypeOK

LEMMA LoopStutters == LoopInv /\ UNCHANGED ctor => LoopInv'
BY DEF LoopInv, ctor, Ctor!TypeOK, Ctor!LookupRight, InStep, Ctor!Smallest, Ctor!Bucket

LEMMA LoopInvariant == BootSpec => []LoopInv
<1>1. BootInit => LoopInv
  BY LoopInit DEF BootInit
<1>2. LoopInv /\ [BootNext]_<<vars, ctor>> => LoopInv'
  BY FillKeeps, LoopStutters DEF BootNext, Ctor!Next
<1> QED BY <1>1, <1>2, PTL DEF BootSpec

(* heapMasterCtor fills lookup with the smallest bucket of each size and    *)
(* does not abort, whatever the table of bucket sizes is.                   *)
THEOREM TableRight == BootSpec => []LookupRight
<1>1. LoopInv => LookupRight
  BY DEF LoopInv, LookupRight
<1> QED BY <1>1, LoopInvariant, PTL

(* The table that doMalloc reads is the one that the loop has made: there   *)
(* is but one that is right.                                                *)
THEOREM TableUsed == BootSpec => []TableFilled
<1>1. LoopInv => TableFilled
  <2> SUFFICES ASSUME LoopInv, c_i = FilledSizes, NEW n \in 0 .. FilledSizes - 1
               PROVE  c_lookup[n] = lookup[n]
    BY DEF TableFilled
  <2>1. Smallest(c_lookup[n], n)
    BY FirstIsSmallest DEF LoopInv, Ctor!LookupRight
  <2>2. n \in 0 .. LookupSizes - 1
    BY FilledAssumption, BucketAssumption
  <2>3. Smallest(lookup[n], n)
    BY <2>2, LookupAssumption
  <2> QED BY <2>1, <2>3, OneSmallest, FilledAssumption
<1> QED BY <1>1, LoopInvariant, PTL

(* After the boot, and during it, Spec holds, and what is proved of it.     *)
THEOREM BootKeeps == BootSpec => Spec
<1>1. BootInit => Init
  BY DEF BootInit
<1>2. [BootNext]_<<vars, ctor>> => [Next]_vars
  BY DEF BootNext
<1> QED BY <1>1, <1>2, PTL DEF BootSpec, Spec
===============================================================================
