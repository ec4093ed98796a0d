--------------------------- MODULE SizeClassesProofs ---------------------------
(***************************************************************************)
(* What the choice of a bucket guarantees, for every table of bucket       *)
(* sizes, any number of threads and any calls of mallopt beside them: of   *)
(* the remainder of a buffer, of a request, and of the two words that      *)
(* mallopt writes.                                                         *)
(***************************************************************************)
EXTENDS SizeClasses, TLAPS

(* Entries below the window of the search are smaller than the key. *)
Below(t) == \A j \in Bucket : j < l[t] => bucketSizes[j] < key[t]

(* Entries above the window are not. *)
Above(t) == \A j \in Bucket : j >= h[t] => key[t] <= bucketSizes[j]

(* What the locals of t hold at each place. *)
Locals(t) ==
  /\ pc[t] = "test" => op[t] = "malloc" /\ arg[t] \in Nat
  /\ pc[t] = "startSearch" =>
       op[t] = "mallopt" /\ arg[t] \in Nat /\ ValidStart(arg[t])
  /\ pc[t] \in {"choose", "search", "found"} =>
       /\ arg[t] \in Nat
       /\ key[t] \in Nat
       /\ op[t] # "none"
       /\ op[t] = "malloc" => key[t] = arg[t] + StorageSize
       /\ op[t] = "fragment" => key[t] = arg[t] /\ arg[t] >= bucketSizes[0]
       /\ op[t] = "mallopt" => ValidStart(key[t])
  /\ pc[t] = "choose" => op[t] # "mallopt"
  /\ pc[t] = "search" =>
       /\ l[t] \in 0 .. NoBucketSizes
       /\ h[t] \in 0 .. NoBucketSizes
       /\ l[t] <= h[t]
       /\ Below(t)
       /\ op[t] # "mallopt" => h[t] \in Bucket
       /\ op[t] = "mallopt" => Above(t)
       /\ op[t] # "mallopt" => key[t] >= LookupSizes
  /\ pc[t] = "found" =>
       /\ l[t] \in Bucket
       /\ Below(t)
       /\ op[t] = "mallopt" => Smallest(l[t], key[t])
       /\ op[t] # "mallopt" /\ key[t] < LookupSizes => Smallest(l[t], key[t])
  /\ pc[t] = "chosen" =>
       /\ arg[t] \in Nat
       /\ freeHead[t] \in Bucket
       /\ op[t] = "malloc" /\ arg[t] + StorageSize < LookupSizes =>
            Smallest(freeHead[t], arg[t] + StorageSize)
       /\ op[t] = "fragment" =>
            /\ bucketSizes[freeHead[t]] <= arg[t]
            /\ arg[t] < LookupSizes =>
                 \A b \in Bucket : bucketSizes[b] <= arg[t] => b <= freeHead[t]

Inv ==
  /\ TypeOK
  /\ ValidStart(mmapStart)
  /\ \A t \in Thread : Locals(t)

(* What t knows in mallopt when it overlaps no other call.                  *)
MalloptAlone(t) ==
  op[t] = "mallopt" =>
    /\ pc[t] \in {"startSearch", "search", "found"}
    /\ ~overlap =>
         /\ \A u \in Thread : op[u] = "mallopt" => u = t
         /\ pc[t] = "startSearch" => arg[t] = mmapStart
         /\ pc[t] \in {"search", "found"} => key[t] = mmapStart

(* What t knows in malloc when no mallopt overlaps it.                      *)
MallocAlone(t) ==
  op[t] = "malloc" /\ t \notin raced =>
    /\ ~overlap /\ ~InMallopt
    /\ pc[t] = "search" /\ key[t] <= mmapStart => Above(t)
    /\ pc[t] = "found" /\ key[t] <= mmapStart => Smallest(l[t], key[t])
    /\ pc[t] = "chosen" /\ arg[t] + StorageSize <= mmapStart =>
         Smallest(freeHead[t], arg[t] + StorageSize)

RaceInv ==
  /\ \A t \in Thread : MalloptAlone(t) /\ MallocAlone(t)
  /\ LimitAgrees
-------------------------------------------------------------------------------
USE DEF history

(* The initial state. *)
LEMMA InitInv == Init => Inv /\ RaceInv
<1> SUFFICES ASSUME Init
             PROVE  Inv /\ RaceInv
  OBVIOUS
<1> USE BucketAssumption, SizesAssumption
<1>1. TypeOK /\ ValidStart(mmapStart)
  BY DEF Init, TypeOK, Label, Smallest
<1>2. \A t \in Thread : Locals(t) /\ MalloptAlone(t) /\ MallocAlone(t)
  BY DEF Init, Locals, MalloptAlone, MallocAlone
<1>3. LimitAgrees
  BY DEF Init, LimitAgrees
<1>. QED BY <1>1, <1>2, <1>3 DEF Inv, RaceInv

(* The middle of a window that is not empty is an entry of the table.       *)
LEMMA Middle ==
  ASSUME NEW a \in 0 .. NoBucketSizes, NEW b \in 0 .. NoBucketSizes, a < b
  PROVE  /\ (a + b) \div 2 \in Bucket
         /\ a <= (a + b) \div 2
         /\ (a + b) \div 2 < b
BY BucketAssumption DEF Bucket

(* The neighbours of an index, and the order of the table. *)
LEMMA Index ==
  /\ \A b \in Bucket : b \in 0 .. NoBucketSizes /\ b + 1 \in 0 .. NoBucketSizes
  /\ \A b \in Bucket : b # 0 => b - 1 \in Bucket /\ b - 1 < b
BY BucketAssumption DEF Bucket

LEMMA Increasing ==
  \A a, b \in Bucket : a <= b => bucketSizes[a] <= bucketSizes[b]
BY BucketAssumption DEF Bucket

(* t may change its own locals only. *)
Only(t) ==
  \A u \in Thread : u # t =>
    /\ pc'[u] = pc[u] /\ op'[u] = op[u] /\ arg'[u] = arg[u] /\ key'[u] = key[u]
    /\ l'[u] = l[u] /\ h'[u] = h[u] /\ freeHead'[u] = freeHead[u]

(* The steps of t keep the locals of the others. *)
LEMMA StepOnly ==
  ASSUME TypeOK, NEW t \in Thread, Step(t)
  PROVE  Only(t)
BY DEF TypeOK, Step, Only, CallMalloc, CallFragment, CallMallopt, TestSize,
       Choose, Probe, SearchEnds, MallocBucket, FragmentBucket, Done, StartSearch,
       SetMax, Return, Goto, Chosen, Search

(* What t holds of its locals is enough to know for the thread that steps.  *)
LEMMA OthersKeep ==
  ASSUME Inv, NEW t \in Thread, Only(t), NEW u \in Thread, u # t
  PROVE  Locals(u)'
<1>1. Locals(u)
  BY DEF Inv
<1>2. /\ pc'[u] = pc[u] /\ op'[u] = op[u] /\ arg'[u] = arg[u] /\ key'[u] = key[u]
      /\ l'[u] = l[u] /\ h'[u] = h[u] /\ freeHead'[u] = freeHead[u]
  BY DEF Only
<1>3. Locals(u)' = Locals(u)
  BY <1>2 DEF Locals, Below, Above, Smallest, ValidStart
<1>. QED BY <1>1, <1>3
-------------------------------------------------------------------------------
(* A call is given a number. *)
LEMMA Inputs ==
  \A t \in Thread :
    Request[t] \subseteq Nat /\ Remainder[t] \subseteq Nat /\ Threshold[t] \subseteq Nat
BY SizesAssumption

(* CallMalloc. *)
LEMMA CallMallocKeeps ==
  ASSUME Inv, NEW t \in Thread, NEW n \in Request[t], CallMalloc(t, n)
  PROVE  TypeOK' /\ ValidStart(mmapStart)' /\ Locals(t)'
<1> USE BucketAssumption, SizesAssumption, LookupAssumption DEF Inv
<1> n \in Nat
  BY Inputs
<1>1. TypeOK'
  BY DEF TypeOK, Locals, Label, Bucket, CallMalloc, Goto
<1>2. ValidStart(mmapStart)'
  BY DEF ValidStart, CallMalloc, Goto
<1>3. Locals(t)'
  BY DEF TypeOK, Locals, Below, Above, Smallest, ValidStart, Bucket, CallMalloc, Goto
<1>. QED BY <1>1, <1>2, <1>3

(* CallFragment. *)
LEMMA CallFragmentKeeps ==
  ASSUME Inv, NEW t \in Thread, NEW n \in Remainder[t], CallFragment(t, n)
  PROVE  TypeOK' /\ ValidStart(mmapStart)' /\ Locals(t)'
<1> USE BucketAssumption, SizesAssumption, LookupAssumption DEF Inv
<1> n \in Nat
  BY Inputs
<1>1. TypeOK'
  BY DEF TypeOK, Locals, Label, Bucket, CallFragment, Goto
<1>2. ValidStart(mmapStart)'
  BY DEF ValidStart, CallFragment, Goto
<1>3. Locals(t)'
  BY DEF TypeOK, Locals, Below, Above, Smallest, ValidStart, Bucket, CallFragment, Goto
<1>. QED BY <1>1, <1>2, <1>3

(* CallMallopt. *)
LEMMA CallMalloptKeeps ==
  ASSUME Inv, NEW t \in Thread, NEW n \in Threshold[t], CallMallopt(t, n)
  PROVE  TypeOK' /\ ValidStart(mmapStart)' /\ Locals(t)'
<1> USE BucketAssumption, SizesAssumption, LookupAssumption DEF Inv
<1> n \in Nat
  BY Inputs
<1>1. TypeOK'
  <2>1. overlap' \in BOOLEAN /\ raced' \subseteq Thread
    BY DEF TypeOK, CallMallopt, InMallopt
  <2>2. mmapStart' \in Nat
    BY DEF CallMallopt
  <2>3. pc' \in [Thread -> Label] /\ arg' \in [Thread -> Nat \cup {None}]
    BY DEF TypeOK, Label, CallMallopt, Goto
  <2>4. op' \in [Thread -> {"none", "malloc", "fragment", "mallopt"}]
    BY DEF TypeOK, CallMallopt
  <2>. QED BY <2>1, <2>2, <2>3, <2>4 DEF TypeOK, CallMallopt
<1>2. ValidStart(mmapStart)'
  BY DEF ValidStart, CallMallopt, Goto, ValidStart
<1>3. Locals(t)'
  BY DEF TypeOK, Locals, Below, Above, Smallest, ValidStart, Bucket, CallMallopt, Goto, ValidStart
<1>. QED BY <1>1, <1>2, <1>3

(* TestSize. *)
LEMMA TestSizeKeeps ==
  ASSUME Inv, NEW t \in Thread, TestSize(t)
  PROVE  TypeOK' /\ ValidStart(mmapStart)' /\ Locals(t)'
<1> USE BucketAssumption, SizesAssumption, LookupAssumption DEF Inv
<1>1. TypeOK'
  <2>1. CASE arg[t] < mmapStart
    <3>1. arg[t] + StorageSize \in Nat
      BY DEF TestSize, Locals
    <3>. QED BY <2>1, <3>1 DEF TypeOK, Label, TestSize, Goto
  <2>2. CASE ~(arg[t] < mmapStart)
    BY <2>2 DEF TypeOK, Label, TestSize, Goto, Return
  <2>. QED BY <2>1, <2>2
<1>2. ValidStart(mmapStart)'
  BY DEF ValidStart, TestSize, Goto, Return
<1>3. Locals(t)'
  BY DEF TypeOK, Locals, Below, Above, Smallest, ValidStart, Bucket, TestSize, Goto, Return
<1>. QED BY <1>1, <1>2, <1>3

(* Choose. *)
LEMMA ChooseKeeps ==
  ASSUME Inv, NEW t \in Thread, Choose(t)
  PROVE  TypeOK' /\ ValidStart(mmapStart)' /\ Locals(t)'
<1> USE BucketAssumption, SizesAssumption, LookupAssumption DEF Inv
<1>1. TypeOK'
  <2>1. CASE key[t] < LookupSizes
    <3>1. lookup[key[t]] \in Bucket
      BY <2>1 DEF Choose, Locals, Smallest
    <3>2. l' = [l EXCEPT ![t] = lookup[key[t]]]
      BY <2>1 DEF Choose
    <3>3. l' \in [Thread -> 0 .. NoBucketSizes \cup {None}]
      BY <3>1, <3>2 DEF TypeOK, Bucket
    <3>. QED BY <2>1, <3>3 DEF TypeOK, Label, Choose, Goto
  <2>2. CASE ~(key[t] < LookupSizes)
    <3>1. maxBucketsUsed \in 0 .. NoBucketSizes /\ 0 \in 0 .. NoBucketSizes
      BY DEF TypeOK, Bucket
    <3>2. key[t] \in Nat
      BY DEF Choose, Locals
    <3>. QED BY <2>2, <3>1, <3>2 DEF TypeOK, Label, Choose, Goto, Search
  <2>. QED BY <2>1, <2>2
<1>2. ValidStart(mmapStart)'
  BY DEF ValidStart, Choose, Goto, Search
<1>3. Locals(t)'
  <2>1. CASE key[t] < LookupSizes
    <3>1. Smallest(lookup[key[t]], key[t])
      BY <2>1 DEF Choose, Locals
    <3>. QED BY <2>1, <3>1 DEF TypeOK, Locals, Below, Smallest, Bucket, Choose, Goto
  <2>2. CASE ~(key[t] < LookupSizes)
    BY <2>2 DEF TypeOK, Locals, Below, Above, Smallest, ValidStart, Bucket, Choose, Goto, Search
  <2>. QED BY <2>1, <2>2
<1>. QED BY <1>1, <1>2, <1>3

(* Probe. *)
LEMMA ProbeKeeps ==
  ASSUME Inv, NEW t \in Thread, Probe(t)
  PROVE  TypeOK' /\ ValidStart(mmapStart)' /\ Locals(t)'
<1> USE BucketAssumption, SizesAssumption, LookupAssumption DEF Inv
<1> DEFINE m == (l[t] + h[t]) \div 2
<1>1. /\ Locals(t)
      /\ pc[t] = "search"
      /\ l[t] \in 0 .. NoBucketSizes
      /\ h[t] \in 0 .. NoBucketSizes
      /\ l[t] < h[t]
      /\ key[t] \in Nat
  BY DEF Probe, Locals
<1>2. m \in Bucket /\ l[t] <= m /\ m < h[t]
  BY <1>1, Middle
<1>3. \/ bucketSizes[m] < key[t] /\ l' = [l EXCEPT ![t] = m + 1] /\ h' = h
      \/ bucketSizes[m] >= key[t] /\ h' = [h EXCEPT ![t] = m] /\ l' = l
  BY DEF Probe
<1>4. UNCHANGED <<mmapStart, maxBucketsUsed, pc, op, arg, key, freeHead, overlap, raced>>
  BY DEF Probe
<1> HIDE DEF m
<1>5. CASE bucketSizes[m] < key[t] /\ l' = [l EXCEPT ![t] = m + 1] /\ h' = h
  <2>1. m + 1 \in 0 .. NoBucketSizes
    BY <1>2 DEF Bucket
  <2>2. TypeOK'
    BY <1>4, <1>5, <2>1 DEF TypeOK
  <2>3. l'[t] = m + 1
    BY <1>5 DEF TypeOK
  <2>4. \A j \in Bucket : j < m + 1 => bucketSizes[j] <= bucketSizes[m]
    BY <1>2 DEF Bucket
  <2>5. \A j \in Bucket : j < m + 1 => bucketSizes[j] < key[t]
    BY <1>1, <1>2, <1>5, <2>4
  <2>6. Below(t)'
    BY <1>4, <2>3, <2>5 DEF Below
  <2>7. Above(t)' <=> Above(t)
    BY <1>4, <1>5 DEF Above
  <2>8. h'[t] = h[t] /\ l'[t] <= h'[t] /\ l'[t] \in 0 .. NoBucketSizes
    BY <1>1, <1>2, <1>5, <2>1, <2>3 DEF Bucket
  <2>9. ValidStart(mmapStart)' /\ (\A v : ValidStart(v)' <=> ValidStart(v))
    BY <1>4 DEF ValidStart
  <2>10. Locals(t)'
    BY <1>1, <1>4, <2>6, <2>7, <2>8, <2>9 DEF Locals
  <2>. QED BY <2>2, <2>9, <2>10
<1>6. CASE bucketSizes[m] >= key[t] /\ h' = [h EXCEPT ![t] = m] /\ l' = l
  <2>1. m \in 0 .. NoBucketSizes
    BY <1>2, Index
  <2>2. TypeOK'
    BY <1>4, <1>6, <2>1 DEF TypeOK
  <2>3. h'[t] = m
    BY <1>6 DEF TypeOK
  <2>4. \A j \in Bucket : j >= m => bucketSizes[j] >= bucketSizes[m]
    BY <1>2, Increasing
  <2>5. \A j \in Bucket : j >= m => key[t] <= bucketSizes[j]
    BY <1>1, <1>2, <1>6, <2>4
  <2>. QED
    BY <1>1, <1>2, <1>4, <1>6, <2>1, <2>2, <2>3, <2>5
    DEF Locals, Below, Above, ValidStart
<1>. QED BY <1>3, <1>5, <1>6

(* SearchEnds. *)
LEMMA SearchEndsKeeps ==
  ASSUME Inv, NEW t \in Thread, SearchEnds(t)
  PROVE  TypeOK' /\ ValidStart(mmapStart)' /\ Locals(t)'
<1> USE BucketAssumption, SizesAssumption, LookupAssumption DEF Inv
<1>1. TypeOK'
  BY DEF TypeOK, Locals, Label, Bucket, SearchEnds, Goto
<1>2. ValidStart(mmapStart)'
  BY DEF ValidStart, SearchEnds, Goto
<1>3. Locals(t)'
  BY DEF TypeOK, Locals, Below, Above, Smallest, ValidStart, Bucket, SearchEnds, Goto
<1>. QED BY <1>1, <1>2, <1>3

(* MallocBucket. *)
LEMMA MallocBucketKeeps ==
  ASSUME Inv, NEW t \in Thread, MallocBucket(t)
  PROVE  TypeOK' /\ ValidStart(mmapStart)' /\ Locals(t)'
<1> USE BucketAssumption, SizesAssumption, LookupAssumption DEF Inv
<1>1. TypeOK'
  BY DEF TypeOK, Locals, Label, Bucket, MallocBucket, Goto, Chosen
<1>2. ValidStart(mmapStart)'
  BY DEF ValidStart, MallocBucket, Goto, Chosen
<1>3. Locals(t)'
  BY DEF TypeOK, Locals, Below, Above, Smallest, ValidStart, Bucket, MallocBucket, Goto, Chosen
<1>. QED BY <1>1, <1>2, <1>3

(* FragmentBucket. *)
LEMMA FragmentBucketKeeps ==
  ASSUME Inv, NEW t \in Thread, FragmentBucket(t)
  PROVE  TypeOK' /\ ValidStart(mmapStart)' /\ Locals(t)'
<1> USE BucketAssumption, SizesAssumption, LookupAssumption DEF Inv
<1> DEFINE b == IF bucketSizes[l[t]] > arg[t] THEN l[t] - 1 ELSE l[t]
<1>1. /\ Locals(t)
      /\ l[t] \in Bucket
      /\ arg[t] \in Nat
      /\ key[t] = arg[t]
      /\ arg[t] >= bucketSizes[0]
      /\ Below(t)
      /\ arg[t] < LookupSizes => Smallest(l[t], arg[t])
  BY DEF FragmentBucket, Locals
<1>2. /\ UNCHANGED <<mmapStart, maxBucketsUsed, op, arg, key, l, h, overlap, raced>>
      /\ pc' = [pc EXCEPT ![t] = "chosen"]
      /\ freeHead' = [freeHead EXCEPT ![t] = b]
  BY DEF FragmentBucket, Chosen, Goto
<1>3. b \in Bucket /\ bucketSizes[b] <= arg[t]
  <2>1. CASE bucketSizes[l[t]] > arg[t]
    <3>1. l[t] # 0
      BY <1>1, <2>1
    <3>2. l[t] - 1 \in Bucket /\ l[t] - 1 < l[t]
      BY <1>1, <3>1, Index
    <3>3. bucketSizes[l[t] - 1] < key[t]
      BY <1>1, <3>2 DEF Below
    <3>. QED BY <1>1, <2>1, <3>2, <3>3
  <2>2. CASE ~(bucketSizes[l[t]] > arg[t])
    BY <1>1, <2>2 DEF Bucket
  <2>. QED BY <2>1, <2>2
<1>4. ASSUME arg[t] < LookupSizes, NEW c \in Bucket, bucketSizes[c] <= arg[t]
      PROVE  c <= b
  <2>1. arg[t] <= bucketSizes[l[t]]
    BY <1>1, <1>4 DEF Smallest
  <2>2. c <= l[t]
    BY <1>1, <1>4, <2>1 DEF Bucket
  <2>3. bucketSizes[l[t]] > arg[t] => c # l[t]
    BY <1>1, <1>4
  <2>. QED BY <1>1, <2>2, <2>3 DEF Bucket
<1> HIDE DEF b
<1>5. TypeOK'
  BY <1>2, <1>3 DEF TypeOK, Label
<1>6. /\ pc'[t] = "chosen"
      /\ freeHead'[t] = b
      /\ arg'[t] = arg[t]
  BY <1>2 DEF TypeOK
<1>7. op'[t] = "fragment"
  BY <1>2 DEF FragmentBucket
<1>8. Locals(t)'
  BY <1>1, <1>3, <1>4, <1>6, <1>7 DEF Locals
<1>. QED BY <1>2, <1>5, <1>8 DEF ValidStart

(* Done. *)
LEMMA DoneKeeps ==
  ASSUME Inv, NEW t \in Thread, Done(t)
  PROVE  TypeOK' /\ ValidStart(mmapStart)' /\ Locals(t)'
<1> USE BucketAssumption, SizesAssumption, LookupAssumption DEF Inv
<1>1. TypeOK'
  BY DEF TypeOK, Locals, Label, Bucket, Done, Return, Goto
<1>2. ValidStart(mmapStart)'
  BY DEF ValidStart, Done, Return, Goto
<1>3. Locals(t)'
  BY DEF TypeOK, Locals, Below, Above, Smallest, ValidStart, Bucket, Done, Return, Goto
<1>. QED BY <1>1, <1>2, <1>3

(* StartSearch. *)
LEMMA StartSearchKeeps ==
  ASSUME Inv, NEW t \in Thread, StartSearch(t)
  PROVE  TypeOK' /\ ValidStart(mmapStart)' /\ Locals(t)'
<1> USE BucketAssumption, SizesAssumption, LookupAssumption DEF Inv
<1>1. TypeOK'
  BY DEF TypeOK, Locals, Label, Bucket, StartSearch, Search, Goto
<1>2. ValidStart(mmapStart)'
  BY DEF ValidStart, StartSearch, Search, Goto
<1>3. Locals(t)'
  BY DEF TypeOK, Locals, Below, Above, Smallest, ValidStart, Bucket, StartSearch, Search, Goto
<1>. QED BY <1>1, <1>2, <1>3

(* SetMax. *)
LEMMA SetMaxKeeps ==
  ASSUME Inv, NEW t \in Thread, SetMax(t)
  PROVE  TypeOK' /\ ValidStart(mmapStart)' /\ Locals(t)'
<1> USE BucketAssumption, SizesAssumption, LookupAssumption DEF Inv
<1>1. TypeOK'
  BY DEF TypeOK, Locals, Label, Bucket, SetMax, Return, Goto
<1>2. ValidStart(mmapStart)'
  BY DEF ValidStart, SetMax, Return, Goto
<1>3. Locals(t)'
  BY DEF TypeOK, Locals, Below, Above, Smallest, ValidStart, Bucket, SetMax, Return, Goto
<1>. QED BY <1>1, <1>2, <1>3
-------------------------------------------------------------------------------
(* A step of t keeps the invariant. *)
LEMMA StepKeeps ==
  ASSUME Inv, NEW t \in Thread, Step(t)
  PROVE  Inv'
<1>1. TypeOK' /\ ValidStart(mmapStart)' /\ Locals(t)'
  BY CallMallocKeeps, CallFragmentKeeps, CallMalloptKeeps, TestSizeKeeps,
     ChooseKeeps, ProbeKeeps, SearchEndsKeeps, MallocBucketKeeps,
     FragmentBucketKeeps, DoneKeeps, StartSearchKeeps, SetMaxKeeps DEF Step
<1>2. ASSUME NEW u \in Thread, u # t
      PROVE  Locals(u)'
  BY <1>2, StepOnly, OthersKeep DEF Inv
<1>. QED BY <1>1, <1>2 DEF Inv

LEMMA InvStutters == Inv /\ UNCHANGED vars => Inv'
BY DEF Inv, TypeOK, ValidStart, Locals, Below, Above, Smallest, vars, local

LEMMA Invariant == Spec => []Inv
<1>1. Init => Inv
  BY InitInv
<1>2. Inv /\ [Next]_vars => Inv'
  BY StepKeeps, InvStutters DEF Next
<1>. QED BY <1>1, <1>2, PTL DEF Spec

(* Every variable stays in its range: whatever threads call mallopt while   *)
(* others are in doMalloc and manager_extend, no index leaves freeLists.    *)
THEOREM TypeCorrect == Spec => []TypeOK
<1>1. Inv => TypeOK
  BY DEF Inv
<1>. QED BY <1>1, Invariant, PTL

(* The remainder of a buffer goes to a bucket with blocks no larger than    *)
(* it, whatever threads call mallopt meanwhile.                             *)
THEOREM FragmentsFit == Spec => []FragmentFits
<1>1. Inv => FragmentFits
  BY DEF Inv, Locals, FragmentFits
<1>. QED BY <1>1, Invariant, PTL
-------------------------------------------------------------------------------
(* Malloc and mallopt beside each other. *)

(* Most steps of t change neither word, nor who is in mallopt, nor what is  *)
(* known of the malloc of another thread.                                   *)
LEMMA RaceQuiet ==
  ASSUME TypeOK, RaceInv, NEW t \in Thread, Only(t),
         UNCHANGED <<mmapStart, maxBucketsUsed, overlap>>,
         op'[t] = "mallopt" <=> op[t] = "mallopt",
         \A u \in Thread : u # t => (u \in raced' <=> u \in raced),
         MalloptAlone(t)', MallocAlone(t)'
  PROVE  RaceInv'
<1>1. \A u \in Thread : op'[u] = "mallopt" <=> op[u] = "mallopt"
  BY DEF Only
<1>2. InMallopt' <=> InMallopt
  BY <1>1 DEF InMallopt
<1>3. ASSUME NEW u \in Thread, u # t
      PROVE  MalloptAlone(u)' /\ MallocAlone(u)'
  <2>1. /\ pc'[u] = pc[u] /\ op'[u] = op[u] /\ arg'[u] = arg[u] /\ key'[u] = key[u]
        /\ l'[u] = l[u] /\ h'[u] = h[u] /\ freeHead'[u] = freeHead[u]
    BY <1>3 DEF Only
  <2>2. MalloptAlone(u) /\ MallocAlone(u)
    BY DEF RaceInv
  <2>3. MalloptAlone(u)'
    BY <1>1, <2>1, <2>2 DEF MalloptAlone
  <2>4. MallocAlone(u)'
    BY <1>2, <1>3, <2>1, <2>2 DEF MallocAlone, Above, Smallest
  <2>. QED BY <2>3, <2>4
<1>4. LimitAgrees'
  BY <1>2 DEF RaceInv, LimitAgrees, Smallest
<1>. QED BY <1>3, <1>4 DEF RaceInv

LEMMA CallMallocRace ==
  ASSUME Inv, RaceInv, NEW t \in Thread, NEW n \in Request[t], CallMalloc(t, n)
  PROVE  RaceInv'
<1>1. Only(t)
  BY StepOnly DEF Inv, Step
<1>2. /\ pc[t] = "idle" /\ pc'[t] = "test" /\ op'[t] = "malloc"
      /\ UNCHANGED <<mmapStart, maxBucketsUsed, overlap>>
      /\ raced' = IF overlap \/ InMallopt THEN raced \cup {t} ELSE raced
  BY DEF CallMalloc, Goto, Inv, TypeOK
<1>3. op[t] # "mallopt"
  BY <1>2 DEF RaceInv, MalloptAlone
<1>4. t \notin raced' => ~overlap' /\ ~InMallopt'
  BY <1>1, <1>2 DEF InMallopt, Only
<1>5. MalloptAlone(t)' /\ MallocAlone(t)'
  BY <1>2, <1>4 DEF MalloptAlone, MallocAlone
<1>. QED BY <1>1, <1>2, <1>3, <1>5, RaceQuiet DEF Inv

LEMMA CallFragmentRace ==
  ASSUME Inv, RaceInv, NEW t \in Thread, NEW n \in Remainder[t], CallFragment(t, n)
  PROVE  RaceInv'
<1>1. Only(t)
  BY StepOnly DEF Inv, Step
<1>2. /\ pc[t] = "idle" /\ op'[t] = "fragment"
      /\ UNCHANGED <<mmapStart, maxBucketsUsed, overlap, raced>>
  BY DEF CallFragment, Goto, history, Inv, TypeOK
<1>3. op[t] # "mallopt"
  BY <1>2 DEF RaceInv, MalloptAlone
<1>4. MalloptAlone(t)' /\ MallocAlone(t)'
  BY <1>2 DEF MalloptAlone, MallocAlone
<1>. QED BY <1>1, <1>2, <1>3, <1>4, RaceQuiet DEF Inv

(* A call of malloc ends, with a block or with storage mapped for it. *)
LEMMA ReturnRace ==
  ASSUME Inv, RaceInv, NEW t \in Thread, Step(t), Return(t), op[t] # "mallopt",
         UNCHANGED <<mmapStart, maxBucketsUsed>>
  PROVE  RaceInv'
<1>1. Only(t)
  BY StepOnly DEF Inv
<1>2. op'[t] = "none" /\ raced' = raced \ {t} /\ overlap' = overlap
  BY DEF Return, Inv, TypeOK
<1>3. MalloptAlone(t)' /\ MallocAlone(t)'
  BY <1>2 DEF MalloptAlone, MallocAlone
<1>. QED BY <1>1, <1>2, <1>3, RaceQuiet DEF Inv

LEMMA TestSizeRace ==
  ASSUME Inv, RaceInv, NEW t \in Thread, TestSize(t)
  PROVE  RaceInv'
<1>1. Only(t)
  BY StepOnly DEF Inv, Step
<1>2. op[t] = "malloc" /\ UNCHANGED <<mmapStart, maxBucketsUsed>>
  BY DEF TestSize, Inv, Locals
<1>3. CASE arg[t] < mmapStart
  <2>1. pc'[t] = "choose" /\ UNCHANGED <<op, history>>
    BY <1>3 DEF TestSize, Goto, Inv, TypeOK
  <2>2. InMallopt' <=> InMallopt
    BY <2>1 DEF InMallopt
  <2>3. MalloptAlone(t)' /\ MallocAlone(t)'
    BY <1>2, <2>1, <2>2 DEF MalloptAlone, MallocAlone, RaceInv
  <2>. QED BY <1>1, <1>2, <2>1, <2>3, RaceQuiet DEF Inv
<1>4. CASE ~(arg[t] < mmapStart)
  BY <1>2, <1>4, ReturnRace DEF TestSize, Step
<1>. QED BY <1>3, <1>4

LEMMA DoneRace ==
  ASSUME Inv, RaceInv, NEW t \in Thread, Done(t)
  PROVE  RaceInv'
<1>1. op[t] # "mallopt"
  BY DEF Done, RaceInv, MalloptAlone
<1>. QED BY <1>1, ReturnRace DEF Done, Step

LEMMA ChooseRace ==
  ASSUME Inv, RaceInv, NEW t \in Thread, Choose(t)
  PROVE  RaceInv'
<1>1. Only(t)
  BY StepOnly DEF Inv, Step
<1>2. /\ pc[t] = "choose" /\ key[t] \in Nat /\ op[t] # "mallopt"
      /\ UNCHANGED <<mmapStart, maxBucketsUsed, op, arg, history>>
      /\ key'[t] = key[t]
  BY DEF Choose, Search, Inv, TypeOK, Locals
<1>3. InMallopt' <=> InMallopt
  BY <1>2 DEF InMallopt
<1>4. MallocAlone(t)'
  <2> SUFFICES ASSUME op[t] = "malloc", t \notin raced
               PROVE  /\ pc'[t] = "search" /\ key[t] <= mmapStart => Above(t)'
                      /\ pc'[t] = "found" /\ key[t] <= mmapStart => Smallest(l'[t], key[t])
                      /\ pc'[t] # "chosen"
    BY <1>2, <1>3 DEF MallocAlone, RaceInv, history, Smallest
  <2>1. CASE key[t] < LookupSizes
    <3>1. pc'[t] = "found" /\ l'[t] = lookup[key[t]]
      BY <2>1 DEF Choose, Goto, Inv, TypeOK
    <3>2. Smallest(lookup[key[t]], key[t])
      BY <1>2, <2>1, BucketAssumption, LookupAssumption
    <3>. QED BY <3>1, <3>2
  <2>2. CASE ~(key[t] < LookupSizes)
    <3>1. pc'[t] = "search" /\ h'[t] = maxBucketsUsed
      BY <2>2 DEF Choose, Search, Goto, Inv, TypeOK
    <3>2. Smallest(maxBucketsUsed, mmapStart)
      BY DEF RaceInv, LimitAgrees, MallocAlone
    <3>3. ASSUME key[t] <= mmapStart, NEW j \in Bucket, j >= maxBucketsUsed
          PROVE  key[t] <= bucketSizes[j]
      <4>1. bucketSizes[maxBucketsUsed] <= bucketSizes[j]
        BY <3>2, <3>3, Increasing DEF Smallest
      <4>2. mmapStart <= bucketSizes[maxBucketsUsed] /\ maxBucketsUsed \in Bucket
        BY <3>2 DEF Smallest
      <4>. QED BY <1>2, <3>3, <4>1, <4>2, BucketAssumption DEF Inv, TypeOK
    <3>. QED BY <1>2, <3>1, <3>3 DEF Above
  <2>. QED BY <2>1, <2>2
<1>5. MalloptAlone(t)'
  BY <1>2 DEF MalloptAlone
<1>. QED BY <1>1, <1>2, <1>4, <1>5, RaceQuiet DEF Inv

LEMMA ProbeRace ==
  ASSUME Inv, RaceInv, NEW t \in Thread, Probe(t)
  PROVE  RaceInv'
<1> DEFINE m == (l[t] + h[t]) \div 2
<1>1. Only(t)
  BY StepOnly DEF Inv, Step
<1>2. /\ pc[t] = "search" /\ key[t] \in Nat
      /\ l[t] \in 0 .. NoBucketSizes /\ h[t] \in 0 .. NoBucketSizes /\ l[t] < h[t]
      /\ UNCHANGED <<mmapStart, maxBucketsUsed, pc, op, arg, key, history>>
  BY DEF Probe, Inv, Locals
<1>3. m \in Bucket
  BY <1>2, Middle
<1>4. \/ h' = h
      \/ bucketSizes[m] >= key[t] /\ h'[t] = m
  BY DEF Probe, Inv, TypeOK
<1> HIDE DEF m
<1>5. bucketSizes[m] >= key[t] =>
        \A j \in Bucket : j >= m => key[t] <= bucketSizes[j]
  <2>1. \A j \in Bucket : j >= m => bucketSizes[m] <= bucketSizes[j]
    BY <1>3, Increasing
  <2>. QED BY <1>2, <1>3, <2>1, BucketAssumption
<1>6. InMallopt' <=> InMallopt
  BY <1>2 DEF InMallopt
<1>7. MalloptAlone(t)'
  BY <1>2 DEF RaceInv, MalloptAlone
<1>8. MallocAlone(t)'
  BY <1>2, <1>4, <1>5, <1>6 DEF RaceInv, MallocAlone, Above
<1>. QED BY <1>1, <1>2, <1>7, <1>8, RaceQuiet DEF Inv

LEMMA SearchEndsRace ==
  ASSUME Inv, RaceInv, NEW t \in Thread, SearchEnds(t)
  PROVE  RaceInv'
<1>1. Only(t)
  BY StepOnly DEF Inv, Step
<1>2. /\ pc[t] = "search" /\ pc'[t] = "found" /\ l[t] = h[t]
      /\ UNCHANGED <<mmapStart, maxBucketsUsed, op, arg, key, l, h, history>>
  BY DEF SearchEnds, Goto, Inv, TypeOK
<1>3. ASSUME op[t] = "malloc", t \notin raced, key[t] <= mmapStart
      PROVE  Smallest(l[t], key[t])
  <2>1. Above(t)
    BY <1>2, <1>3 DEF RaceInv, MallocAlone
  <2>2. h[t] \in Bucket /\ Below(t)
    BY <1>2, <1>3 DEF Inv, Locals
  <2>3. key[t] <= bucketSizes[l[t]] /\ l[t] \in Bucket
    BY <1>2, <2>1, <2>2, BucketAssumption DEF Above, Bucket
  <2>. QED BY <2>2, <2>3 DEF Smallest, Below
<1>4. InMallopt' <=> InMallopt
  BY <1>2 DEF InMallopt
<1>5. MalloptAlone(t)'
  BY <1>2 DEF RaceInv, MalloptAlone
<1>6. MallocAlone(t)'
  BY <1>2, <1>3, <1>4 DEF RaceInv, MallocAlone, Smallest
<1>. QED BY <1>1, <1>2, <1>5, <1>6, RaceQuiet DEF Inv

LEMMA MallocBucketRace ==
  ASSUME Inv, RaceInv, NEW t \in Thread, MallocBucket(t)
  PROVE  RaceInv'
<1>1. Only(t)
  BY StepOnly DEF Inv, Step
<1>2. /\ pc[t] = "found" /\ pc'[t] = "chosen" /\ op[t] = "malloc"
      /\ freeHead'[t] = l[t] /\ key[t] = arg[t] + StorageSize
      /\ UNCHANGED <<mmapStart, maxBucketsUsed, op, arg, history>>
  BY DEF MallocBucket, Chosen, Goto, Inv, TypeOK, Locals
<1>3. InMallopt' <=> InMallopt
  BY <1>2 DEF InMallopt
<1>4. MalloptAlone(t)'
  BY <1>2 DEF MalloptAlone
<1>5. MallocAlone(t)'
  BY <1>2, <1>3 DEF RaceInv, MallocAlone, Smallest
<1>. QED BY <1>1, <1>2, <1>4, <1>5, RaceQuiet DEF Inv

LEMMA FragmentBucketRace ==
  ASSUME Inv, RaceInv, NEW t \in Thread, FragmentBucket(t)
  PROVE  RaceInv'
<1>1. Only(t)
  BY StepOnly DEF Inv, Step
<1>2. op[t] = "fragment" /\ UNCHANGED <<mmapStart, maxBucketsUsed, op, history>>
  BY DEF FragmentBucket
<1>3. MalloptAlone(t)' /\ MallocAlone(t)'
  BY <1>2 DEF MalloptAlone, MallocAlone
<1>. QED BY <1>1, <1>2, <1>3, RaceQuiet DEF Inv

(* Whoever is in malloc is overlapped from now on, and so is whoever was in *)
(* mallopt.                                                                 *)
LEMMA CallMalloptRace ==
  ASSUME Inv, RaceInv, NEW t \in Thread, NEW n \in Threshold[t], CallMallopt(t, n)
  PROVE  RaceInv'
<1>1. Only(t)
  BY StepOnly DEF Inv, Step
<1>2. /\ pc'[t] = "startSearch" /\ op'[t] = "mallopt" /\ arg'[t] = n /\ mmapStart' = n
      /\ overlap' = InMallopt
      /\ raced' = raced \cup {u \in Thread : op[u] = "malloc"}
  BY DEF CallMallopt, Goto, Inv, TypeOK
<1>3. InMallopt'
  BY <1>2 DEF InMallopt
<1>4. ASSUME NEW u \in Thread
      PROVE  MallocAlone(u)'
  BY <1>1, <1>2 DEF MallocAlone, Only
<1>5. ASSUME NEW u \in Thread
      PROVE  MalloptAlone(u)'
  <2>1. CASE u = t
    <3>1. ~overlap' => \A v \in Thread : op'[v] = "mallopt" => v = t
      BY <1>1, <1>2 DEF InMallopt, Only
    <3>. QED BY <1>2, <2>1, <3>1 DEF MalloptAlone
  <2>2. CASE u # t
    <3>1. op'[u] = op[u] /\ pc'[u] = pc[u]
      BY <1>1, <2>2 DEF Only
    <3>2. op[u] = "mallopt" => overlap'
      BY <1>2 DEF InMallopt
    <3>. QED BY <3>1, <3>2 DEF MalloptAlone, RaceInv
  <2>. QED BY <2>1, <2>2
<1>. QED BY <1>3, <1>4, <1>5 DEF RaceInv, LimitAgrees

LEMMA StartSearchRace ==
  ASSUME Inv, RaceInv, NEW t \in Thread, StartSearch(t)
  PROVE  RaceInv'
<1>1. Only(t)
  BY StepOnly DEF Inv, Step
<1>2. /\ pc[t] = "startSearch" /\ pc'[t] = "search" /\ op[t] = "mallopt"
      /\ key'[t] \in {arg[t], mmapStart}
      /\ UNCHANGED <<mmapStart, maxBucketsUsed, op, history>>
  BY DEF StartSearch, Search, Goto, Inv, TypeOK, Locals
<1>3. MalloptAlone(t)'
  BY <1>2 DEF RaceInv, MalloptAlone
<1>4. MallocAlone(t)'
  BY <1>2 DEF MallocAlone
<1>. QED BY <1>1, <1>2, <1>3, <1>4, RaceQuiet DEF Inv

(* A call that overlapped none leaves the words in agreement; beside one    *)
(* that did every malloc is raced.                                          *)
LEMMA SetMaxRace ==
  ASSUME Inv, RaceInv, NEW t \in Thread, SetMax(t)
  PROVE  RaceInv'
<1>1. Only(t)
  BY StepOnly DEF Inv, Step
<1>2. /\ pc[t] = "found" /\ op[t] = "mallopt" /\ op'[t] = "none"
      /\ maxBucketsUsed' = l[t] /\ mmapStart' = mmapStart /\ overlap' = overlap
      /\ raced' = raced \ {t}
  BY DEF SetMax, Return, Inv, TypeOK
<1>3. Smallest(l[t], key[t])
  BY <1>2 DEF Inv, Locals
<1>4. ~overlap => key[t] = mmapStart
  BY <1>2 DEF RaceInv, MalloptAlone
<1>5. LimitAgrees'
  BY <1>2, <1>3, <1>4 DEF LimitAgrees, Smallest
<1>6. \A u \in Thread : op[u] = "malloc" => u \in raced
  BY <1>2 DEF RaceInv, MallocAlone, InMallopt
<1>7. ASSUME NEW u \in Thread
      PROVE  MallocAlone(u)' /\ MalloptAlone(u)'
  <2>1. CASE u = t
    BY <1>2, <2>1 DEF MallocAlone, MalloptAlone
  <2>2. CASE u # t
    <3>1. op'[u] = op[u] /\ pc'[u] = pc[u] /\ (u \in raced' <=> u \in raced)
      BY <1>1, <1>2, <2>2 DEF Only
    <3>2. op[u] = "mallopt" => overlap /\ pc[u] \in {"startSearch", "search", "found"}
      BY <1>2, <2>2 DEF RaceInv, MalloptAlone
    <3>. QED BY <1>2, <1>6, <3>1, <3>2 DEF MallocAlone, MalloptAlone
  <2>. QED BY <2>1, <2>2
<1>. QED BY <1>5, <1>7 DEF RaceInv

LEMMA StepRace ==
  ASSUME Inv, RaceInv, NEW t \in Thread, Step(t)
  PROVE  RaceInv'
BY CallMallocRace, CallFragmentRace, CallMalloptRace, TestSizeRace, ChooseRace,
   ProbeRace, SearchEndsRace, MallocBucketRace, FragmentBucketRace, DoneRace,
   StartSearchRace, SetMaxRace DEF Step

LEMMA RaceInvStutters == RaceInv /\ UNCHANGED vars => RaceInv'
BY DEF RaceInv, MalloptAlone, MallocAlone, LimitAgrees, InMallopt, Above, Smallest,
       vars, local

LEMMA RaceInvariant == Spec => []RaceInv
<1>1. Init => RaceInv
  BY InitInv
<1>2. Inv /\ RaceInv /\ [Next]_vars => RaceInv'
  BY StepRace, RaceInvStutters DEF Next
<1>. QED BY <1>1, <1>2, Invariant, PTL DEF Spec

(* A request whose size is looked up gets the smallest bucket that holds it *)
(* and its header, whatever threads call mallopt meanwhile; one that is     *)
(* searched for and lies below the crossover does when no mallopt overlaps  *)
(* it and the last to end overlapped no other.                              *)
THEOREM SmallestBucket == Spec => []SmallestFit
<1>1. Inv /\ RaceInv => SmallestFit
  BY DEF Inv, Locals, RaceInv, MallocAlone, SmallestFit, HasBlock
<1>. QED BY <1>1, Invariant, RaceInvariant, PTL

(* When no call of mallopt is in progress and the last one overlapped no    *)
(* other, the limit is the bucket of the crossover, whatever overlaps came  *)
(* before and whatever malloc runs beside it.                               *)
THEOREM LimitStays == Spec => []LimitAgrees
<1>1. RaceInv => LimitAgrees
  BY DEF RaceInv
<1>. QED BY <1>1, RaceInvariant, PTL
===============================================================================
