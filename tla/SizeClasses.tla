------------------------------ MODULE SizeClasses ------------------------------
(***************************************************************************)
(* How doMalloc chooses the bucket of a request, manager_extend the bucket *)
(* of the storage left over in a buffer, and how mallopt moves the         *)
(* crossover to mmap under them.                                           *)
(*                                                                         *)
(* heapMaster.mmapStart and heapMaster.maxBucketsUsed are two words, read  *)
(* and written without a lock: each access is an action.  Bsearchl is a    *)
(* loop on locals; each probe is an action.  lookup is the table that the  *)
(* loop in LookupTable fills.                                              *)
(***************************************************************************)
EXTENDS BucketSizes

CONSTANTS
  Thread,
  Request,         (* Request[t]: sizes that t asks malloc for               *)
  Remainder,       (* Remainder[t]: what can be left of its buffer           *)
  Threshold,       (* Threshold[t]: values t gives to mallopt                *)
  Crossover,       (* values that malloc_mmap_start returns                  *)
  pageSize,
  lookup,          (* the table from a small size to its bucket              *)
  None             (* a local that is not in use                             *)

ASSUME SizesAssumption ==
  /\ Request \in [Thread -> SUBSET Nat]
  /\ Remainder \in [Thread -> SUBSET Nat]
  /\ Threshold \in [Thread -> SUBSET Nat]
  /\ Crossover \subseteq Nat
  /\ pageSize \in Nat
  /\ None \notin Int

(* What LookupTable establishes (its LookupRight) when the loop ends.       *)
ASSUME LookupAssumption ==
  \A n \in 0 .. LookupSizes - 1 : Smallest(lookup[n], n)

VARIABLES
  mmapStart,       (* heapMaster.mmapStart                                   *)
  maxBucketsUsed,  (* heapMaster.maxBucketsUsed                              *)
  pc,              (* where a thread is                                      *)
  op,              (* who uses the locals                                  *)
  arg,             (* the size, the remainder or the threshold               *)
  key, l, h,       (* the locals of Bsearchl                                 *)
  freeHead,        (* the bucket chosen, an index into freeLists             *)
  overlap,         (* history: calls of mallopt that overlap have come after *)
                   (* the last one that did not                              *)
  raced            (* history: threads in a malloc that a mallopt overlaps,  *)
                   (* or that began after an overlap                         *)

history == <<overlap, raced>>
local == <<pc, op, arg, key, l, h, freeHead>>
vars == <<mmapStart, maxBucketsUsed, local, history>>

Label == {"idle", "test", "choose", "startSearch", "search", "found", "chosen"}

(* Every variable stays in its range: no bucket outside freeLists is used. *)
TypeOK ==
  /\ mmapStart \in Nat
  /\ maxBucketsUsed \in Bucket
  /\ pc \in [Thread -> Label]
  /\ op \in [Thread -> {"none", "malloc", "fragment", "mallopt"}]
  /\ arg \in [Thread -> Nat \cup {None}]
  /\ key \in [Thread -> Nat \cup {None}]
  /\ l \in [Thread -> 0 .. NoBucketSizes \cup {None}]
  /\ h \in [Thread -> 0 .. NoBucketSizes \cup {None}]
  /\ freeHead \in [Thread -> Bucket \cup {None}]
  /\ overlap \in BOOLEAN
  /\ raced \subseteq Thread

(* setMmapStart and the always_asserts of heapMasterCtor accept value. *)
ValidStart(value) == pageSize <= value /\ value <= bucketSizes[NoBucketSizes - 1]

(* The size and the bucket limit that heapMasterCtor sets up. *)
Init ==
  /\ mmapStart \in {v \in Crossover : ValidStart(v)}
  /\ maxBucketsUsed \in {b \in Bucket : Smallest(b, mmapStart)}
  /\ pc = [t \in Thread |-> "idle"]
  /\ op = [t \in Thread |-> "none"]
  /\ arg = [t \in Thread |-> None]
  /\ key = [t \in Thread |-> None]
  /\ l = [t \in Thread |-> None]
  /\ h = [t \in Thread |-> None]
  /\ freeHead = [t \in Thread |-> None]
  /\ overlap = FALSE
  /\ raced = {}

Goto(t, label) == pc' = [pc EXCEPT ![t] = label]

(* A thread is in mallopt. *)
InMallopt == \E t \in Thread : op[t] = "mallopt"

(* The call is over. *)
Return(t) ==
  /\ Goto(t, "idle")
  /\ op' = [op EXCEPT ![t] = "none"]
  /\ arg' = [arg EXCEPT ![t] = None]
  /\ key' = [key EXCEPT ![t] = None]
  /\ l' = [l EXCEPT ![t] = None]
  /\ h' = [h EXCEPT ![t] = None]
  /\ freeHead' = [freeHead EXCEPT ![t] = None]
  /\ raced' = raced \ {t}
  /\ UNCHANGED overlap

Chosen(t, b) ==
  /\ Goto(t, "chosen")
  /\ freeHead' = [freeHead EXCEPT ![t] = b]

(* Bsearchl( value, bucketSizes, dimension ) is called. *)
Search(t, value, dimension) ==
  /\ Goto(t, "search")
  /\ key' = [key EXCEPT ![t] = value]
  /\ l' = [l EXCEPT ![t] = 0]
  /\ h' = [h EXCEPT ![t] = dimension]
-------------------------------------------------------------------------------
(* Bsearchl.                                                                *)

(* Mutant: an equal entry is passed over. *)
ProbeStrict(t) ==
  /\ pc[t] = "search"
  /\ l[t] < h[t]
  /\ LET m == (l[t] + h[t]) \div 2 IN
       \/ bucketSizes[m] <= key[t] /\ l' = [l EXCEPT ![t] = m + 1] /\ UNCHANGED h
       \/ bucketSizes[m] > key[t] /\ h' = [h EXCEPT ![t] = m] /\ UNCHANGED l
  /\ UNCHANGED <<mmapStart, maxBucketsUsed, pc, op, arg, key, freeHead, history>>

(* One iteration: half of the entries that are left is ruled out. *)
Probe(t) ==
  /\ pc[t] = "search"
  /\ l[t] < h[t]
  /\ LET m == (l[t] + h[t]) \div 2 IN
       \/ bucketSizes[m] < key[t] /\ l' = [l EXCEPT ![t] = m + 1] /\ UNCHANGED h
       \/ bucketSizes[m] >= key[t] /\ h' = [h EXCEPT ![t] = m] /\ UNCHANGED l
  /\ UNCHANGED <<mmapStart, maxBucketsUsed, pc, op, arg, key, freeHead, history>>

(* The loop ends; l is returned. *)
SearchEnds(t) ==
  /\ pc[t] = "search"
  /\ l[t] = h[t]
  /\ Goto(t, "found")
  /\ UNCHANGED <<mmapStart, maxBucketsUsed, op, arg, key, l, h, freeHead, history>>
-------------------------------------------------------------------------------
(* doMalloc.                                                                *)

CallMalloc(t, size) ==
  /\ pc[t] = "idle"
  /\ Goto(t, "test")
  /\ op' = [op EXCEPT ![t] = "malloc"]
  /\ arg' = [arg EXCEPT ![t] = size]
  /\ raced' = IF overlap \/ InMallopt THEN raced \cup {t} ELSE raced
  /\ UNCHANGED <<mmapStart, maxBucketsUsed, key, l, h, freeHead, overlap>>

(* size < heapMaster.mmapStart: bucket, or storage mapped for the request. *)
TestSize(t) ==
  /\ pc[t] = "test"
  /\ IF arg[t] < mmapStart
     THEN /\ Goto(t, "choose")
          /\ key' = [key EXCEPT ![t] = arg[t] + StorageSize]
          /\ UNCHANGED <<op, arg, l, h, freeHead, history>>
     ELSE Return(t)
  /\ UNCHANGED <<mmapStart, maxBucketsUsed>>

(* tsize is looked up, or searched for among the buckets in use; so is rem. *)
Choose(t) ==
  /\ pc[t] = "choose"
  /\ IF key[t] < LookupSizes
     THEN /\ Goto(t, "found")
          /\ l' = [l EXCEPT ![t] = lookup[key[t]]]
          /\ UNCHANGED <<key, h>>
     ELSE Search(t, key[t], maxBucketsUsed)
  /\ UNCHANGED <<mmapStart, maxBucketsUsed, op, arg, freeHead, history>>

(* freeHead of doMalloc. *)
MallocBucket(t) ==
  /\ pc[t] = "found"
  /\ op[t] = "malloc"
  /\ Chosen(t, l[t])
  /\ UNCHANGED <<mmapStart, maxBucketsUsed, op, arg, key, l, h, history>>

(* The block of the bucket is taken and returned. *)
Done(t) ==
  /\ pc[t] = "chosen"
  /\ Return(t)
  /\ UNCHANGED <<mmapStart, maxBucketsUsed>>
-------------------------------------------------------------------------------
(* manager_extend.                                                          *)

(* A remainder of at least the smallest bucket. *)
CallFragment(t, rem) ==
  /\ rem >= bucketSizes[0]
  /\ pc[t] = "idle"
  /\ Goto(t, "choose")
  /\ op' = [op EXCEPT ![t] = "fragment"]
  /\ arg' = [arg EXCEPT ![t] = rem]
  /\ key' = [key EXCEPT ![t] = rem]
  /\ UNCHANGED <<mmapStart, maxBucketsUsed, l, h, freeHead, history>>

(* Mutant: always round down. *)
FragmentAlwaysDown(t) ==
  /\ pc[t] = "found"
  /\ op[t] = "fragment"
  /\ Chosen(t, l[t] - 1)
  /\ UNCHANGED <<mmapStart, maxBucketsUsed, op, arg, key, l, h, history>>

(* Mutant: no round down. *)
FragmentNoRound(t) ==
  /\ pc[t] = "found"
  /\ op[t] = "fragment"
  /\ Chosen(t, l[t])
  /\ UNCHANGED <<mmapStart, maxBucketsUsed, op, arg, key, l, h, history>>

(* The bucket found, or the one below if its blocks are larger than rem. *)
FragmentBucket(t) ==
  /\ pc[t] = "found"
  /\ op[t] = "fragment"
  /\ Chosen(t, IF bucketSizes[l[t]] > arg[t] THEN l[t] - 1 ELSE l[t])
  /\ UNCHANGED <<mmapStart, maxBucketsUsed, op, arg, key, l, h, history>>
-------------------------------------------------------------------------------
(* mallopt( M_MMAP_THRESHOLD, value ), setMmapStart.                        *)

(* A value that is refused changes nothing. *)
CallMallopt(t, value) ==
  /\ pc[t] = "idle"
  /\ ValidStart(value)
  /\ mmapStart' = value
  /\ Goto(t, "startSearch")
  /\ op' = [op EXCEPT ![t] = "mallopt"]
  /\ arg' = [arg EXCEPT ![t] = value]
  /\ overlap' = InMallopt
  /\ raced' = raced \cup {u \in Thread : op[u] = "malloc"}
  /\ UNCHANGED <<maxBucketsUsed, key, l, h, freeHead>>

(* The bucket of heapMaster.mmapStart: the compiler may use the value just  *)
(* stored or load the word again.                                           *)
StartSearch(t) ==
  /\ pc[t] = "startSearch"
  /\ \E value \in {arg[t], mmapStart} : Search(t, value, NoBucketSizes)
  /\ UNCHANGED <<mmapStart, maxBucketsUsed, op, arg, freeHead, history>>

(* Mutant: the limit is only ever raised. *)
SetMaxRaises(t) ==
  /\ pc[t] = "found"
  /\ op[t] = "mallopt"
  /\ maxBucketsUsed' = IF l[t] > maxBucketsUsed THEN l[t] ELSE maxBucketsUsed
  /\ Return(t)
  /\ UNCHANGED mmapStart

(* heapMaster.maxBucketsUsed = l. *)
SetMax(t) ==
  /\ pc[t] = "found"
  /\ op[t] = "mallopt"
  /\ maxBucketsUsed' = l[t]
  /\ Return(t)
  /\ UNCHANGED mmapStart
-------------------------------------------------------------------------------
Step(t) ==
  \/ \E n \in Request[t] : CallMalloc(t, n)
  \/ \E rem \in Remainder[t] : CallFragment(t, rem)
  \/ \E v \in Threshold[t] : CallMallopt(t, v)
  \/ TestSize(t) \/ Choose(t) \/ Probe(t) \/ SearchEnds(t)
  \/ MallocBucket(t) \/ FragmentBucket(t) \/ Done(t)
  \/ StartSearch(t) \/ SetMax(t)

Next == \E t \in Thread : Step(t)

Spec == Init /\ [][Next]_vars
-------------------------------------------------------------------------------
(* malloc and the remainder of a buffer.                                    *)

HasBlock(t) == pc[t] = "chosen" /\ op[t] = "malloc"

(* A request whose size is looked up gets the smallest bucket that holds it *)
(* with its header, whatever mallopt does meanwhile: the table goes through *)
(* all buckets.  One that is searched for among the buckets in use, and     *)
(* fits below the crossover with its header, gets it too when no mallopt    *)
(* overlaps it and the last to end did not overlap another.                 *)
SmallestFit ==
  \A t \in Thread :
    LET tsize == arg[t] + StorageSize IN
    HasBlock(t) =>
      /\ tsize < LookupSizes => Smallest(freeHead[t], tsize)
      /\ t \notin raced /\ tsize <= mmapStart => Smallest(freeHead[t], tsize)

(* The two words that mallopt writes agree again when the calls are over,   *)
(* with any malloc beside them: the last bucket in use is the one of the    *)
(* crossover.  Calls that overlap can leave them apart, and the next call   *)
(* that overlaps none puts that right.                                      *)
LimitAgrees == ~InMallopt /\ ~overlap => Smallest(maxBucketsUsed, mmapStart)

(* The storage left over in a buffer is chained to the free list of a       *)
(* bucket whose blocks are no larger than it; it is the largest such bucket *)
(* when the size is looked up.                                              *)
FragmentFits ==
  \A t \in Thread :
    pc[t] = "chosen" /\ op[t] = "fragment" =>
      /\ bucketSizes[freeHead[t]] <= arg[t]
      /\ arg[t] < LookupSizes =>
           \A b \in Bucket : bucketSizes[b] <= arg[t] => b <= freeHead[t]

(* assert( tsize <= freeHead->blockSize ): the block that malloc returns    *)
(* holds the request and its header.                                        *)
BlockHoldsRequest ==
  \A t \in Thread : HasBlock(t) => arg[t] + StorageSize <= bucketSizes[freeHead[t]]
===============================================================================
