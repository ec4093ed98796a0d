----------------------------- MODULE MCSizeClasses -----------------------------
(***************************************************************************)
(* The table of llheap.cc, and requests, remainders and thresholds on and  *)
(* beside every boundary.                                                  *)
(***************************************************************************)
EXTENDS SizesBoot, Sequences, FiniteSets, TLC

CONSTANT t1

(* bucketSizes, with sizeof(Heap::Storage) = 16. *)
Table ==
  << 32, 48, 64, 80, 112, 144, 160, 192, 224, 272, 320, 384, 448, 528,
     640, 768, 896, 1040, 1536, 2064, 2560, 3072, 3584, 4112, 6144, 8208,
     10240, 12288, 14336, 16400, 20480, 24576, 28672, 32784,
     40960, 49152, 57344, 65552, 81920, 98304, 114688, 131088,
     163840, 196608, 229376, 262160, 327680, 393216, 458752, 524304,
     786432, 1048592, 1572864, 2097168, 3145728, 4194320,
     6291456, 8388624, 12582912, 16777232, 25165840, 33554448,
     50331664, 67108880 >>

RealBuckets == [b \in 0 .. 63 |-> Table[b + 1]]

(* The table that the loop makes, by LookupRight.  It is made for the first *)
(* 5 of the 64 buckets, past the first uneven steps, and for sizes that     *)
(* stop short of the last, as in the code, where they stop at the 38th.     *)
RealLookup ==
  [n \in 0 .. LookupSizes - 1 |-> Cardinality({b \in Bucket : RealBuckets[b] < n})]

(* The least crossover, the default one, the greatest one, one that mallopt *)
(* refuses.                                                                 *)
Thresholds == {4095, 4096, 33554448, 67108880}
DefaultThreshold == {33554448}

(* The sizes around each of S. *)
Around(S) == UNION {{n - 1, n, n + 1} : n \in S}
Sizes == {RealBuckets[b] : b \in Bucket}

(* The requests whose blocks just fit a bucket or do not, and those on both *)
(* sides of the crossover.                                                  *)
BoundaryRequests ==
  {0, 1} \cup Around({n - StorageSize : n \in Sizes}) \cup Around(Thresholds)

(* One thread goes through the boundaries and moves the crossover; another  *)
(* moves it at any time.                                                    *)
Requests == [t \in Thread |-> IF t = t1 THEN BoundaryRequests ELSE {}]
Remainders == [t \in Thread |-> IF t = t1 THEN Around(Sizes) ELSE {}]
MovedTo == [t \in Thread |-> IF t = t1 THEN Thresholds \ {67108880} ELSE {67108880}]

(* A thread that leaves the crossover as it is. *)
Nothing == [t \in Thread |-> {}]
===============================================================================
