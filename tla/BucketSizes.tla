------------------------------ MODULE BucketSizes ------------------------------
(***************************************************************************)
(* The table of bucket sizes of llheap.cc and what it means for a bucket   *)
(* to be the one of a size.  Sizes are bytes.                              *)
(***************************************************************************)
EXTENDS Integers

CONSTANTS
  bucketSizes,     (* the block size of each bucket, smallest first          *)
  NoBucketSizes,   (* how many buckets there are                             *)
  LookupSizes,     (* sizes below this one are looked up, not searched       *)
  StorageSize      (* sizeof(Heap::Storage): the header of a block           *)

Bucket == 0 .. NoBucketSizes - 1

(* The table is increasing, a bucket's index fits in the unsigned char of a *)
(* lookup entry, and every size that is looked up has a bucket.             *)
ASSUME BucketAssumption ==
  /\ NoBucketSizes \in 1 .. 256
  /\ bucketSizes \in [Bucket -> Nat]
  /\ \A i, j \in Bucket : i < j => bucketSizes[i] < bucketSizes[j]
  /\ bucketSizes[0] > 0
  /\ LookupSizes \in Nat
  /\ LookupSizes <= bucketSizes[NoBucketSizes - 1] + 1
  /\ StorageSize \in Nat

(* Bucket i is the smallest whose blocks hold n bytes. *)
Smallest(i, n) ==
  /\ i \in Bucket
  /\ n <= bucketSizes[i]
  /\ \A j \in Bucket : j < i => bucketSizes[j] < n
===============================================================================
