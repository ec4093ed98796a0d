------------------------------ MODULE LookupTable ------------------------------
(***************************************************************************)
(* The loop of heapMasterCtor that fills lookup, the table from the size   *)
(* of a small request to its bucket (__FASTLOOKUP__).                      *)
(***************************************************************************)
EXTENDS BucketSizes

VARIABLES
  i, idx,    (* the locals of the loop                                       *)
  lookup,    (* the table so far, an unsigned char per entry                 *)
  aborted    (* the always_assert failed                                     *)

vars == <<i, idx, lookup, aborted>>

(* Every variable stays in its range; bucketSizes is read inside it. *)
TypeOK ==
  /\ i \in 0 .. LookupSizes
  /\ idx \in Bucket
  /\ lookup \in [0 .. LookupSizes - 1 -> 0 .. 255]
  /\ aborted \in BOOLEAN

Init ==
  /\ i = 0
  /\ idx = 0
  /\ lookup = [n \in 0 .. LookupSizes - 1 |-> 0]
  /\ aborted = FALSE

(* Mutant: the index moves on one size too soon. *)
NextBucketEarly == IF i >= bucketSizes[idx] THEN idx + 1 ELSE idx

(* if ( i > bucketSizes[idx] ) idx += 1. *)
NextBucket == IF i > bucketSizes[idx] THEN idx + 1 ELSE idx

(* The condition of the always_assert, for bucket b. *)
Checked(b) == i <= bucketSizes[b] \/ i > bucketSizes[b - 1]

(* One iteration. *)
Fill ==
  /\ ~aborted
  /\ i < LookupSizes
  /\ idx' = NextBucket
  /\ lookup' = [lookup EXCEPT ![i] = NextBucket % 256]
  /\ aborted' = ~Checked(NextBucket)
  /\ i' = IF Checked(NextBucket) THEN i + 1 ELSE i

Next == Fill

Spec == Init /\ [][Next]_vars
-------------------------------------------------------------------------------
(* Every entry that is filled is the smallest bucket that holds its size:   *)
(* the index that walks the sizes and the one that walks the buckets stay   *)
(* in step across the whole table, and the boot does not abort.             *)
LookupRight ==
  /\ ~aborted
  /\ \A n \in 0 .. i - 1 : Smallest(lookup[n], n)
===============================================================================
