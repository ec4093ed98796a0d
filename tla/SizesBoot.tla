------------------------------- MODULE SizesBoot -------------------------------
(***************************************************************************)
(* heapMasterCtor fills lookup (LookupTable), then threads use it          *)
(* (SizeClasses).                                                          *)
(***************************************************************************)
EXTENDS SizeClasses

CONSTANTS FilledBuckets, FilledSizes   (* bounds: the part of the tables that  *)
                                       (* the loop goes through                *)

(* The code's own are NoBucketSizes and LookupSizes. *)
ASSUME FilledAssumption ==
  /\ FilledBuckets \in 1 .. NoBucketSizes
  /\ FilledSizes \in 0 .. LookupSizes
  /\ FilledSizes <= bucketSizes[FilledBuckets - 1] + 1

VARIABLES c_i, c_idx, c_lookup, c_aborted

FirstBuckets == [b \in 0 .. FilledBuckets - 1 |-> bucketSizes[b]]

Ctor == INSTANCE LookupTable WITH
  bucketSizes <- FirstBuckets,
  NoBucketSizes <- FilledBuckets, LookupSizes <- FilledSizes,
  i <- c_i, idx <- c_idx, lookup <- c_lookup, aborted <- c_aborted

ctor == <<c_i, c_idx, c_lookup, c_aborted>>

BootInit == Init /\ Ctor!Init

(* startup runs the loop before there are other threads. *)
BootNext ==
  \/ Ctor!Next /\ UNCHANGED vars
  \/ c_i = FilledSizes /\ Next /\ UNCHANGED ctor

BootSpec == BootInit /\ [][BootNext]_<<vars, ctor>>

(* The table that threads read is the one the loop made, where it made one.  *)
TableFilled ==
  c_i = FilledSizes => \A n \in 0 .. FilledSizes - 1 : c_lookup[n] = lookup[n]

(* Every size the loop has passed has its smallest bucket, and the boot has  *)
(* not aborted.                                                             *)
LookupRight == Ctor!LookupRight
===============================================================================
