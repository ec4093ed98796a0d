------------------------------- MODULE MCLLHeap -------------------------------
(***************************************************************************)
(* LLHeap and its ledger on small instances.                               *)
(***************************************************************************)
EXTENDS LLHeapLedger, TLC

(* Two buckets: 2 is for requests that can leave a fragment of the size of  *)
(* bucket 1.                                                                *)
OneBucket == {1}
TwoBuckets == {1, 2}

(* Neither Spec nor the properties name a thread, a heap or a block.        *)
Symmetry == Permutations(Thread) \cup Permutations(Heap) \cup Permutations(Block)

(* The allocator may stop when the superblock has no heap left; it does not *)
(* when there are as many heaps as threads.                                 *)
ASSUME Cardinality(Heap) >= Cardinality(Thread)
===============================================================================
