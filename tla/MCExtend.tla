------------------------------- MODULE MCExtend --------------------------------
(***************************************************************************)
(* Extend on an address space of a few pages.                              *)
(***************************************************************************)
EXTENDS Extend, TLC

Symmetry == Permutations(Heap)
===============================================================================
