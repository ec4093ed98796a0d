------------------------------- MODULE MCMaster -------------------------------
(***************************************************************************)
(* Master with a few threads and calls.                                    *)
(***************************************************************************)
EXTENDS Master, TLC

Symmetry == Permutations(Thread \ {Main})
===============================================================================
