------------------------------ MODULE MCObjects -------------------------------
(***************************************************************************)
(* Objects on three blocks; a word is 8 bytes and a page 8 words.          *)
(***************************************************************************)
EXTENDS Objects, TLC

Symmetry == Permutations(Block)

(* realloc needs a block for the copy.                                      *)
ASSUME Cardinality(Block) > MaxObjects
===============================================================================
