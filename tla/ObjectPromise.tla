----------------------------- MODULE ObjectPromise -----------------------------
(***************************************************************************)
(* What the allocation routines promise a program about the objects it     *)
(* holds, as functions from promises to promises: the size asked for, the  *)
(* alignment of the address, whether storage added to the object is zero   *)
(* filled, and the bytes that must be found in it.  Nothing here knows of  *)
(* headers, buckets or blocks.  realigned is no promise but history: a     *)
(* failed aligned_realloc has changed the alignment the object is known to *)
(* have, and the program has not been given another since.                 *)
(***************************************************************************)
EXTENDS Integers, FiniteSetsExt

CONSTANT Align              (* __ALIGN__, the alignment of every object      *)

Zero == 0                   (* a byte that is zero                           *)
Unknown == -1               (* a byte nothing is promised about              *)
Written(i) == i + 1         (* what the program writes at position i         *)

(* A new object of n bytes. *)
NewObject(n, alignment, zero) ==
  [size  |-> n,
   align |-> alignment,
   zero  |-> zero,
   realigned |-> FALSE,
   bytes |-> [i \in 0 .. n - 1 |-> IF zero THEN Zero ELSE Unknown]]

(* The alignment promised for n bytes: none beyond the least for no bytes. *)
Promised(alignment, n) == IF n = 0 THEN Align ELSE Max({alignment, Align})

(* The object reallocated to n bytes keeps what it held, and the rest. *)
Reallocated(o, n) ==
  [o EXCEPT
    !.size  = n,
    !.bytes = [i \in 0 .. n - 1 |->
                 IF i < o.size THEN o.bytes[i] ELSE IF o.zero THEN Zero ELSE Unknown]]

(* The object is given an alignment, or loses the one it had. *)
Aligned(o, alignment) == [o EXCEPT !.align = alignment, !.realigned = FALSE]
Realigned(o) == [o EXCEPT !.realigned = TRUE]

(* The program has been told that it may use n bytes. *)
Widened(o, n) ==
  [o EXCEPT
    !.size  = n,
    !.bytes = [i \in 0 .. n - 1 |-> IF i < o.size THEN o.bytes[i] ELSE Unknown]]

(* The program has written all of the object. *)
Filled(o) == [o EXCEPT !.bytes = [i \in 0 .. o.size - 1 |-> Written(i)]]
===============================================================================
