------------------------------ MODULE MCPrograms -------------------------------
(***************************************************************************)
(* The four programs with a few threads and objects.                       *)
(***************************************************************************)
EXTENDS Programs

RoundsOfTwoAndThree == <<2, 3>>
===============================================================================
