----------------------------- MODULE LLHeapLedger -----------------------------
(***************************************************************************)
(* The allocator of LLHeap keeps the ledger of BlockLedger: with the       *)
(* mapping below each of its steps hands out a block the allocator owns,   *)
(* takes one back from the thread that frees it, or changes nothing the    *)
(* program can see.                                                        *)
(***************************************************************************)
EXTENDS LLHeap

CONSTANTS Program, Allocator     (* the owners of BlockLedger               *)

(* Owners are told apart. *)
ASSUME OwnerAssumption ==
  /\ Program # Allocator
  /\ {Program, Allocator} \cap Thread = {}

Owner ==
  [b \in Block |->
     IF b \in held THEN Program
     ELSE IF \E t \in Thread : Freeing(t, b) THEN CHOOSE t \in Thread : Freeing(t, b)
     ELSE Allocator]

Ledger == INSTANCE BlockLedger WITH owner <- Owner

(* What malloc and free promise, whatever the interleaving: a block is      *)
(* handed out only when nobody has it, and is with the program from then    *)
(* until a thread frees it.                                                 *)
KeepsLedger == Ledger!Spec
===============================================================================
