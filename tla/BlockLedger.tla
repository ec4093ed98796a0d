----------------------------- MODULE BlockLedger -----------------------------
(***************************************************************************)
(* What malloc and free promise a program of several threads: the ledger   *)
(* of who may use each block of storage.  A block belongs to the allocator *)
(* or to the program, or to the one thread that is inside free() with it.  *)
(* The allocator hands out only what is its own, so no two callers ever    *)
(* use one block at the same time, and a block comes back only through the *)
(* thread that frees it.                                                   *)
(***************************************************************************)
CONSTANTS Thread, Block,
          Program,      (* owner of a block that malloc has returned        *)
          Allocator     (* owner of a block that can be handed out          *)

VARIABLE owner          (* owner[b]: Program, Allocator, or a freeing thread *)

TypeOK == owner \in [Block -> {Program, Allocator} \cup Thread]

Init == owner = [b \in Block |-> Allocator]

(* malloc returns b. *)
Hand(b) ==
  /\ owner[b] = Allocator
  /\ owner' = [owner EXCEPT ![b] = Program]

(* Thread t calls free(b); it frees one block at a time. *)
Release(t, b) ==
  /\ owner[b] = Program
  /\ \A c \in Block : owner[c] # t
  /\ owner' = [owner EXCEPT ![b] = t]

(* free(b), called by t, has put b back. *)
Accept(t, b) ==
  /\ owner[b] = t
  /\ owner' = [owner EXCEPT ![b] = Allocator]

Next == \E b \in Block :
          \/ Hand(b)
          \/ \E t \in Thread : Release(t, b) \/ Accept(t, b)

Spec == Init /\ [][Next]_owner
==============================================================================
