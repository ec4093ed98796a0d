----------------------------- MODULE BoundedBuffer -----------------------------
(***************************************************************************)
(* ownershipPT.cc: producers allocate objects and insert them into a       *)
(* bounded buffer, consumers remove and free them.  The monitor barges: a  *)
(* thread that is woken competes for the mutex with those that arrive.     *)
(* What a thread does with the mutex held is one action.                   *)
(***************************************************************************)
EXTENDS Integers, Sequences, FiniteSets

CONSTANTS
  Prod, Cons,         (* threads, as many producers as consumers *)
  N,                  (* objects of a producer, and of a consumer *)
  size                (* of the buffer                            *)

VARIABLES
  pc,                 (* where a thread is: ready to call malloc or free,     *)
                      (* at the mutex, asleep, or done                        *)
  prod, cons,         (* the threads asleep on each condition variable        *)
  buffer, front, back, count,
  hand,               (* the object a thread has, if any                      *)
  i,                  (* the loop index of each thread                        *)
  live,               (* objects allocated and not freed                      *)
  inserted, removed   (* history: the objects in the order of each            *)

vars == <<pc, prod, cons, buffer, front, back, count, hand, i, live, inserted, removed>>

Client == Prod \cup Cons
NoObject == <<>>                (* object number n of thread t is <<t, n>> *)

Init ==
  /\ pc = [t \in Client |-> IF t \in Prod THEN "malloc" ELSE "mutex"]
  /\ prod = {} /\ cons = {}
  /\ buffer = [k \in 0 .. size - 1 |-> NoObject]
  /\ front = 0 /\ back = 0 /\ count = 0
  /\ hand = [t \in Client |-> NoObject]
  /\ i = [t \in Client |-> 0]
  /\ live = {}
  /\ inserted = <<>> /\ removed = <<>>

(* Mutant: one slot too many is filled. *)
fullBeyond == count = size + 1

full == count = size

(* Mutant: a signal only when the buffer stops being empty or full. *)
SignalAtEdge(asleep, woken) ==
  IF asleep = {} \/ count \in 1 .. size - 1 THEN woken = {} ELSE \E t \in asleep : woken = {t}

(* pthread_cond_signal wakes a thread if one is asleep.                     *)
Signal(asleep, woken) == IF asleep = {} THEN woken = {} ELSE \E t \in asleep : woken = {t}

Malloc(t) ==
  /\ t \in Prod /\ pc[t] = "malloc"
  /\ hand' = [hand EXCEPT ![t] = <<t, i[t]>>]
  /\ live' = live \cup {<<t, i[t]>>}
  /\ pc' = [pc EXCEPT ![t] = "mutex"]
  /\ UNCHANGED <<prod, cons, buffer, front, back, count, i, inserted, removed>>

Done(t, otherwise) == IF i[t] + 1 = N THEN "done" ELSE otherwise
-------------------------------------------------------------------------------
(* pthread_cond_wait gives the mutex up and sleeps in one step.             *)
WaitProd(t) ==
  /\ t \in Prod /\ pc[t] = "mutex"
  /\ full
  /\ prod' = prod \cup {t}
  /\ pc' = [pc EXCEPT ![t] = "asleep"]
  /\ UNCHANGED <<cons, buffer, front, back, count, hand, i, live, inserted, removed>>

WaitCons(t) ==
  /\ t \in Cons /\ pc[t] = "mutex"
  /\ count = 0
  /\ cons' = cons \cup {t}
  /\ pc' = [pc EXCEPT ![t] = "asleep"]
  /\ UNCHANGED <<prod, buffer, front, back, count, hand, i, live, inserted, removed>>

insert(t) ==
  /\ t \in Prod /\ pc[t] = "mutex"
  /\ ~full
  /\ buffer' = [buffer EXCEPT ![back] = hand[t]]
  /\ count' = count + 1
  /\ back' = (back + 1) % size
  /\ inserted' = Append(inserted, hand[t])
  /\ hand' = [hand EXCEPT ![t] = NoObject]
  /\ i' = [i EXCEPT ![t] = @ + 1]
  /\ \E woken \in SUBSET cons :
       /\ Signal(cons, woken)
       /\ cons' = cons \ woken
       /\ pc' = [u \in Client |-> CASE u \in woken -> "mutex"
                                    [] u = t -> Done(t, "malloc")
                                    [] OTHER -> pc[u]]
  /\ UNCHANGED <<prod, front, live, removed>>

remove(t) ==
  /\ t \in Cons /\ pc[t] = "mutex"
  /\ count # 0
  /\ hand' = [hand EXCEPT ![t] = buffer[front]]
  /\ count' = count - 1
  /\ front' = (front + 1) % size
  /\ removed' = Append(removed, buffer[front])
  /\ \E woken \in SUBSET prod :
       /\ Signal(prod, woken)
       /\ prod' = prod \ woken
       /\ pc' = [u \in Client |-> CASE u \in woken -> "mutex" [] u = t -> "free" [] OTHER -> pc[u]]
  /\ UNCHANGED <<cons, buffer, back, i, live, inserted>>

Free(t) ==
  /\ t \in Cons /\ pc[t] = "free"
  /\ live' = live \ {hand[t]}
  /\ hand' = [hand EXCEPT ![t] = NoObject]
  /\ i' = [i EXCEPT ![t] = @ + 1]
  /\ pc' = [pc EXCEPT ![t] = Done(t, "mutex")]
  /\ UNCHANGED <<prod, cons, buffer, front, back, count, inserted, removed>>

(* A thread may wake although nobody signalled.                             *)
Spurious(t) ==
  /\ pc[t] = "asleep"
  /\ prod' = prod \ {t}
  /\ cons' = cons \ {t}
  /\ pc' = [pc EXCEPT ![t] = "mutex"]
  /\ UNCHANGED <<buffer, front, back, count, hand, i, live, inserted, removed>>

Step(t) == Malloc(t) \/ WaitProd(t) \/ WaitCons(t) \/ insert(t) \/ remove(t) \/ Free(t)

Next == \E t \in Client : Step(t) \/ Spurious(t)

Fairness == \A t \in Client : WF_vars(Step(t))

Finished == \A t \in Client : pc[t] = "done"
-------------------------------------------------------------------------------
(* Objects are removed in the order they were inserted, whoever barges; an  *)
(* object is live exactly while a thread or the buffer has it.              *)
InOrder ==
  /\ removed = SubSeq(inserted, 1, Len(removed))
  /\ Len(inserted) = Len(removed) + count
  /\ live = ({hand[t] : t \in Client} \ {NoObject})
            \cup {inserted[k] : k \in Len(removed) + 1 .. Len(inserted)}
===============================================================================
