-------------------------------- MODULE Latency --------------------------------
(***************************************************************************)
(* latency.cc: rounds of more and more threads that run the same           *)
(* experiments side by side, a barrier after each, and the results that    *)
(* main averages when it has joined the threads of a round.                *)
(***************************************************************************)
EXTENDS Integers, Sequences, FiniteSets

CONSTANTS
  THREADS,            (* the number of threads of each round         *)
  GROUP1, GROUP2      (* sizes of the groups, much reduced; > 0      *)

(* An experiment allocates a group, or one object at a time, and frees it   *)
(* in order or in reverse.  The sizes of the objects do not matter here.    *)
Alternate == [group |-> 1, reverse |-> FALSE]
FreeNull == [group |-> 0, reverse |-> FALSE]
GroupFree(n) == [group |-> n, reverse |-> FALSE]
GroupReverse(n) == [group |-> n, reverse |-> TRUE]

Fixed == <<GroupFree(GROUP1), GroupFree(GROUP2), GroupReverse(GROUP1), GroupReverse(GROUP2)>>
Varied == <<GroupFree(GROUP1), GroupFree(GROUP2), GroupReverse(GROUP1), GroupReverse(GROUP2)>>

Experiments == <<Alternate, FreeNull, Alternate>> \o Fixed \o <<Alternate>> \o Varied

EXPERIMENTS == Len(Experiments)

VARIABLES
  round, main,        (* the round, and where main is between its tests      *)
  pc, exp, g,         (* of each thread: place, experiment, index in the group *)
  cps,                (* the cells of each thread's group with an object     *)
  barrier,            (* the threads that wait                               *)
  eresults            (* <<experiment, thread, round>> of the results        *)

vars == <<round, main, pc, exp, g, cps, barrier, eresults>>

Max == THREADS[Len(THREADS)] - 1
Tid == 0 .. Max
Team == 0 .. THREADS[round] - 1

Init ==
  /\ round = 1 /\ main = "create"
  /\ pc = [t \in Tid |-> "none"]
  /\ exp = [t \in Tid |-> 0]
  /\ g = [t \in Tid |-> 0]
  /\ cps = [t \in Tid |-> {}]
  /\ barrier = {}
  /\ eresults = {}

Trial(t) == Experiments[exp[t] + 1]

(* pthread_create of each tid from 1, and worker( 0 ) when all are made.    *)
Create(t) ==
  /\ main = "create" /\ t \in Team /\ pc[t] = "none"
  /\ \A u \in Team \ {0} : t = 0 \/ u < t => pc[u] # "none"
  /\ pc' = [pc EXCEPT ![t] = "malloc"]
  /\ exp' = [exp EXCEPT ![t] = 0]
  /\ main' = IF t = 0 THEN "work" ELSE main
  /\ UNCHANGED <<round, g, cps, barrier, eresults>>

Malloc(t) ==
  /\ pc[t] = "malloc"
  /\ g[t] < Trial(t).group
  /\ cps' = [cps EXCEPT ![t] = @ \cup {g[t]}]
  /\ g' = [g EXCEPT ![t] = @ + 1]
  /\ UNCHANGED <<round, main, pc, exp, barrier, eresults>>

Filled(t) ==
  /\ pc[t] = "malloc"
  /\ g[t] = Trial(t).group
  /\ pc' = [pc EXCEPT ![t] = "free"]
  /\ g' = [g EXCEPT ![t] = IF Trial(t).reverse THEN Trial(t).group - 1 ELSE 0]
  /\ UNCHANGED <<round, main, exp, cps, barrier, eresults>>

(* There is a cell of the group left to free.                               *)
More(t) == IF Trial(t).reverse THEN g[t] >= 0 ELSE g[t] < Trial(t).group

Free(t) ==
  /\ pc[t] = "free"
  /\ More(t)
  /\ cps' = [cps EXCEPT ![t] = @ \ {g[t]}]
  /\ g' = [g EXCEPT ![t] = IF Trial(t).reverse THEN @ - 1 ELSE @ + 1]
  /\ UNCHANGED <<round, main, pc, exp, barrier, eresults>>

(* The result is stored and exp counted before the barrier.                 *)
Result(t) ==
  /\ pc[t] = "free"
  /\ ~More(t)
  /\ eresults' = eresults \cup {<<exp[t], t, round>>}
  /\ exp' = [exp EXCEPT ![t] = @ + 1]
  /\ g' = [g EXCEPT ![t] = 0]
  /\ pc' = [pc EXCEPT ![t] = "barrier"]
  /\ UNCHANGED <<round, main, cps, barrier>>

(* Mutant: the barrier counts the threads that main creates. *)
BarrierShort == THREADS[round] - 1

BarrierCount == THREADS[round]

(* pthread_barrier_wait: the last thread to come lets the others leave.     *)
BarrierWait(t) ==
  /\ pc[t] = "barrier"
  /\ IF Cardinality(barrier) + 1 = BarrierCount
     THEN /\ pc' = [u \in Tid |-> IF u \in barrier \cup {t} THEN "leave" ELSE pc[u]]
          /\ barrier' = {}
     ELSE /\ pc' = [pc EXCEPT ![t] = "waiting"]
          /\ barrier' = barrier \cup {t}
  /\ UNCHANGED <<round, main, exp, g, cps, eresults>>

(* The next experiment, or the end of worker. *)
Leave(t) ==
  /\ pc[t] = "leave"
  /\ pc' = [pc EXCEPT ![t] = IF exp[t] = EXPERIMENTS THEN "done" ELSE "malloc"]
  /\ UNCHANGED <<round, main, exp, g, cps, barrier, eresults>>

worker(t) ==
  Malloc(t) \/ Filled(t) \/ Free(t) \/ Result(t) \/ BarrierWait(t) \/ Leave(t)

(* Mutant: main does not join the threads. *)
JoinNobody ==
  /\ main = "work" /\ pc[0] = "done"
  /\ main' = "average"
  /\ UNCHANGED <<round, pc, exp, g, cps, barrier, eresults>>

Join ==
  /\ main = "work" /\ \A t \in Team : pc[t] = "done"
  /\ main' = "average"
  /\ UNCHANGED <<round, pc, exp, g, cps, barrier, eresults>>

(* The barrier is destroyed, the results are averaged, the next round begins. *)
NextRound ==
  /\ main = "average"
  /\ pc' = [t \in Tid |-> "none"]
  /\ IF round = Len(THREADS) THEN main' = "end" /\ UNCHANGED round
     ELSE main' = "create" /\ round' = round + 1
  /\ UNCHANGED <<exp, g, cps, barrier, eresults>>

Main == Join \/ NextRound \/ \E t \in Tid : Create(t)

Next == Main \/ \E t \in Tid : worker(t)

Fairness == WF_vars(Main) /\ \A t \in Tid : WF_vars(worker(t))

Finished == main = "end"
-------------------------------------------------------------------------------
(* Threads measure the same experiment: a thread is an experiment ahead     *)
(* only at the barrier, where all it allocated is freed.                    *)
SideBySide ==
  /\ \A t, u \in Team :
       pc[t] \in {"malloc", "free"} /\ pc[u] # "none" =>
         exp[u] \in {exp[t]} \cup IF pc[u] \in {"barrier", "waiting"} THEN {exp[t] + 1} ELSE {}
  /\ \A t \in Tid : pc[t] \notin {"malloc", "free"} => cps[t] = {}

(* main averages results that all the threads of this round have stored,    *)
(* and destroys a barrier at which nobody is.                               *)
Averaged ==
  main = "average" =>
    /\ ((0 .. EXPERIMENTS - 1) \X Team) \X {round} \subseteq
         {<<<<r[1], r[2]>>, r[3]>> : r \in eresults}
    /\ \A t \in Tid : pc[t] \in {"none", "done"}
===============================================================================
