------------------------------- MODULE Ownership -------------------------------
(***************************************************************************)
(* ownership.cc: workers fill arrays of objects, exchange whole arrays     *)
(* through shared slots and free the objects of the array they got, so     *)
(* that nearly every free is remote.  The program must allocate each       *)
(* object into an empty cell and free it once, whoever holds the array     *)
(* when the time is up; otherwise it says nothing about the allocator.     *)
(***************************************************************************)
EXTENDS Integers

CONSTANTS
  Threads, Batch,     (* number of workers; cells of an array *)
  nullptr

ASSUME OwnershipAssumption ==
  /\ Threads \in Nat \ {0}
  /\ Batch \in Nat \ {0}
  /\ nullptr \notin Int

Worker == 0 .. Threads - 1      (* also the slots, and the arrays: batches[id] *)
Cell == 0 .. Batch - 1

VARIABLES
  allocations,        (* the slots: an array each, or nullptr              *)
  col, ocol,          (* col of a worker's batch and obatch                *)
  a, i,               (* a worker's next slot, and its loop index          *)
  pc,                 (* of each worker                                    *)
  live,               (* cells <<array, index>> with an allocated object   *)
  stop,
  main, outstanding   (* where main is; the next slot it frees             *)

vars == <<allocations, col, ocol, a, i, pc, live, stop, main, outstanding>>

Init ==
  /\ allocations = [s \in Worker |-> nullptr]
  /\ col = [w \in Worker |-> w]
  /\ ocol = [w \in Worker |-> nullptr]
  /\ a = [w \in Worker |-> 0]
  /\ i = [w \in Worker |-> 0]
  /\ pc = [w \in Worker |-> "top"]
  /\ live = {}
  /\ stop = FALSE
  /\ main = "sleep"
  /\ outstanding = 0

cycleUp(v) == IF v >= Threads - 1 THEN 0 ELSE v + 1

Goto(w, label) == pc' = [pc EXCEPT ![w] = label]
-------------------------------------------------------------------------------
Top(w) ==
  /\ pc[w] = "top"
  /\ Goto(w, IF stop THEN "done" ELSE "alloc")
  /\ i' = [i EXCEPT ![w] = Batch - 1]
  /\ UNCHANGED <<allocations, col, ocol, a, live, stop, main, outstanding>>

Alloc(w) ==
  /\ pc[w] = "alloc"
  /\ live' = live \cup {<<col[w], i[w]>>}
  /\ i' = [i EXCEPT ![w] = @ - 1]
  /\ IF i[w] = 0
     THEN /\ ocol' = [ocol EXCEPT ![w] = col[w]]
          /\ Goto(w, "test")
     ELSE UNCHANGED <<ocol, pc>>
  /\ UNCHANGED <<allocations, col, a, stop, main, outstanding>>

(* Leaving the exchange loop: with an array to empty, or without one.       *)
Leave(w, c) ==
  /\ Goto(w, IF c = nullptr THEN "done" ELSE "free")
  /\ i' = [i EXCEPT ![w] = 0]

Test(w) ==
  /\ pc[w] = "test"
  /\ IF stop THEN Leave(w, col[w]) ELSE Goto(w, "swap") /\ UNCHANGED i
  /\ UNCHANGED <<allocations, col, ocol, a, live, stop, main, outstanding>>

(* Mutant: an array is taken from a slot and nothing is left in its place.  *)
SwapTakesOnly(w) ==
  /\ pc[w] = "swap"
  /\ LET got == allocations[a[w]] IN
       /\ col' = [col EXCEPT ![w] = got]
       /\ allocations' = IF got = nullptr THEN [allocations EXCEPT ![a[w]] = col[w]]
                         ELSE allocations
       /\ IF got \in {ocol[w], nullptr}
          THEN /\ a' = [a EXCEPT ![w] = cycleUp(@)]
               /\ Goto(w, "test")
               /\ UNCHANGED i
          ELSE Leave(w, got) /\ UNCHANGED a
  /\ UNCHANGED <<ocol, live, stop, main, outstanding>>

(* Fas.  The worker goes on with nothing in hand until it gets an array     *)
(* that is not the one it filled.                                           *)
Swap(w) ==
  /\ pc[w] = "swap"
  /\ LET got == allocations[a[w]] IN
       /\ col' = [col EXCEPT ![w] = got]
       /\ allocations' = [allocations EXCEPT ![a[w]] = col[w]]
       /\ IF got \in {ocol[w], nullptr}
          THEN /\ a' = [a EXCEPT ![w] = cycleUp(@)]
               /\ Goto(w, "test")
               /\ UNCHANGED i
          ELSE Leave(w, got) /\ UNCHANGED a
  /\ UNCHANGED <<ocol, live, stop, main, outstanding>>

Free(w) ==
  /\ pc[w] = "free"
  /\ live' = live \ {<<col[w], i[w]>>}
  /\ i' = [i EXCEPT ![w] = @ + 1]
  /\ IF i[w] = Batch - 1
     THEN /\ a' = [a EXCEPT ![w] = cycleUp(@)]
          /\ Goto(w, "top")
     ELSE UNCHANGED <<a, pc>>
  /\ UNCHANGED <<allocations, col, ocol, stop, main, outstanding>>

worker(w) == Top(w) \/ Alloc(w) \/ Test(w) \/ Swap(w) \/ Free(w)
-------------------------------------------------------------------------------
(* main sleeps, stops the workers, joins them and frees what the slots hold. *)
Stop ==
  /\ main = "sleep"
  /\ stop' = TRUE
  /\ main' = "join"
  /\ UNCHANGED <<allocations, col, ocol, a, i, pc, live, outstanding>>

(* Mutant: main does not wait for the workers. *)
JoinNobody ==
  /\ main = "join"
  /\ main' = "free"
  /\ UNCHANGED <<allocations, col, ocol, a, i, pc, live, stop, outstanding>>

Join ==
  /\ main = "join"
  /\ \A w \in Worker : pc[w] = "done"
  /\ main' = "free"
  /\ UNCHANGED <<allocations, col, ocol, a, i, pc, live, stop, outstanding>>

CellsOf(b) == {b} \X Cell

FreeOutstanding ==
  /\ main = "free"
  /\ live' = live \ CellsOf(allocations[outstanding])
  /\ outstanding' = outstanding + 1
  /\ main' = IF outstanding = Threads - 1 THEN "end" ELSE main
  /\ UNCHANGED <<allocations, col, ocol, a, i, pc, stop>>

Main == Stop \/ Join \/ FreeOutstanding

Next == Main \/ \E w \in Worker : worker(w)

(* Every thread is scheduled again and again, and the sleep ends.           *)
Fairness == WF_vars(Main) /\ \A w \in Worker : WF_vars(worker(w))
-------------------------------------------------------------------------------
(* No array is ever in two places, or in none: another worker's, a slot's   *)
(* and the holder's ends of an exchange never keep the same array.          *)
BatchInOnePlace ==
  /\ \A v, w \in Worker :
       /\ v # w /\ col[v] # nullptr => col[v] # col[w]
       /\ v # w /\ allocations[v] # nullptr => allocations[v] # allocations[w]
       /\ col[v] # nullptr => col[v] # allocations[w]
  /\ \A b \in Worker : \E w \in Worker : b \in {col[w], allocations[w]}

(* Cell c of the worker's array has an object: the array is filled from the *)
(* last cell and emptied from the first.                                    *)
Holding(w, c) ==
  \/ pc[w] = "alloc" /\ c > i[w]
  \/ pc[w] = "free" /\ c >= i[w]
  \/ pc[w] \in {"test", "swap"}

(* An array in a slot is full and the array in hand is filled or emptied as *)
(* far as its worker has got: no object is overwritten, freed twice or read *)
(* after it is freed, and none is left when main ends.                      *)
EachObjectFreedOnce ==
  /\ live \subseteq Worker \X Cell
  /\ \A b \in Worker, c \in Cell :
       <<b, c>> \in live <=>
         \/ \E w \in Worker : col[w] = b /\ Holding(w, c)
         \/ \E s \in Worker : allocations[s] = b /\ s >= outstanding
===============================================================================
