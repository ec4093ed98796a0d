-------------------------------- MODULE Larson ---------------------------------
(***************************************************************************)
(* larson.cc: each slice of an array of objects is worked on by a relay of *)
(* threads.  A thread frees and allocates objects of its slice at random,  *)
(* says it has finished and starts its successor.  main stops the relays,  *)
(* waits for the slices to be finished and, after a rest, starts one relay *)
(* more.  How long main sleeps and rests is left open: a thread may start  *)
(* too late to be heard, or be there still in the next round.              *)
(***************************************************************************)
EXTENDS Integers

CONSTANTS
  min_threads, max_threads, chperthread,
  NumBlocks,          (* objects a thread frees and allocates                *)
  Thread,             (* identities of threads                               *)
  MaxRelays           (* bound: successors started                           *)

Slice == 0 .. max_threads - 1
Chunk == 0 .. chperthread - 1
NoSlice == -1

VARIABLES
  main, i,            (* where main is, and its loop index     *)
  num_threads, prevthreads,
  stopflag,
  finished,           (* of each slice                         *)
  array, pc, cblks,   (* of each thread: its slice, place, loop index *)
  victim,             (* the block a thread has freed          *)
  blkp,               (* of each slice and index: objects allocated for it, *)
                      (* less objects freed from it                         *)
  relays,             (* history: successors started                        *)
  late,               (* history: slices with a thread when main had rested *)
  unheard             (* history: slices whose thread returned at once      *)

thread == <<array, pc, cblks, victim>>
history == <<relays, late, unheard>>
vars == <<main, i, num_threads, prevthreads, stopflag, finished, thread, blkp, history>>

Init ==
  /\ main = "warmup" /\ i = 0
  /\ num_threads = min_threads /\ prevthreads = 0
  /\ stopflag = FALSE
  /\ finished = [s \in Slice |-> FALSE]
  /\ array = [t \in Thread |-> NoSlice]
  /\ pc = [t \in Thread |-> "none"]
  /\ cblks = [t \in Thread |-> 0]
  /\ victim = [t \in Thread |-> 0]
  /\ blkp = [s \in Slice |-> [k \in Chunk |-> 0]]
  /\ relays = 0 /\ late = {} /\ unheard = {}

Idle == {t \in Thread : array[t] = NoSlice}

_beginthread(t, s) ==
  /\ array' = [array EXCEPT ![t] = s]
  /\ pc' = [pc EXCEPT ![t] = "start"]
  /\ UNCHANGED <<cblks, victim>>

(* The locals of a thread go with it.                                       *)
End(t) ==
  /\ array' = [array EXCEPT ![t] = NoSlice]
  /\ pc' = [pc EXCEPT ![t] = "none"]
  /\ cblks' = [cblks EXCEPT ![t] = 0]
  /\ victim' = [victim EXCEPT ![t] = 0]
-------------------------------------------------------------------------------
(* runthreads, one round after another.  A round warms up its new slices.   *)
Warmup ==
  /\ main = "warmup"
  /\ blkp' = [s \in Slice |-> IF s \in prevthreads .. num_threads - 1
                             THEN [k \in Chunk |-> blkp[s][k] + 1] ELSE blkp[s]]
  /\ stopflag' = FALSE
  /\ main' = "launch"
  /\ i' = 0
  /\ UNCHANGED <<num_threads, prevthreads, finished, thread, history>>

Launch ==
  /\ main = "launch"
  /\ finished' = [finished EXCEPT ![i] = FALSE]
  /\ \E t \in Idle : _beginthread(t, i)
  /\ i' = i + 1
  /\ main' = IF i + 1 = num_threads THEN "sleep" ELSE main
  /\ UNCHANGED <<num_threads, prevthreads, stopflag, blkp, history>>

(* A thread that starts after this returns without a word.                  *)
Stop ==
  /\ main = "sleep"
  /\ stopflag' = TRUE
  /\ main' = "wait"
  /\ i' = 0
  /\ UNCHANGED <<num_threads, prevthreads, finished, thread, blkp, history>>

Wait ==
  /\ main = "wait"
  /\ finished[i]
  /\ i' = i + 1
  /\ main' = IF i + 1 = num_threads THEN "rest" ELSE main
  /\ UNCHANGED <<num_threads, prevthreads, stopflag, finished, thread, blkp, history>>

(* Mutant: the next round warms up every slice. *)
RestForgets ==
  /\ main = "rest"
  /\ late' = late \cup {array[t] : t \in Thread \ Idle}
  /\ num_threads' = num_threads + 1
  /\ main' = IF num_threads = max_threads THEN "end" ELSE "warmup"
  /\ UNCHANGED <<i, prevthreads, stopflag, finished, thread, blkp, relays, unheard>>

(* The results are printed and main sleeps "for old threads to die"; those  *)
(* that have not go on.                                                     *)
Rest ==
  /\ main = "rest"
  /\ late' = late \cup {array[t] : t \in Thread \ Idle}
  /\ prevthreads' = num_threads
  /\ num_threads' = num_threads + 1
  /\ main' = IF num_threads = max_threads THEN "end" ELSE "warmup"
  /\ UNCHANGED <<i, stopflag, finished, thread, blkp, relays, unheard>>

runthreads == Warmup \/ Launch \/ Stop \/ Wait \/ Rest
-------------------------------------------------------------------------------
(* exercise_heap.                                                           *)

Start(t) ==
  /\ pc[t] = "start"
  /\ IF stopflag
     THEN /\ End(t)
          /\ unheard' = IF finished[array[t]] THEN unheard ELSE unheard \cup {array[t]}
     ELSE /\ pc' = [pc EXCEPT ![t] = "begin"]
          /\ UNCHANGED <<array, cblks, victim, unheard>>
  /\ UNCHANGED <<main, i, num_threads, prevthreads, stopflag, finished, blkp, relays, late>>

Begin(t) ==
  /\ pc[t] = "begin"
  /\ finished' = [finished EXCEPT ![array[t]] = FALSE]
  /\ cblks' = [cblks EXCEPT ![t] = 0]
  /\ pc' = [pc EXCEPT ![t] = "free"]
  /\ UNCHANGED <<array, main, i, num_threads, prevthreads, stopflag, victim, blkp, history>>

(* lran2 % asize: any block of the slice.                                   *)
lran2 == Chunk

Free(t) ==
  /\ pc[t] = "free"
  /\ \E k \in lran2 :
       /\ victim' = [victim EXCEPT ![t] = k]
       /\ blkp' = [blkp EXCEPT ![array[t]][k] = @ - 1]
  /\ pc' = [pc EXCEPT ![t] = "malloc"]
  /\ UNCHANGED <<array, cblks, main, i, num_threads, prevthreads, stopflag, finished, history>>

Malloc(t) ==
  /\ pc[t] = "malloc"
  /\ blkp' = [blkp EXCEPT ![array[t]][victim[t]] = @ + 1]
  /\ cblks' = [cblks EXCEPT ![t] = @ + 1]
  /\ pc' = [pc EXCEPT ![t] = IF stopflag \/ cblks[t] + 1 = NumBlocks THEN "finish" ELSE "free"]
  /\ UNCHANGED <<array, victim, main, i, num_threads, prevthreads, stopflag, finished, history>>

Finish(t) ==
  /\ pc[t] = "finish"
  /\ finished' = [finished EXCEPT ![array[t]] = TRUE]
  /\ pc' = [pc EXCEPT ![t] = "relay"]
  /\ UNCHANGED <<array, cblks, victim, main, i, num_threads, prevthreads, stopflag, blkp,
                 history>>

(* The time is looked at again: a successor may start after main has seen   *)
(* its slice finished.                                                      *)
Relay(t) ==
  /\ pc[t] = "relay"
  /\ IF stopflag THEN End(t) /\ UNCHANGED relays
     ELSE /\ relays < MaxRelays
          /\ relays' = relays + 1
          /\ \E u \in Idle :
               /\ array' = [array EXCEPT ![u] = array[t], ![t] = NoSlice]
               /\ pc' = [pc EXCEPT ![u] = "start", ![t] = "none"]
          /\ cblks' = [cblks EXCEPT ![t] = 0]
          /\ victim' = [victim EXCEPT ![t] = 0]
  /\ UNCHANGED <<main, i, num_threads, prevthreads, stopflag, finished, blkp, late, unheard>>

exercise_heap(t) ==
  Start(t) \/ Begin(t) \/ Free(t) \/ Malloc(t) \/ Finish(t) \/ Relay(t)

Next == runthreads \/ \E t \in Thread : exercise_heap(t)

Fairness == WF_vars(runthreads) /\ \A t \in Thread : WF_vars(exercise_heap(t))

Finished == main = "end"
-------------------------------------------------------------------------------
Warmed == 0 .. (IF main \in {"warmup", "end"} THEN prevthreads ELSE num_threads) - 1

(* A slice that is warmed up has one thread at most, and each of its blocks *)
(* has its one object but that which the thread has freed and not yet       *)
(* replaced: none is freed twice or lost through relays and rounds.  Only   *)
(* the slices are excepted on which a thread was still there when main had  *)
(* rested: such a thread can meet the next round's, on its own slice.       *)
BlocksHeld ==
  \A s \in Warmed \ late :
    LET here == {t \in Thread : array[t] = s} IN
    /\ \A t, u \in here : t = u
    /\ \A k \in Chunk :
         blkp[s][k] = IF \E t \in here : pc[t] = "malloc" /\ victim[t] = k THEN 0 ELSE 1
===============================================================================
