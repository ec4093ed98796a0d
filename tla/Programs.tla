------------------------------- MODULE Programs --------------------------------
(***************************************************************************)
(* The programs of the repository that put load on the allocator, one of   *)
(* them in each behaviour: ownership.cc (whose module is extended),        *)
(* ownershipPT.cc, larson.cc and latency.cc.                               *)
(***************************************************************************)
EXTENDS Ownership, Sequences, FiniteSets

CONSTANTS
  Prod, Cons, N, size,                            (* ownershipPT.cc *)
  min_threads, max_threads, chperthread, NumBlocks,
  Thread, MaxRelays,                              (* larson.cc      *)
  THREADS, GROUP1, GROUP2                         (* latency.cc     *)

ASSUME BufferAssumption ==
  /\ Prod \cap Cons = {}
  /\ N \in Nat \ {0}
  /\ size \in Nat \ {0}

ASSUME RelaysAssumption ==
  /\ max_threads \in Nat
  /\ min_threads \in 1 .. max_threads      (* otherwise there is no round *)
  /\ chperthread \in Nat \ {0}
  /\ NumBlocks \in Nat \ {0}

ASSUME RoundsAssumption ==
  /\ THREADS \in Seq(Nat \ {0})
  /\ THREADS # <<>>
  /\ \A r \in 1 .. Len(THREADS) : THREADS[r] <= THREADS[Len(THREADS)]
  /\ GROUP1 \in Nat \ {0}
  /\ GROUP2 \in Nat \ {0}

VARIABLES
  program,
  b_pc, b_prod, b_cons, b_buffer, b_front, b_back, b_count, b_hand, b_i, b_live, b_inserted,
  b_removed,
  l_main, l_i, l_num, l_prev, l_stopflag, l_finished, l_array, l_pc, l_cblks, l_victim, l_blkp,
  l_relays, l_late, l_unheard,
  e_round, e_main, e_pc, e_exp, e_g, e_cps, e_barrier, e_eresults

Buffer == INSTANCE BoundedBuffer WITH
  pc <- b_pc, prod <- b_prod, cons <- b_cons, buffer <- b_buffer, front <- b_front,
  back <- b_back, count <- b_count, hand <- b_hand, i <- b_i, live <- b_live,
  inserted <- b_inserted, removed <- b_removed

Relays == INSTANCE Larson WITH
  main <- l_main, i <- l_i, num_threads <- l_num, prevthreads <- l_prev,
  stopflag <- l_stopflag, finished <- l_finished, array <- l_array, pc <- l_pc,
  cblks <- l_cblks, victim <- l_victim, blkp <- l_blkp, relays <- l_relays,
  late <- l_late, unheard <- l_unheard

Rounds == INSTANCE Latency WITH
  round <- e_round, main <- e_main, pc <- e_pc, exp <- e_exp, g <- e_g, cps <- e_cps,
  barrier <- e_barrier, eresults <- e_eresults

buffer == <<b_pc, b_prod, b_cons, b_buffer, b_front, b_back, b_count, b_hand, b_i, b_live,
            b_inserted, b_removed>>
slices == <<l_main, l_i, l_num, l_prev, l_stopflag, l_finished, l_array, l_pc, l_cblks,
            l_victim, l_blkp, l_relays, l_late, l_unheard>>
team == <<e_round, e_main, e_pc, e_exp, e_g, e_cps, e_barrier, e_eresults>>

all == <<program, vars, buffer, slices, team>>

AllInit ==
  /\ program \in {"ownership", "ownershipPT", "larson", "latency"}
  /\ Init /\ Buffer!Init /\ Relays!Init /\ Rounds!Init

AllNext ==
  /\ UNCHANGED program
  /\ \/ program = "ownership" /\ Next /\ UNCHANGED <<buffer, slices, team>>
     \/ program = "ownershipPT" /\ Buffer!Next /\ UNCHANGED <<vars, slices, team>>
     \/ program = "larson" /\ Relays!Next /\ UNCHANGED <<vars, buffer, team>>
     \/ program = "latency" /\ Rounds!Next /\ UNCHANGED <<vars, buffer, slices>>

(* Only the steps of the program that runs change anything, so that the     *)
(* fairness of the others asks for nothing but what they are in: it is      *)
(* required of the program that runs.                                       *)
AllSpec ==
  /\ AllInit /\ [][AllNext]_all
  /\ program = "ownership" => Fairness
  /\ program = "ownershipPT" => Buffer!Fairness
  /\ program = "larson" => Relays!Fairness
  /\ program = "latency" => Rounds!Fairness
-------------------------------------------------------------------------------
(* ownershipPT: objects leave the buffer in the order they came.            *)
BufferInOrder == Buffer!InOrder

(* larson: one thread and one object for each block of a slice, through     *)
(* relays and rounds, unless a thread outlived the rest on that slice.      *)
RelaysHoldBlocks == Relays!BlocksHeld

(* latency: experiments run side by side, everything freed in between.      *)
RoundsSideBySide == Rounds!SideBySide

(* latency: what is averaged has been measured.                             *)
RoundsAveraged == Rounds!Averaged

(* Each program ends: no worker spins on for ever after the stop, no thread *)
(* sleeps on a condition nobody signals, and no slice is never finished; of *)
(* larson, unless a thread first ran after the stop and returned unheard.   *)
ProgramEnds ==
  <>(CASE program = "ownership" -> main = "end"
       [] program = "ownershipPT" -> Buffer!Finished
       [] program = "larson" -> Relays!Finished \/ l_unheard # {}
       [] program = "latency" -> Rounds!Finished)
===============================================================================
