----------------------------- MODULE LLHeapProofs -----------------------------
(***************************************************************************)
(* What holds of LLHeap for any number of threads, heaps, buckets and      *)
(* blocks, when no thread calls the allocator after its destructor ran: no *)
(* heap is shared or lost, and no block is ever in two hands, because what *)
(* the lists, the threads and the program hold is kept apart by every step.*)
(***************************************************************************)
EXTENDS LLHeap, FiniteSetTheorems, TLAPS

(* The variables that say which thread has which heap. *)
HeapTypeOK ==
  /\ life \in [Thread -> {"none", "running", "detached"}]
  /\ heapManager \in [Thread -> Heap \cup {Unset}]
  /\ freeHeapManagersList \in Seq(Heap)
  /\ heapStorage \subseteq Heap
  /\ {mgrLock, extLock} \subseteq Thread \cup {Null}
  /\ pc \in [Thread -> Label]

(* Only a running thread is inside the allocator; the heaps of running      *)
(* threads, those on the stack and those of the superblock are all          *)
(* different heaps.                                                         *)
HeapInv ==
  /\ HeapTypeOK
  /\ \A t \in Thread : pc[t] # "idle" => life[t] = "running"
  /\ \A t \in Thread : pc[t] = "dtor" => heapManager[t] # Unset
  /\ \A t, u \in Thread :
       /\ t # u /\ life[t] = "running" /\ life[u] = "running"
       /\ heapManager[t] # Unset
       => heapManager[t] # heapManager[u]
  /\ \A i, j \in DOMAIN freeHeapManagersList :
       i # j => freeHeapManagersList[i] # freeHeapManagersList[j]
  /\ \A i \in DOMAIN freeHeapManagersList :
       /\ freeHeapManagersList[i] \notin heapStorage
       /\ \A t \in Thread :
            life[t] = "running" => heapManager[t] # freeHeapManagersList[i]
  /\ \A t \in Thread : life[t] = "running" => heapManager[t] \notin heapStorage

(* The initial state has no running thread. *)
LEMMA HeapInit == ASSUME Init PROVE HeapInv
<1>1. freeHeapManagersList = <<>> /\ DOMAIN freeHeapManagersList = {}
  BY DEF Init
<1>2. HeapTypeOK
  BY DEF Init, HeapTypeOK, Label
<1> QED BY <1>1, <1>2 DEF Init, HeapInv

(* Which heaps there are and where: unchanged by most steps. *)
heaps == <<life, heapManager, freeHeapManagersList, heapStorage>>

(* The steps in which t takes a lock or decides to wait for one. *)
Waits(t) == LockMgr(t) \/ ManagerExtend(t) \/ LockExt(t) \/ LockDtor(t)

(* From where and to where they lead. *)
WaitMoves == {<<"boot", "getHeap">>, <<"bump", "extend">>, <<"extend", "map">>, <<"idle", "dtor">>}

(* The steps in which t returns from malloc without storage. *)
Fails(t) == ExtendFails(t) \/ MapFails(t)

(* The steps of malloc and free in which t neither waits nor fails. *)
Works(t) ==
  \/ ReadFreeList(t) \/ Pop(t) \/ TestRemote(t) \/ Pull(t) \/ Split(t) \/ Bump(t)
  \/ ExtendBump(t) \/ ExtendFragment(t) \/ SetHome(t) \/ MapLarge(t) \/ Free(t)

(* The steps of the allocator and of the program, in these kinds. *)
LEMMA NextKinds ==
  ASSUME Next
  PROVE  \E t \in Thread :
           \/ ReuseHeap(t) \/ NewHeap(t) \/ HeapManagerDtor(t)
           \/ Waits(t) \/ Fails(t) \/ Works(t)
           \/ ThreadCreate(t) \/ ThreadEnd(t)
           \/ \E k \in Bucket \cup {Large} : CallMalloc(t, k)
           \/ \E b \in Block : CallFree(t, b)
<1>1. PICK t \in Thread : Step(t) \/ Call(t)
  BY DEF Next
<1>2. Boot(t) => ReuseHeap(t) \/ NewHeap(t) \/ Waits(t)
  BY DEF Boot, Waits
<1>3. Extend(t) => Waits(t) \/ Fails(t) \/ Works(t)
  BY DEF Extend, Waits, Fails, Works
<1>4. Malloc(t) => Waits(t) \/ Fails(t) \/ Works(t)
  BY <1>3 DEF Malloc, Fails, Works
<1>5. Free(t) => Works(t)
  BY DEF Works
<1>6. Call(t) => \/ ThreadCreate(t) \/ ThreadEnd(t) \/ Waits(t)
                 \/ \E k \in Bucket \cup {Large} : CallMalloc(t, k)
                 \/ \E b \in Block : CallFree(t, b)
  BY DEF Call, Waits
<1> QED BY <1>1, <1>2, <1>4, <1>5, <1>6 DEF Step

(* A step that waits moves the pc of its thread, and may take a lock. *)
LEMMA WaitsMove ==
  ASSUME NEW t \in Thread, Waits(t)
  PROVE  /\ UNCHANGED <<heaps, lists, header, storage, held, size, block, freeHead>>
         /\ mgrLock' \in {mgrLock, t} /\ extLock' \in {extLock, t}
         /\ \E l \in Label : <<pc[t], l>> \in WaitMoves /\ pc' = [pc EXCEPT ![t] = l]
         /\ pc[t] = "idle" => life[t] = "running" /\ heapManager[t] # Unset
<1>1. CASE LockMgr(t)
  BY <1>1 DEF LockMgr, Goto, Label, WaitMoves, heaps
<1>2. CASE ManagerExtend(t)
  BY <1>2 DEF ManagerExtend, master, Goto, Label, WaitMoves, heaps
<1>3. CASE LockExt(t)
  BY <1>3 DEF LockExt, Goto, Label, WaitMoves, heaps
<1>4. CASE LockDtor(t)
  BY <1>4 DEF LockDtor, Goto, Label, WaitMoves, heaps
<1> QED BY <1>1, <1>2, <1>3, <1>4 DEF Waits

(* A step that moves a running thread's pc and no heap keeps HeapInv. *)
LEMMA HeapQuiet ==
  ASSUME HeapInv, NEW t \in Thread, NEW l \in Label, life[t] = "running",
         l = "dtor" => heapManager[t] # Unset,
         {mgrLock', extLock'} \subseteq Thread \cup {Null},
         pc' = [pc EXCEPT ![t] = l], UNCHANGED heaps
  PROVE  HeapInv'
BY DEF HeapInv, HeapTypeOK, heaps

(* Every step of the allocator and of the program keeps HeapInv. *)
LEMMA HeapStep ==
  ASSUME ~PostDtorCalls, HeapInv, [Next]_vars
  PROVE  HeapInv'
<1>1. CASE UNCHANGED vars
  BY <1>1 DEF vars, master, local, HeapInv, HeapTypeOK
<1>2. ASSUME NEW t \in Thread, ThreadCreate(t) PROVE HeapInv'
  BY <1>2, ConstAssumption DEF ThreadCreate, HeapInv, HeapTypeOK, master, local, ConstAssumption
<1>3. ASSUME NEW t \in Thread, HeapManagerDtor(t) PROVE HeapInv'
  <2> DEFINE h == heapManager[t]
             S == freeHeapManagersList
             S1 == freeHeapManagersList'
  <2>1. h \in Heap /\ S \in Seq(Heap) /\ S1 = <<h>> \o S
    BY <1>3, ConstAssumption DEF HeapManagerDtor, HeapInv, HeapTypeOK, ConstAssumption
  <2>2. S1 \in Seq(Heap) /\ Len(S1) = Len(S) + 1
    BY <2>1
  <2>3. \A i \in DOMAIN S1 : IF i = 1 THEN S1[i] = h
                             ELSE i - 1 \in DOMAIN S /\ S1[i] = S[i - 1]
    BY <2>1, <2>2
  <2>4. \A i, j \in DOMAIN S1 : i # j => S1[i] # S1[j]
    <3>1. DOMAIN S1 \subseteq Int
      BY <2>2
    <3>2. \A i \in DOMAIN S : S[i] # h
      BY <1>3 DEF HeapManagerDtor, HeapInv
    <3>3. \A i, j \in DOMAIN S : i # j => S[i] # S[j]
      BY DEF HeapInv
    <3>4. \A i, j \in DOMAIN S1 : i # j => i - 1 # j - 1
      BY <3>1
    <3> QED BY <2>3, <3>2, <3>3, <3>4
  <2>5. \A i \in DOMAIN S1 :
          /\ S1[i] \notin heapStorage'
          /\ \A u \in Thread : life'[u] = "running" => heapManager'[u] # S1[i]
    BY <1>3, <2>1, <2>3 DEF HeapManagerDtor, HeapInv, HeapTypeOK
  <2>6. HeapTypeOK'
    BY <1>3, <2>2 DEF HeapManagerDtor, HeapInv, HeapTypeOK, Return, Goto, Label
  <2> QED
    BY <1>3, <2>4, <2>5, <2>6 DEF HeapManagerDtor, HeapInv, HeapTypeOK, Return, Goto
<1>4. ASSUME NEW t \in Thread, ThreadEnd(t) PROVE HeapInv'
  BY <1>4 DEF ThreadEnd, HeapInv, HeapTypeOK, master, local
<1>5. ASSUME NEW t \in Thread, ReuseHeap(t) PROVE HeapInv'
  <2> DEFINE S == freeHeapManagersList
             S1 == freeHeapManagersList'
             h == Head(S)
  <2>1. S \in Seq(Heap) /\ S # <<>> /\ S1 = Tail(S)
    BY <1>5 DEF ReuseHeap, HeapInv, HeapTypeOK
  <2>2. h \in Heap /\ h = S[1] /\ 1 \in DOMAIN S /\ S1 \in Seq(Heap)
    BY <2>1
  <2>3. \A i \in DOMAIN S1 : i + 1 \in DOMAIN S /\ i + 1 # 1 /\ S1[i] = S[i + 1]
    BY <2>1
  <2>4. \A i, j \in DOMAIN S1 : i # j => i + 1 # j + 1
    BY <2>1
  <2>5. \A i, j \in DOMAIN S1 : i # j => S1[i] # S1[j]
    BY <2>3, <2>4 DEF HeapInv
  <2>6. \A i \in DOMAIN S1 : S1[i] # h
    BY <2>2, <2>3 DEF HeapInv
  <2>7. h \notin heapStorage /\ \A u \in Thread : life[u] = "running" => heapManager[u] # h
    BY <2>2 DEF HeapInv
  <2>8. /\ pc[t] = "getHeap" /\ life[t] = "running"
        /\ heapManager' = [heapManager EXCEPT ![t] = h]
        /\ UNCHANGED <<life, heapStorage, extLock>> /\ mgrLock' = Null
        /\ \E l \in {"malloc", "free"} : pc' = [pc EXCEPT ![t] = l]
    BY <1>5 DEF ReuseHeap, GotHeap, HeapInv, Goto, Label
  <2>9. HeapTypeOK'
    BY <2>1, <2>2, <2>8 DEF HeapInv, HeapTypeOK, Label
  <2>10. \A i \in DOMAIN S1 :
          /\ S1[i] \notin heapStorage'
          /\ \A u \in Thread : life'[u] = "running" => heapManager'[u] # S1[i]
    BY <2>3, <2>6, <2>8 DEF HeapInv, HeapTypeOK
  <2> QED BY <2>5, <2>7, <2>8, <2>9, <2>10 DEF HeapInv, HeapTypeOK
<1>6. ASSUME NEW t \in Thread, NewHeap(t) PROVE HeapInv'
  <2>1. PICK h \in heapStorage : GotHeap(t, h) /\ heapStorage' = heapStorage \ {h}
    BY <1>6 DEF NewHeap
  <2>2. /\ pc[t] = "getHeap" /\ life[t] = "running"
        /\ heapManager' = [heapManager EXCEPT ![t] = h]
        /\ UNCHANGED <<life, freeHeapManagersList, extLock>> /\ mgrLock' = Null
        /\ \E l \in {"malloc", "free"} : pc' = [pc EXCEPT ![t] = l]
    BY <1>6, <2>1 DEF NewHeap, GotHeap, HeapInv, Goto
  <2> QED BY <2>1, <2>2 DEF HeapInv, HeapTypeOK, Label
<1>7. ASSUME NEW t \in Thread, Waits(t) PROVE HeapInv'
  <2>1. PICK l \in Label : <<pc[t], l>> \in WaitMoves /\ pc' = [pc EXCEPT ![t] = l]
    BY <1>7, WaitsMove
  <2>2. life[t] = "running" /\ (l = "dtor" => heapManager[t] # Unset)
    BY <1>7, <2>1, WaitsMove DEF WaitMoves, HeapInv
  <2>3. {mgrLock', extLock'} \subseteq Thread \cup {Null} /\ UNCHANGED heaps
    BY <1>7, WaitsMove DEF HeapInv, HeapTypeOK
  <2> QED BY <2>1, <2>2, <2>3, HeapQuiet
<1>8. ASSUME NEW t \in Thread, Works(t) \/ Fails(t) PROVE HeapInv'
  <2>1. life[t] = "running"
    BY <1>8 DEF HeapInv, Works, Fails, Free, ReadFreeList, Pop, TestRemote, Pull, Split, Bump,
       ExtendBump, ExtendFragment, ExtendFails, MapFails, Extended, SetHome, MapLarge,
       ReadHome, Link, Push, RemoteLink, RemotePush, RemoteRetry, Unmap
  <2>2. UNCHANGED heaps /\ mgrLock' = mgrLock /\ extLock' \in {extLock, Null}
    BY <1>8 DEF heaps, master, Works, Fails, Free, ReadFreeList, Pop, TestRemote, Pull, Split,
       Bump, ExtendBump, ExtendFragment, ExtendFails, MapFails, Extended, SetHome, MapLarge,
       ReadHome, Link, Push, RemoteLink, RemotePush, RemoteRetry, Unmap
  <2>3. {mgrLock', extLock'} \subseteq Thread \cup {Null}
    BY <2>2 DEF HeapInv, HeapTypeOK
  <2>4. \E l \in Label : l # "dtor" /\ pc' = [pc EXCEPT ![t] = l]
    <3>1. CASE (Works(t) \/ Fails(t)) /\ ~Free(t)
      BY <3>1 DEF Works, Fails, ReadFreeList, Pop, TestRemote, Pull, Split, Bump, ExtendBump,
         ExtendFragment, ExtendFails, MapFails, SetHome, MapLarge, Goto, Return, Label
    <3>2. CASE Free(t) /\ ~RemoteRetry(t)
      BY <3>2 DEF Free, ReadHome, Link, Push, RemoteLink, RemotePush, Unmap, Goto, Return, Label
    <3>3. CASE RemoteRetry(t)
      BY <3>3 DEF RemoteRetry, local, HeapInv, HeapTypeOK, Label
    <3> QED BY <1>8, <3>1, <3>2, <3>3
  <2> QED BY <2>1, <2>2, <2>3, <2>4, HeapQuiet
<1>9. ASSUME NEW t \in Thread, NEW k \in Bucket \cup {Large}, CallMalloc(t, k)
      PROVE  HeapInv'
  <2>1. life[t] = "running" /\ UNCHANGED heaps /\ UNCHANGED <<mgrLock, extLock>>
    BY <1>9 DEF CallMalloc, MayCall, heaps, master
  <2>2. \E l \in Label : l # "dtor" /\ pc' = [pc EXCEPT ![t] = l]
    BY <1>9 DEF CallMalloc, Goto, Label
  <2>3. {mgrLock', extLock'} \subseteq Thread \cup {Null}
    BY <2>1 DEF HeapInv, HeapTypeOK
  <2> QED BY <2>1, <2>2, <2>3, HeapQuiet
<1>10. ASSUME NEW t \in Thread, NEW b \in Block, CallFree(t, b) PROVE HeapInv'
  <2>1. life[t] = "running" /\ UNCHANGED heaps /\ UNCHANGED <<mgrLock, extLock>>
    BY <1>10 DEF CallFree, MayCall, heaps, master
  <2>2. \E l \in Label : l # "dtor" /\ pc' = [pc EXCEPT ![t] = l]
    BY <1>10 DEF CallFree, Goto, Label
  <2>3. {mgrLock', extLock'} \subseteq Thread \cup {Null}
    BY <2>1 DEF HeapInv, HeapTypeOK
  <2> QED BY <2>1, <2>2, <2>3, HeapQuiet
<1> QED
  BY <1>1, <1>2, <1>3, <1>4, <1>5, <1>6, <1>7, <1>8, <1>9, <1>10, NextKinds

(* Two threads inside the allocator are in different heaps. *)
LEMMA HeapInvExclusive == ASSUME HeapInv PROVE NoSharedHeap
BY DEF HeapInv, NoSharedHeap, Inside

(* No heap is ever used by two threads at one time, provided that a thread  *)
(* does not come back to the allocator after heapManagerDtor.               *)
THEOREM Exclusive == ~PostDtorCalls /\ Spec => []NoSharedHeap
<1> SUFFICES ASSUME ~PostDtorCalls PROVE Spec => []NoSharedHeap
  OBVIOUS
<1>1. Init => HeapInv
  BY HeapInit
<1>2. HeapInv /\ [Next]_vars => HeapInv'
  BY HeapStep
<1>3. HeapInv => NoSharedHeap
  BY HeapInvExclusive
<1> QED BY <1>1, <1>2, <1>3, PTL DEF Spec

(* A heap is somewhere: in the superblock, on the stack of free heaps, or   *)
(* with a running thread.                                                   *)
Placed(h) == \/ h \in heapStorage
             \/ \E i \in DOMAIN freeHeapManagersList : freeHeapManagersList[i] = h
             \/ \E t \in Thread : life[t] = "running" /\ heapManager[t] = h

(* No heap is lost.  A thread that boots has no heap it would drop.         *)
PlacedInv ==
  /\ \A t \in Thread : pc[t] \in {"boot", "getHeap"} => heapManager[t] = Unset
  /\ \A h \in Heap : Placed(h)

(* A step that moves no heap and does not start a boot keeps PlacedInv.     *)
LEMMA PlacedQuiet ==
  ASSUME HeapInv, PlacedInv, NEW t \in Thread, NEW l,
         l \in {"boot", "getHeap"} => heapManager[t] = Unset,
         pc' = [pc EXCEPT ![t] = l], UNCHANGED heaps
  PROVE  PlacedInv'
BY DEF HeapInv, HeapTypeOK, PlacedInv, Placed, heaps

(* Every step of the allocator and of the program keeps PlacedInv.          *)
LEMMA PlacedStep ==
  ASSUME ~PostDtorCalls, HeapInv, PlacedInv, [Next]_vars
  PROVE  PlacedInv'
<1>1. CASE UNCHANGED vars
  BY <1>1 DEF vars, master, local, PlacedInv, Placed
<1>2. ASSUME NEW t \in Thread, ThreadCreate(t) PROVE PlacedInv'
  BY <1>2 DEF ThreadCreate, HeapInv, HeapTypeOK, PlacedInv, Placed, master, local
<1>3. ASSUME NEW t \in Thread, HeapManagerDtor(t) PROVE PlacedInv'
  <2> DEFINE g == heapManager[t]
             S == freeHeapManagersList
             S1 == freeHeapManagersList'
  <2>1. g \in Heap /\ S \in Seq(Heap) /\ S1 = <<g>> \o S
    BY <1>3, ConstAssumption DEF HeapManagerDtor, HeapInv, HeapTypeOK, ConstAssumption
  <2>2. 1 \in DOMAIN S1 /\ S1[1] = g
    BY <2>1
  <2>3. \A i \in DOMAIN S : i + 1 \in DOMAIN S1 /\ S1[i + 1] = S[i]
    BY <2>1
  <2>4. /\ UNCHANGED <<heapManager, heapStorage>> /\ life' = [life EXCEPT ![t] = "detached"]
        /\ \A u \in Thread : pc'[u] \in {"boot", "getHeap"} => pc'[u] = pc[u]
    BY <1>3 DEF HeapManagerDtor, Return, Goto, HeapInv, HeapTypeOK
  <2>5. ASSUME NEW h \in Heap PROVE Placed(h)'
    <3>1. CASE h = g
      BY <2>2, <3>1 DEF Placed
    <3>2. CASE h # g
      <4>1. CASE \E i \in DOMAIN S : S[i] = h
        BY <2>3, <4>1 DEF Placed
      <4>2. CASE h \in heapStorage
        BY <2>4, <4>2 DEF Placed
      <4>3. CASE \E u \in Thread : life[u] = "running" /\ heapManager[u] = h
        BY <2>4, <3>2, <4>3 DEF Placed, HeapInv, HeapTypeOK
      <4> QED BY <4>1, <4>2, <4>3 DEF PlacedInv, Placed
    <3> QED BY <3>1, <3>2
  <2> QED BY <2>4, <2>5 DEF PlacedInv
<1>4. ASSUME NEW t \in Thread, ThreadEnd(t) PROVE PlacedInv'
  BY <1>4, ConstAssumption
  DEF ThreadEnd, HeapInv, HeapTypeOK, PlacedInv, Placed, master, local, ConstAssumption
<1>5. ASSUME NEW t \in Thread, NEW g \in Heap, HeapInv, GotHeap(t, g),
             UNCHANGED heapStorage \/ heapStorage' = heapStorage \ {g},
             \A i \in DOMAIN freeHeapManagersList :
               freeHeapManagersList[i] # g =>
                 \E j \in DOMAIN freeHeapManagersList' :
                   freeHeapManagersList'[j] = freeHeapManagersList[i]
      PROVE  PlacedInv'
  <2>1. /\ pc[t] = "getHeap" /\ life[t] = "running" /\ UNCHANGED life
        /\ heapManager' = [heapManager EXCEPT ![t] = g]
        /\ pc' = [pc EXCEPT ![t] = IF block[t] = Null THEN "malloc" ELSE "free"]
    BY <1>5 DEF GotHeap, Goto, HeapInv
  <2>2. heapManager[t] = Unset
    BY <2>1 DEF PlacedInv
  <2>3. \A u \in Thread : pc'[u] \in {"boot", "getHeap"} => heapManager'[u] = Unset
    BY <2>1 DEF PlacedInv, HeapInv, HeapTypeOK
  <2>4. ASSUME NEW h \in Heap PROVE Placed(h)'
    <3>1. CASE h = g
      BY <2>1, <3>1 DEF Placed, HeapInv, HeapTypeOK
    <3>2. CASE h # g
      <4>1. CASE \E i \in DOMAIN freeHeapManagersList : freeHeapManagersList[i] = h
        BY <1>5, <3>2, <4>1 DEF Placed
      <4>2. CASE h \in heapStorage
        BY <1>5, <3>2, <4>2 DEF Placed
      <4>3. CASE \E u \in Thread : life[u] = "running" /\ heapManager[u] = h
        BY <2>1, <2>2, <4>3, ConstAssumption DEF Placed, HeapInv, HeapTypeOK, ConstAssumption
      <4> QED BY <4>1, <4>2, <4>3 DEF PlacedInv, Placed
    <3> QED BY <3>1, <3>2
  <2> QED BY <2>3, <2>4 DEF PlacedInv
<1>6. ASSUME NEW t \in Thread, ReuseHeap(t) PROVE PlacedInv'
  <2> DEFINE S == freeHeapManagersList
  <2>1. S \in Seq(Heap) /\ S # <<>> /\ freeHeapManagersList' = Tail(S)
    BY <1>6 DEF ReuseHeap, HeapInv, HeapTypeOK
  <2>2. Head(S) \in Heap /\ Head(S) = S[1]
    BY <2>1
  <2>3. \A i \in DOMAIN S : i # 1 => i - 1 \in DOMAIN Tail(S) /\ Tail(S)[i - 1] = S[i]
    BY <2>1
  <2>4. \A i \in DOMAIN S : S[i] # Head(S) =>
          \E j \in DOMAIN freeHeapManagersList' : freeHeapManagersList'[j] = S[i]
    BY <2>1, <2>2, <2>3
  <2>5. GotHeap(t, Head(S)) /\ UNCHANGED heapStorage
    BY <1>6 DEF ReuseHeap
  <2> QED BY <1>5, <2>2, <2>4, <2>5
<1>7. ASSUME NEW t \in Thread, NewHeap(t) PROVE PlacedInv'
  <2>1. PICK h \in heapStorage : GotHeap(t, h) /\ heapStorage' = heapStorage \ {h}
    BY <1>7 DEF NewHeap
  <2>2. h \in Heap /\ UNCHANGED freeHeapManagersList
    BY <1>7, <2>1 DEF NewHeap, HeapInv, HeapTypeOK
  <2> QED BY <1>5, <2>1, <2>2
<1>8. ASSUME NEW t \in Thread, Waits(t) PROVE PlacedInv'
  <2>1. PICK l \in Label : <<pc[t], l>> \in WaitMoves /\ pc' = [pc EXCEPT ![t] = l]
    BY <1>8, WaitsMove
  <2>2. l \in {"boot", "getHeap"} => heapManager[t] = Unset
    BY <2>1 DEF WaitMoves, PlacedInv
  <2>3. UNCHANGED heaps
    BY <1>8, WaitsMove
  <2> QED BY <2>1, <2>2, <2>3, PlacedQuiet
<1>9. ASSUME NEW t \in Thread, Works(t) \/ Fails(t) PROVE PlacedInv'
  <2>1. UNCHANGED heaps
    BY <1>9 DEF heaps, master, Works, Fails, Free, ReadFreeList, Pop, TestRemote, Pull, Split,
       Bump, ExtendBump, ExtendFragment, ExtendFails, MapFails, Extended, SetHome, MapLarge,
       ReadHome, Link, Push, RemoteLink, RemotePush, RemoteRetry, Unmap
  <2>2. \E l \in Label \ {"boot", "getHeap"} : pc' = [pc EXCEPT ![t] = l]
    <3>1. CASE (Works(t) \/ Fails(t)) /\ ~Free(t)
      BY <3>1 DEF Works, Fails, ReadFreeList, Pop, TestRemote, Pull, Split, Bump, ExtendBump,
         ExtendFragment, ExtendFails, MapFails, SetHome, MapLarge, Goto, Return, Label
    <3>2. CASE Free(t) /\ ~RemoteRetry(t)
      BY <3>2 DEF Free, ReadHome, Link, Push, RemoteLink, RemotePush, Unmap, Goto, Return, Label
    <3>3. CASE RemoteRetry(t)
      BY <3>3 DEF RemoteRetry, local, HeapInv, HeapTypeOK, Label
    <3> QED BY <1>9, <3>1, <3>2, <3>3
  <2> QED BY <2>1, <2>2, PlacedQuiet
<1>10. ASSUME NEW t \in Thread, NEW k \in Bucket \cup {Large}, CallMalloc(t, k)
      PROVE  PlacedInv'
  <2>1. UNCHANGED heaps
    BY <1>10 DEF CallMalloc, heaps, master
  <2>2. \E l \in Label : /\ pc' = [pc EXCEPT ![t] = l]
                         /\ l \in {"boot", "getHeap"} => heapManager[t] = Unset
    BY <1>10 DEF CallMalloc, Goto, Label
  <2> QED BY <2>1, <2>2, PlacedQuiet
<1>11. ASSUME NEW t \in Thread, NEW b \in Block, CallFree(t, b) PROVE PlacedInv'
  <2>1. UNCHANGED heaps
    BY <1>11 DEF CallFree, heaps, master
  <2>2. \E l \in Label : /\ pc' = [pc EXCEPT ![t] = l]
                         /\ l \in {"boot", "getHeap"} => heapManager[t] = Unset
    BY <1>11 DEF CallFree, Goto, Label
  <2> QED BY <2>1, <2>2, PlacedQuiet
<1> QED
  BY <1>1, <1>2, <1>3, <1>4, <1>6, <1>7, <1>8, <1>9, <1>10, <1>11, NextKinds

(* A set with no member counts none, and one with a single member one.      *)
LEMMA CountSmall ==
  /\ \A A : A = {} => Cardinality(A) = 0
  /\ \A A, e : A = {e} => Cardinality(A) = 1
<1>1. \A A : A = {} => Cardinality(A) = 0
  BY FS_EmptySet, Zenon
<1>2. \A e : Cardinality({e}) = 1
  BY FS_Singleton, Zenon
<1> QED BY <1>1, <1>2, Zenon

(* Each heap is in exactly one place.                                       *)
LEMMA HeapInvConserved ==
  ASSUME HeapInv, PlacedInv
  PROVE  HeapsConserved
<1> SUFFICES ASSUME NEW h \in Heap
             PROVE  Cardinality({h} \cap heapStorage) + Cardinality(Stacked(h))
                      + Cardinality(Leased(h)) = 1
  BY DEF HeapsConserved
<1> DEFINE New == {h} \cap heapStorage
           S == freeHeapManagersList
<1>1. h # Unset
  BY ConstAssumption DEF ConstAssumption
<1>2. CASE h \in heapStorage
  <2>1. New = {h} /\ Stacked(h) = {} /\ Leased(h) = {}
    BY <1>2 DEF HeapInv, Stacked, Leased
  <2>2. Cardinality(New) = 1 /\ Cardinality(Stacked(h)) = 0 /\ Cardinality(Leased(h)) = 0
    BY <2>1, CountSmall, Zenon
  <2> QED BY <2>2
<1>3. ASSUME NEW i \in DOMAIN S, S[i] = h PROVE
        Cardinality(New) + Cardinality(Stacked(h)) + Cardinality(Leased(h)) = 1
  <2>1. New = {} /\ Stacked(h) = {i} /\ Leased(h) = {}
    BY <1>3 DEF HeapInv, Stacked, Leased
  <2>2. Cardinality(New) = 0 /\ Cardinality(Stacked(h)) = 1 /\ Cardinality(Leased(h)) = 0
    BY <2>1, CountSmall, Zenon
  <2> QED BY <2>2
<1>4. ASSUME NEW t \in Thread, life[t] = "running", heapManager[t] = h PROVE
        Cardinality(New) + Cardinality(Stacked(h)) + Cardinality(Leased(h)) = 1
  <2>1. New = {} /\ Stacked(h) = {} /\ Leased(h) = {t}
    BY <1>1, <1>4 DEF HeapInv, Stacked, Leased
  <2>2. Cardinality(New) = 0 /\ Cardinality(Stacked(h)) = 0 /\ Cardinality(Leased(h)) = 1
    BY <2>1, CountSmall, Zenon
  <2> QED BY <2>2
<1> QED BY <1>2, <1>3, <1>4 DEF PlacedInv, Placed

(* No heap is lost or given out twice, whatever threads start, boot and end *)
(* in whatever order, provided that a thread does not come back to the      *)
(* allocator after heapManagerDtor.                                         *)
THEOREM NoHeapLost == ~PostDtorCalls /\ Spec => []HeapsConserved
<1> SUFFICES ASSUME ~PostDtorCalls PROVE Spec => []HeapsConserved
  OBVIOUS
<1>1. Init => HeapInv /\ PlacedInv
  BY HeapInit DEF Init, PlacedInv, Placed
<1>2. (HeapInv /\ PlacedInv) /\ [Next]_vars => (HeapInv /\ PlacedInv)'
  BY HeapStep, PlacedStep
<1>3. HeapInv /\ PlacedInv => HeapsConserved
  BY HeapInvConserved
<1> QED BY <1>1, <1>2, <1>3, PTL DEF Spec
-------------------------------------------------------------------------------
(* The types of the variables that HeapTypeOK leaves out. *)
BlockTypeOK ==
  /\ freeList \in [FreeHeader -> Block \cup {Null}]
  /\ remoteList \in [FreeHeader -> Block \cup {Null}]
  /\ header \in [Block -> FreeHeader \cup Block \cup {Null, Mmapped}]
  /\ fresh \subseteq Block
  /\ cut \in [Block -> FreeHeader \cup {Null}]
  /\ held \subseteq Block
  /\ size \in [Thread -> Bucket \cup {Large, Null}]
  /\ block \in [Thread -> Block \cup {Null}]
  /\ freeHead \in [Thread -> FreeHeader \cup {Null}]

(* t has b to itself: it is freeing it, or about to return it from malloc. *)
Carried(t, b) ==
  /\ block[t] = b
  /\ pc[t] \in {"boot", "getHeap", "free", "link", "push", "rlink", "cas", "home"}

(* b is nobody's: it is on a list, or on a remote list that was pulled. *)
Listed(b) ==
  /\ b \notin fresh
  /\ b \notin held
  /\ \A t \in Thread : ~Carried(t, b)

(* A block is fresh, or the program's, or of one thread. *)
ClaimInv ==
  /\ \A b \in fresh : b \notin held
  /\ \A t \in Thread : \A b \in Block : Carried(t, b) => b \notin fresh /\ b \notin held
  /\ \A t, u \in Thread : \A b \in Block : Carried(t, b) /\ Carried(u, b) => t = u

(* The header word of an allocated block points to the FreeHeader it was    *)
(* cut for, or tells that it is mapped.                                     *)
HomeOK(b) == header[b] = Mmapped \/ (header[b] \in FreeHeader /\ cut[b] = header[b])
HeldInv == \A b \in held : HomeOK(b)

(* What a thread's locals are at each label. *)
LocalInv ==
  \A t \in Thread :
    /\ pc[t] \in {"idle", "dtor"} => block[t] = Null
    /\ pc[t] \in {"boot", "getHeap"} /\ block[t] = Null => size[t] # Null
    /\ pc[t] = "malloc" => size[t] # Null /\ heapManager[t] \in Heap
    /\ pc[t] \in {"pop", "remote", "pull", "split", "bump", "extend", "map", "link",
                 "push"} =>
         freeHead[t] \in FreeHeader /\ freeHead[t][1] = heapManager[t]
    /\ pc[t] \in {"rlink", "cas", "home"} => freeHead[t] \in FreeHeader
    /\ pc[t] \in {"pop", "split", "home", "free", "link", "push", "rlink", "cas"} =>
         block[t] \in Block
    /\ pc[t] \in {"split", "home", "link", "push", "rlink", "cas"} =>
         cut[block[t]] = freeHead[t]
    /\ pc[t] \in {"boot", "getHeap", "free"} /\ block[t] # Null => HomeOK(block[t])

(* The lists of the heaps and the pulled remote lists start with listed     *)
(* blocks of their bucket.                                                  *)
HeadsListed ==
  /\ \A q \in FreeHeader : freeList[q] # Null => Listed(freeList[q]) /\ cut[freeList[q]] = q
  /\ \A q \in FreeHeader : remoteList[q] # Null => Listed(remoteList[q]) /\ cut[remoteList[q]] = q
  /\ \A t \in Thread : pc[t] = "split" => Listed(block[t])

(* They go on with listed blocks of one bucket. *)
LinksListed ==
  \A b \in Block : Listed(b) =>
    /\ header[b] \in Block \cup {Null}
    /\ header[b] # Null => Listed(header[b]) /\ cut[header[b]] = cut[b]

(* No block is the next of two, *)
OneLink ==
  \A b, c \in Block : Listed(b) /\ Listed(c) /\ b # c /\ header[b] = header[c]
    => header[b] = Null

(* nor the first of a list and the next of a block, *)
FirstIsNotNext ==
  \A b \in Block : Listed(b) /\ header[b] # Null =>
    /\ \A q \in FreeHeader : freeList[q] # header[b] /\ remoteList[q] # header[b]
    /\ \A t \in Thread : pc[t] = "split" => block[t] # header[b]

(* nor the first of two lists. *)
OneFirst ==
  /\ \A p, q \in FreeHeader :
       /\ freeList[p] # Null /\ p # q => freeList[p] # freeList[q]
       /\ remoteList[p] # Null /\ p # q => remoteList[p] # remoteList[q]
       /\ freeList[p] # Null => freeList[p] # remoteList[q]
  /\ \A t \in Thread : pc[t] = "split" =>
       /\ \A q \in FreeHeader : block[t] # freeList[q] /\ block[t] # remoteList[q]
       /\ \A u \in Thread : pc[u] = "split" /\ u # t => block[u] # block[t]

ListInv == HeadsListed /\ LinksListed /\ OneLink /\ FirstIsNotNext /\ OneFirst

BlockInv ==
  /\ BlockTypeOK
  /\ ClaimInv
  /\ HeldInv
  /\ LocalInv
  /\ ReadsHold
  /\ ListInv
-------------------------------------------------------------------------------
(* A step that leaves the lists, the listed blocks and their headers, and   *)
(* the pulled remote lists as they are keeps ListInv.                       *)
LEMMA ListQuiet ==
  ASSUME BlockTypeOK, LocalInv, ListInv, UNCHANGED lists,
         \A b \in Block : Listed(b)' <=> Listed(b),
         \A b \in Block : Listed(b) => header'[b] = header[b] /\ cut'[b] = cut[b],
         \A u \in Thread : pc'[u] = "split" <=> pc[u] = "split",
         \A u \in Thread : pc[u] = "split" => block'[u] = block[u]
  PROVE  ListInv'
<1>1. \A q \in FreeHeader : freeList[q] \in Block \cup {Null} /\ remoteList[q] \in Block \cup {Null}
  BY DEF BlockTypeOK
<1>2. \A u \in Thread : pc[u] = "split" => block[u] \in Block
  BY DEF LocalInv
<1>3. freeList' = freeList /\ remoteList' = remoteList
  BY DEF lists
<1> QED BY <1>1, <1>2, <1>3 DEF ListInv, HeadsListed, LinksListed, OneLink, FirstIsNotNext, OneFirst

(* A block x that was nobody's before is pushed on the free list of q. *)
LEMMA ListPush ==
  ASSUME BlockTypeOK, LocalInv, ListInv, NEW x \in Block, NEW q \in FreeHeader,
         ~Listed(x), freeList' = [freeList EXCEPT ![q] = x], remoteList' = remoteList,
         header'[x] = freeList[q], cut'[x] = q,
         \A b \in Block : Listed(b)' <=> Listed(b) \/ b = x,
         \A b \in Block : Listed(b) => header'[b] = header[b] /\ cut'[b] = cut[b],
         \A u \in Thread : pc'[u] = "split" <=> pc[u] = "split",
         \A u \in Thread : pc[u] = "split" => block'[u] = block[u]
  PROVE  ListInv'
<1>1. /\ \A p \in FreeHeader : /\ freeList[p] \in Block \cup {Null}
                               /\ remoteList[p] \in Block \cup {Null}
                               /\ remoteList'[p] = remoteList[p]
                               /\ freeList'[p] = IF p = q THEN x ELSE freeList[p]
      /\ \A u \in Thread : pc[u] = "split" => block[u] \in Block /\ block[u] # x
      /\ Null \notin Block
  BY ConstAssumption DEF BlockTypeOK, LocalInv, ListInv, HeadsListed, ConstAssumption
<1>2. /\ \A p \in FreeHeader : freeList[p] # x /\ remoteList[p] # x
      /\ \A b \in Block : Listed(b) => header[b] # x
  BY <1>1 DEF ListInv, HeadsListed, LinksListed
<1>3. HeadsListed'
  BY <1>1 DEF ListInv, HeadsListed
<1>4. LinksListed'
  BY <1>1 DEF ListInv, HeadsListed, LinksListed
<1>5. OneLink'
  <2> SUFFICES ASSUME NEW b \in Block, NEW c \in Block, Listed(b)', Listed(c)', b # c,
                      header'[b] = header'[c], header'[b] # Null
               PROVE  FALSE
    BY DEF OneLink
  <2>1. CASE b # x /\ c # x
    BY <2>1 DEF ListInv, OneLink
  <2>2. CASE b = x \/ c = x
    BY <2>2, <1>1 DEF ListInv, FirstIsNotNext
  <2> QED BY <2>1, <2>2
<1>6. FirstIsNotNext'
  <2> SUFFICES ASSUME NEW b \in Block, Listed(b)', header'[b] # Null
               PROVE  /\ \A p \in FreeHeader : freeList'[p] # header'[b] /\ remoteList'[p] # header'[b]
                      /\ \A t \in Thread : pc'[t] = "split" => block'[t] # header'[b]
    BY DEF FirstIsNotNext
  <2>1. CASE b # x
    BY <2>1, <1>1, <1>2 DEF ListInv, FirstIsNotNext
  <2>2. CASE b = x
    BY <2>2, <1>1, <1>2 DEF ListInv, OneFirst
  <2> QED BY <2>1, <2>2
<1>7. OneFirst'
  BY <1>1, <1>2 DEF ListInv, OneFirst
<1> QED BY <1>3, <1>4, <1>5, <1>6, <1>7 DEF ListInv

(* A block x that was nobody's before is pushed on the remote list of q. *)
LEMMA RemoteListPush ==
  ASSUME BlockTypeOK, LocalInv, ListInv, NEW x \in Block, NEW q \in FreeHeader,
         ~Listed(x), remoteList' = [remoteList EXCEPT ![q] = x], freeList' = freeList,
         header'[x] = remoteList[q], cut'[x] = q,
         \A b \in Block : Listed(b)' <=> Listed(b) \/ b = x,
         \A b \in Block : Listed(b) => header'[b] = header[b] /\ cut'[b] = cut[b],
         \A u \in Thread : pc'[u] = "split" <=> pc[u] = "split",
         \A u \in Thread : pc[u] = "split" => block'[u] = block[u]
  PROVE  ListInv'
<1>1. /\ \A p \in FreeHeader : /\ freeList[p] \in Block \cup {Null}
                               /\ remoteList[p] \in Block \cup {Null}
                               /\ freeList'[p] = freeList[p]
                               /\ remoteList'[p] = IF p = q THEN x ELSE remoteList[p]
      /\ \A u \in Thread : pc[u] = "split" => block[u] \in Block /\ block[u] # x
      /\ Null \notin Block
  BY ConstAssumption DEF BlockTypeOK, LocalInv, ListInv, HeadsListed, ConstAssumption
<1>2. /\ \A p \in FreeHeader : freeList[p] # x /\ remoteList[p] # x
      /\ \A b \in Block : Listed(b) => header[b] # x
  BY <1>1 DEF ListInv, HeadsListed, LinksListed
<1>3. HeadsListed'
  BY <1>1 DEF ListInv, HeadsListed
<1>4. LinksListed'
  BY <1>1 DEF ListInv, HeadsListed, LinksListed
<1>5. OneLink'
  <2> SUFFICES ASSUME NEW b \in Block, NEW c \in Block, Listed(b)', Listed(c)', b # c,
                      header'[b] = header'[c], header'[b] # Null
               PROVE  FALSE
    BY DEF OneLink
  <2>1. CASE b # x /\ c # x
    BY <2>1 DEF ListInv, OneLink
  <2>2. CASE b = x \/ c = x
    BY <2>2, <1>1 DEF ListInv, FirstIsNotNext
  <2> QED BY <2>1, <2>2
<1>6. FirstIsNotNext'
  <2> SUFFICES ASSUME NEW b \in Block, Listed(b)', header'[b] # Null
               PROVE  /\ \A p \in FreeHeader : freeList'[p] # header'[b] /\ remoteList'[p] # header'[b]
                      /\ \A t \in Thread : pc'[t] = "split" => block'[t] # header'[b]
    BY DEF FirstIsNotNext
  <2>1. CASE b # x
    BY <2>1, <1>1, <1>2 DEF ListInv, FirstIsNotNext
  <2>2. CASE b = x
    BY <2>2, <1>1, <1>2 DEF ListInv, OneFirst
  <2> QED BY <2>1, <2>2
<1>7. OneFirst'
  BY <1>1, <1>2 DEF ListInv, OneFirst
<1> QED BY <1>3, <1>4, <1>5, <1>6, <1>7 DEF ListInv

(* Two threads at one time inside the allocator work on different lists. *)
LEMMA OwnLists ==
  ASSUME HeapInv, LocalInv, NEW t \in Thread, NEW u \in Thread, t # u,
         pc[t] # "idle", pc[u] # "idle", heapManager[t] \in Heap
  PROVE  heapManager[t] # heapManager[u]
BY ConstAssumption DEF HeapInv, ConstAssumption

(* No thread and no list. *)
LEMMA BlockInit == ASSUME Init PROVE BlockInv
<1>1. BlockTypeOK
  BY DEF Init, BlockTypeOK
<1>2. \A t \in Thread : pc[t] = "idle" /\ block[t] = Null
  BY DEF Init
<1>3. \A b \in Block : ~Listed(b) /\ \A t \in Thread : ~Carried(t, b)
  BY <1>2 DEF Init, Listed, Carried
<1>4. ClaimInv /\ HeldInv /\ LocalInv /\ ReadsHold
  BY <1>2, <1>3 DEF Init, ClaimInv, HeldInv, LocalInv, ReadsHold
<1>5. ListInv
  BY <1>2, <1>3, ConstAssumption
  DEF Init, ListInv, HeadsListed, LinksListed, OneLink, FirstIsNotNext, OneFirst, ConstAssumption
<1> QED BY <1>1, <1>4, <1>5 DEF BlockInv
-------------------------------------------------------------------------------
USE ConstAssumption DEF ConstAssumption, Goto, Return, Extended, SetFreeList, SetRemoteList, MyFreeList, MyRemoteList, lists, storage, master, local

(* A thread starts. *)
LEMMA ThreadCreateBlock ==
  ASSUME HeapInv, BlockInv, NEW t \in Thread, ThreadCreate(t)
  PROVE  BlockInv'
<1> USE DEF BlockInv
<1>1. BlockTypeOK'
  BY DEF ThreadCreate, HeapInv, HeapTypeOK, BlockTypeOK, LocalInv
<1>2. ClaimInv'
  BY DEF ThreadCreate, HeapInv, HeapTypeOK, BlockTypeOK, ClaimInv, Carried, LocalInv
<1>3. HeldInv'
  BY DEF ThreadCreate, HeapInv, HeapTypeOK, BlockTypeOK, HeldInv, ClaimInv, Carried, LocalInv, HomeOK
<1>4. LocalInv'
  BY DEF ThreadCreate, HeapInv, HeapTypeOK, BlockTypeOK, HeldInv, ClaimInv, Carried, LocalInv, HomeOK
<1>5. ReadsHold'
  BY DEF ThreadCreate, HeapInv, HeapTypeOK, BlockTypeOK, ClaimInv, Carried, LocalInv, ReadsHold
<1>6. ListInv'
  <2>1. \A c \in Block : Listed(c)' <=> Listed(c)
    BY DEF ThreadCreate, HeapInv, HeapTypeOK, BlockTypeOK, Listed, Carried, LocalInv, ClaimInv
  <2>2. \A c \in Block : Listed(c) => header'[c] = header[c] /\ cut'[c] = cut[c]
    BY DEF ThreadCreate, HeapInv, HeapTypeOK, BlockTypeOK, Listed, Carried, LocalInv
  <2>3. \A u \in Thread : pc'[u] = "split" <=> pc[u] = "split"
    BY DEF ThreadCreate, HeapInv, HeapTypeOK
  <2>4. \A u \in Thread : pc[u] = "split" => block'[u] = block[u]
    BY DEF ThreadCreate, HeapInv, HeapTypeOK, BlockTypeOK
  <2>5. UNCHANGED lists
    BY DEF ThreadCreate, HeapInv, HeapTypeOK
  <2> QED BY <2>1, <2>2, <2>3, <2>4, <2>5, ListQuiet
<1> QED BY <1>1, <1>2, <1>3, <1>4, <1>5, <1>6

(* A thread gives its heap up. *)
LEMMA HeapManagerDtorBlock ==
  ASSUME HeapInv, BlockInv, NEW t \in Thread, HeapManagerDtor(t)
  PROVE  BlockInv'
<1> USE DEF BlockInv
<1>1. BlockTypeOK'
  BY DEF HeapManagerDtor, HeapInv, HeapTypeOK, BlockTypeOK, LocalInv
<1>2. ClaimInv'
  BY DEF HeapManagerDtor, HeapInv, HeapTypeOK, BlockTypeOK, ClaimInv, Carried, LocalInv
<1>3. HeldInv'
  BY DEF HeapManagerDtor, HeapInv, HeapTypeOK, BlockTypeOK, HeldInv, ClaimInv, Carried, LocalInv, HomeOK
<1>4. LocalInv'
  BY DEF HeapManagerDtor, HeapInv, HeapTypeOK, BlockTypeOK, HeldInv, ClaimInv, Carried, LocalInv, HomeOK
<1>5. ReadsHold'
  BY DEF HeapManagerDtor, HeapInv, HeapTypeOK, BlockTypeOK, ClaimInv, Carried, LocalInv, ReadsHold
<1>6. ListInv'
  <2>1. \A c \in Block : Listed(c)' <=> Listed(c)
    BY DEF HeapManagerDtor, HeapInv, HeapTypeOK, BlockTypeOK, Listed, Carried, LocalInv, ClaimInv
  <2>2. \A c \in Block : Listed(c) => header'[c] = header[c] /\ cut'[c] = cut[c]
    BY DEF HeapManagerDtor, HeapInv, HeapTypeOK, BlockTypeOK, Listed, Carried, LocalInv
  <2>3. \A u \in Thread : pc'[u] = "split" <=> pc[u] = "split"
    BY DEF HeapManagerDtor, HeapInv, HeapTypeOK
  <2>4. \A u \in Thread : pc[u] = "split" => block'[u] = block[u]
    BY DEF HeapManagerDtor, HeapInv, HeapTypeOK, BlockTypeOK
  <2>5. UNCHANGED lists
    BY DEF HeapManagerDtor, HeapInv, HeapTypeOK
  <2> QED BY <2>1, <2>2, <2>3, <2>4, <2>5, ListQuiet
<1> QED BY <1>1, <1>2, <1>3, <1>4, <1>5, <1>6

(* A thread ends. *)
LEMMA ThreadEndBlock ==
  ASSUME HeapInv, BlockInv, NEW t \in Thread, ThreadEnd(t)
  PROVE  BlockInv'
<1> USE DEF BlockInv
<1>1. BlockTypeOK'
  BY DEF ThreadEnd, HeapInv, HeapTypeOK, BlockTypeOK, LocalInv
<1>2. ClaimInv'
  BY DEF ThreadEnd, HeapInv, HeapTypeOK, BlockTypeOK, ClaimInv, Carried, LocalInv
<1>3. HeldInv'
  BY DEF ThreadEnd, HeapInv, HeapTypeOK, BlockTypeOK, HeldInv, ClaimInv, Carried, LocalInv, HomeOK
<1>4. LocalInv'
  BY DEF ThreadEnd, HeapInv, HeapTypeOK, BlockTypeOK, HeldInv, ClaimInv, Carried, LocalInv, HomeOK
<1>5. ReadsHold'
  BY DEF ThreadEnd, HeapInv, HeapTypeOK, BlockTypeOK, ClaimInv, Carried, LocalInv, ReadsHold
<1>6. ListInv'
  <2>1. \A c \in Block : Listed(c)' <=> Listed(c)
    BY DEF ThreadEnd, HeapInv, HeapTypeOK, BlockTypeOK, Listed, Carried, LocalInv, ClaimInv
  <2>2. \A c \in Block : Listed(c) => header'[c] = header[c] /\ cut'[c] = cut[c]
    BY DEF ThreadEnd, HeapInv, HeapTypeOK, BlockTypeOK, Listed, Carried, LocalInv
  <2>3. \A u \in Thread : pc'[u] = "split" <=> pc[u] = "split"
    BY DEF ThreadEnd, HeapInv, HeapTypeOK
  <2>4. \A u \in Thread : pc[u] = "split" => block'[u] = block[u]
    BY DEF ThreadEnd, HeapInv, HeapTypeOK, BlockTypeOK
  <2>5. UNCHANGED lists
    BY DEF ThreadEnd, HeapInv, HeapTypeOK
  <2> QED BY <2>1, <2>2, <2>3, <2>4, <2>5, ListQuiet
<1> QED BY <1>1, <1>2, <1>3, <1>4, <1>5, <1>6

(* A heap of the stack is given to a thread. *)
LEMMA ReuseHeapBlock ==
  ASSUME HeapInv, BlockInv, NEW t \in Thread, ReuseHeap(t)
  PROVE  BlockInv'
<1> USE DEF BlockInv
<1>1. BlockTypeOK'
  BY DEF ReuseHeap, GotHeap, HeapInv, HeapTypeOK, BlockTypeOK, LocalInv
<1>2. ClaimInv'
  BY DEF ReuseHeap, GotHeap, HeapInv, HeapTypeOK, BlockTypeOK, ClaimInv, Carried, LocalInv
<1>3. HeldInv'
  BY DEF ReuseHeap, GotHeap, HeapInv, HeapTypeOK, BlockTypeOK, HeldInv, ClaimInv, Carried, LocalInv, HomeOK
<1>4. LocalInv'
  BY DEF ReuseHeap, GotHeap, HeapInv, HeapTypeOK, BlockTypeOK, HeldInv, ClaimInv, Carried, LocalInv, HomeOK
<1>5. ReadsHold'
  BY DEF ReuseHeap, GotHeap, HeapInv, HeapTypeOK, BlockTypeOK, ClaimInv, Carried, LocalInv, ReadsHold
<1>6. ListInv'
  <2>1. \A c \in Block : Listed(c)' <=> Listed(c)
    BY DEF ReuseHeap, GotHeap, HeapInv, HeapTypeOK, BlockTypeOK, Listed, Carried, LocalInv, ClaimInv
  <2>2. \A c \in Block : Listed(c) => header'[c] = header[c] /\ cut'[c] = cut[c]
    BY DEF ReuseHeap, GotHeap, HeapInv, HeapTypeOK, BlockTypeOK, Listed, Carried, LocalInv
  <2>3. \A u \in Thread : pc'[u] = "split" <=> pc[u] = "split"
    BY DEF ReuseHeap, GotHeap, HeapInv, HeapTypeOK
  <2>4. \A u \in Thread : pc[u] = "split" => block'[u] = block[u]
    BY DEF ReuseHeap, GotHeap, HeapInv, HeapTypeOK, BlockTypeOK
  <2>5. UNCHANGED lists
    BY DEF ReuseHeap, GotHeap, HeapInv, HeapTypeOK
  <2> QED BY <2>1, <2>2, <2>3, <2>4, <2>5, ListQuiet
<1> QED BY <1>1, <1>2, <1>3, <1>4, <1>5, <1>6

(* malloc is called. *)
LEMMA CallMallocBlock ==
  ASSUME HeapInv, BlockInv, NEW t \in Thread, NEW k \in Bucket \cup {Large}, CallMalloc(t, k)
  PROVE  BlockInv'
<1> USE DEF BlockInv
<1>1. BlockTypeOK'
  BY DEF CallMalloc, MayCall, HeapInv, HeapTypeOK, BlockTypeOK, LocalInv
<1>2. ClaimInv'
  BY DEF CallMalloc, MayCall, HeapInv, HeapTypeOK, BlockTypeOK, ClaimInv, Carried, LocalInv
<1>3. HeldInv'
  BY DEF CallMalloc, MayCall, HeapInv, HeapTypeOK, BlockTypeOK, HeldInv, ClaimInv, Carried, LocalInv, HomeOK
<1>4. LocalInv'
  BY DEF CallMalloc, MayCall, HeapInv, HeapTypeOK, BlockTypeOK, HeldInv, ClaimInv, Carried, LocalInv, HomeOK
<1>5. ReadsHold'
  BY DEF CallMalloc, MayCall, HeapInv, HeapTypeOK, BlockTypeOK, ClaimInv, Carried, LocalInv, ReadsHold
<1>6. ListInv'
  <2>1. \A c \in Block : Listed(c)' <=> Listed(c)
    BY DEF CallMalloc, MayCall, HeapInv, HeapTypeOK, BlockTypeOK, Listed, Carried, LocalInv, ClaimInv
  <2>2. \A c \in Block : Listed(c) => header'[c] = header[c] /\ cut'[c] = cut[c]
    BY DEF CallMalloc, MayCall, HeapInv, HeapTypeOK, BlockTypeOK, Listed, Carried, LocalInv
  <2>3. \A u \in Thread : pc'[u] = "split" <=> pc[u] = "split"
    BY DEF CallMalloc, MayCall, HeapInv, HeapTypeOK
  <2>4. \A u \in Thread : pc[u] = "split" => block'[u] = block[u]
    BY DEF CallMalloc, MayCall, HeapInv, HeapTypeOK, BlockTypeOK
  <2>5. UNCHANGED lists
    BY DEF CallMalloc, MayCall, HeapInv, HeapTypeOK
  <2> QED BY <2>1, <2>2, <2>3, <2>4, <2>5, ListQuiet
<1> QED BY <1>1, <1>2, <1>3, <1>4, <1>5, <1>6

(* The free list is read. *)
LEMMA ReadFreeListBlock ==
  ASSUME HeapInv, BlockInv, NEW t \in Thread, ReadFreeList(t)
  PROVE  BlockInv'
<1> USE DEF BlockInv
<1>1. BlockTypeOK'
  <2> DEFINE q == <<heapManager[t], size[t]>>
  <2>1. q \in FreeHeader /\ freeList[q] \in Block \cup {Null}
    BY DEF ReadFreeList, LocalInv, BlockTypeOK, FreeHeader
  <2> HIDE DEF q
  <2>2. /\ freeHead' = [freeHead EXCEPT ![t] = q]
        /\ block' = [block EXCEPT ![t] = freeList[q]]
    BY DEF ReadFreeList, q
  <2> QED BY <2>1, <2>2 DEF ReadFreeList, BlockTypeOK
<1>2. ClaimInv'
  BY DEF ReadFreeList, HeapInv, HeapTypeOK, BlockTypeOK, ClaimInv, Carried, LocalInv
<1>3. HeldInv'
  BY DEF ReadFreeList, HeapInv, HeapTypeOK, BlockTypeOK, HeldInv, ClaimInv, Carried, LocalInv, HomeOK
<1>4. LocalInv'
  <2> DEFINE q == <<heapManager[t], size[t]>>
  <2>1. q \in FreeHeader /\ q[1] = heapManager[t] /\ freeList[q] \in Block \cup {Null}
    BY DEF ReadFreeList, LocalInv, BlockTypeOK, FreeHeader
  <2> HIDE DEF q
  <2>2. /\ freeHead' = [freeHead EXCEPT ![t] = q]
        /\ block' = [block EXCEPT ![t] = freeList[q]]
        /\ pc' = [pc EXCEPT ![t] = IF freeList[q] # Null THEN "pop" ELSE "remote"]
    BY DEF ReadFreeList, q
  <2> QED BY <2>1, <2>2 DEF ReadFreeList, BlockTypeOK, LocalInv, HomeOK, HeapInv, HeapTypeOK
<1>5. ReadsHold'
  BY DEF ReadFreeList, HeapInv, HeapTypeOK, BlockTypeOK, ClaimInv, Carried, LocalInv, ReadsHold
<1>6. ListInv'
  <2>1. \A c \in Block : Listed(c)' <=> Listed(c)
    BY DEF ReadFreeList, HeapInv, HeapTypeOK, BlockTypeOK, Listed, Carried, LocalInv, ClaimInv
  <2>2. \A c \in Block : Listed(c) => header'[c] = header[c] /\ cut'[c] = cut[c]
    BY DEF ReadFreeList, HeapInv, HeapTypeOK, BlockTypeOK, Listed, Carried, LocalInv
  <2>3. \A u \in Thread : pc'[u] = "split" <=> pc[u] = "split"
    BY DEF ReadFreeList, HeapInv, HeapTypeOK
  <2>4. \A u \in Thread : pc[u] = "split" => block'[u] = block[u]
    BY DEF ReadFreeList, HeapInv, HeapTypeOK, BlockTypeOK
  <2>5. UNCHANGED lists
    BY DEF ReadFreeList, HeapInv, HeapTypeOK
  <2> QED BY <2>1, <2>2, <2>3, <2>4, <2>5, ListQuiet
<1> QED BY <1>1, <1>2, <1>3, <1>4, <1>5, <1>6

(* The remote list is tested. *)
LEMMA TestRemoteBlock ==
  ASSUME HeapInv, BlockInv, NEW t \in Thread, TestRemote(t)
  PROVE  BlockInv'
<1> USE DEF BlockInv
<1>1. BlockTypeOK'
  BY DEF TestRemote, HeapInv, HeapTypeOK, BlockTypeOK, LocalInv
<1>2. ClaimInv'
  BY DEF TestRemote, HeapInv, HeapTypeOK, BlockTypeOK, ClaimInv, Carried, LocalInv
<1>3. HeldInv'
  BY DEF TestRemote, HeapInv, HeapTypeOK, BlockTypeOK, HeldInv, ClaimInv, Carried, LocalInv, HomeOK
<1>4. LocalInv'
  BY DEF TestRemote, HeapInv, HeapTypeOK, BlockTypeOK, HeldInv, ClaimInv, Carried, LocalInv, HomeOK
<1>5. ReadsHold'
  BY DEF TestRemote, HeapInv, HeapTypeOK, BlockTypeOK, ClaimInv, Carried, LocalInv, ReadsHold
<1>6. ListInv'
  <2>1. \A c \in Block : Listed(c)' <=> Listed(c)
    BY DEF TestRemote, HeapInv, HeapTypeOK, BlockTypeOK, Listed, Carried, LocalInv, ClaimInv
  <2>2. \A c \in Block : Listed(c) => header'[c] = header[c] /\ cut'[c] = cut[c]
    BY DEF TestRemote, HeapInv, HeapTypeOK, BlockTypeOK, Listed, Carried, LocalInv
  <2>3. \A u \in Thread : pc'[u] = "split" <=> pc[u] = "split"
    BY DEF TestRemote, HeapInv, HeapTypeOK
  <2>4. \A u \in Thread : pc[u] = "split" => block'[u] = block[u]
    BY DEF TestRemote, HeapInv, HeapTypeOK, BlockTypeOK
  <2>5. UNCHANGED lists
    BY DEF TestRemote, HeapInv, HeapTypeOK
  <2> QED BY <2>1, <2>2, <2>3, <2>4, <2>5, ListQuiet
<1> QED BY <1>1, <1>2, <1>3, <1>4, <1>5, <1>6

(* A fresh block is cut. *)
LEMMA BumpBlock ==
  ASSUME HeapInv, BlockInv, NEW t \in Thread, Bump(t)
  PROVE  BlockInv'
<1> USE DEF BlockInv
<1>1. BlockTypeOK'
  BY DEF Bump, HeapInv, HeapTypeOK, BlockTypeOK, LocalInv
<1>2. ClaimInv'
  BY DEF Bump, HeapInv, HeapTypeOK, BlockTypeOK, ClaimInv, Carried, LocalInv
<1>3. HeldInv'
  BY DEF Bump, HeapInv, HeapTypeOK, BlockTypeOK, HeldInv, ClaimInv, Carried, LocalInv, HomeOK
<1>4. LocalInv'
  BY DEF Bump, HeapInv, HeapTypeOK, BlockTypeOK, ClaimInv, Carried, LocalInv, HomeOK,
         ListInv, HeadsListed, Listed
<1>5. ReadsHold'
  BY DEF Bump, HeapInv, HeapTypeOK, BlockTypeOK, ClaimInv, Carried, LocalInv, ReadsHold
<1>6. ListInv'
  <2>1. \A c \in Block : Listed(c)' <=> Listed(c)
    BY DEF Bump, HeapInv, HeapTypeOK, BlockTypeOK, Listed, Carried, LocalInv, ClaimInv
  <2>2. \A c \in Block : Listed(c) => header'[c] = header[c] /\ cut'[c] = cut[c]
    BY DEF Bump, HeapInv, HeapTypeOK, BlockTypeOK, Listed, Carried, LocalInv
  <2>3. \A u \in Thread : pc'[u] = "split" <=> pc[u] = "split"
    BY DEF Bump, HeapInv, HeapTypeOK
  <2>4. \A u \in Thread : pc[u] = "split" => block'[u] = block[u]
    BY DEF Bump, HeapInv, HeapTypeOK, BlockTypeOK
  <2>5. UNCHANGED lists
    BY DEF Bump, HeapInv, HeapTypeOK
  <2> QED BY <2>1, <2>2, <2>3, <2>4, <2>5, ListQuiet
<1> QED BY <1>1, <1>2, <1>3, <1>4, <1>5, <1>6

(* A block is cut from a new buffer. *)
LEMMA ExtendBumpBlock ==
  ASSUME HeapInv, BlockInv, NEW t \in Thread, ExtendBump(t)
  PROVE  BlockInv'
<1> USE DEF BlockInv
<1>1. BlockTypeOK'
  BY DEF ExtendBump, HeapInv, HeapTypeOK, BlockTypeOK, LocalInv
<1>2. ClaimInv'
  BY DEF ExtendBump, HeapInv, HeapTypeOK, BlockTypeOK, ClaimInv, Carried, LocalInv
<1>3. HeldInv'
  BY DEF ExtendBump, HeapInv, HeapTypeOK, BlockTypeOK, HeldInv, ClaimInv, Carried, LocalInv, HomeOK
<1>4. LocalInv'
  BY DEF ExtendBump, HeapInv, HeapTypeOK, BlockTypeOK, ClaimInv, Carried, LocalInv, HomeOK,
         ListInv, HeadsListed, Listed
<1>5. ReadsHold'
  BY DEF ExtendBump, HeapInv, HeapTypeOK, BlockTypeOK, ClaimInv, Carried, LocalInv, ReadsHold
<1>6. ListInv'
  <2>1. \A c \in Block : Listed(c)' <=> Listed(c)
    BY DEF ExtendBump, HeapInv, HeapTypeOK, BlockTypeOK, Listed, Carried, LocalInv, ClaimInv
  <2>2. \A c \in Block : Listed(c) => header'[c] = header[c] /\ cut'[c] = cut[c]
    BY DEF ExtendBump, HeapInv, HeapTypeOK, BlockTypeOK, Listed, Carried, LocalInv
  <2>3. \A u \in Thread : pc'[u] = "split" <=> pc[u] = "split"
    BY DEF ExtendBump, HeapInv, HeapTypeOK
  <2>4. \A u \in Thread : pc[u] = "split" => block'[u] = block[u]
    BY DEF ExtendBump, HeapInv, HeapTypeOK, BlockTypeOK
  <2>5. UNCHANGED lists
    BY DEF ExtendBump, HeapInv, HeapTypeOK
  <2> QED BY <2>1, <2>2, <2>3, <2>4, <2>5, ListQuiet
<1> QED BY <1>1, <1>2, <1>3, <1>4, <1>5, <1>6

(* malloc fails. *)
LEMMA FailsBlock ==
  ASSUME HeapInv, BlockInv, NEW t \in Thread, Fails(t)
  PROVE  BlockInv'
<1> USE DEF BlockInv
<1>1. BlockTypeOK'
  BY DEF Fails, ExtendFails, MapFails, HeapInv, HeapTypeOK, BlockTypeOK, LocalInv
<1>2. ClaimInv'
  <2>1. /\ UNCHANGED <<fresh, held>> /\ pc'[t] = "idle"
        /\ \A u \in Thread : u # t => pc'[u] = pc[u] /\ block'[u] = block[u]
    BY DEF Fails, ExtendFails, MapFails, HeapInv, HeapTypeOK, BlockTypeOK
  <2>2. \A b \in Block, u \in Thread : Carried(u, b)' => Carried(u, b)
    BY <2>1 DEF Carried
  <2> QED BY <2>1, <2>2 DEF ClaimInv
<1>3. HeldInv'
  BY DEF Fails, ExtendFails, MapFails, HeapInv, HeapTypeOK, BlockTypeOK, HeldInv, ClaimInv, Carried, LocalInv, HomeOK
<1>4. LocalInv'
  BY DEF Fails, ExtendFails, MapFails, HeapInv, HeapTypeOK, BlockTypeOK, HeldInv, ClaimInv, Carried, LocalInv, HomeOK
<1>5. ReadsHold'
  BY DEF Fails, ExtendFails, MapFails, HeapInv, HeapTypeOK, BlockTypeOK, ClaimInv, Carried, LocalInv, ReadsHold
<1>6. ListInv'
  <2>1. \A c \in Block : Listed(c)' <=> Listed(c)
    BY DEF Fails, ExtendFails, MapFails, HeapInv, HeapTypeOK, BlockTypeOK, Listed, Carried, LocalInv, ClaimInv
  <2>2. \A c \in Block : Listed(c) => header'[c] = header[c] /\ cut'[c] = cut[c]
    BY DEF Fails, ExtendFails, MapFails, HeapInv, HeapTypeOK, BlockTypeOK, Listed, Carried, LocalInv
  <2>3. \A u \in Thread : pc'[u] = "split" <=> pc[u] = "split"
    BY DEF Fails, ExtendFails, MapFails, HeapInv, HeapTypeOK
  <2>4. \A u \in Thread : pc[u] = "split" => block'[u] = block[u]
    BY DEF Fails, ExtendFails, MapFails, HeapInv, HeapTypeOK, BlockTypeOK
  <2>5. UNCHANGED lists
    BY DEF Fails, ExtendFails, MapFails, HeapInv, HeapTypeOK
  <2> QED BY <2>1, <2>2, <2>3, <2>4, <2>5, ListQuiet
<1> QED BY <1>1, <1>2, <1>3, <1>4, <1>5, <1>6

(* A thread takes a lock or is to wait for one. *)
LEMMA WaitsBlock ==
  ASSUME HeapInv, BlockInv, NEW t \in Thread, Waits(t)
  PROVE  BlockInv'
<1> USE DEF BlockInv
<1>1. BlockTypeOK'
  BY DEF Waits, LockMgr, ManagerExtend, LockExt, LockDtor, HeapInv, HeapTypeOK, BlockTypeOK, LocalInv
<1>2. ClaimInv'
  BY DEF Waits, LockMgr, ManagerExtend, LockExt, LockDtor, HeapInv, HeapTypeOK, BlockTypeOK, ClaimInv, Carried, LocalInv
<1>3. HeldInv'
  BY DEF Waits, LockMgr, ManagerExtend, LockExt, LockDtor, HeapInv, HeapTypeOK, BlockTypeOK, HeldInv, ClaimInv, Carried, LocalInv, HomeOK
<1>4. LocalInv'
  BY DEF Waits, LockMgr, ManagerExtend, LockExt, LockDtor, HeapInv, HeapTypeOK, BlockTypeOK, HeldInv, ClaimInv, Carried, LocalInv, HomeOK
<1>5. ReadsHold'
  BY DEF Waits, LockMgr, ManagerExtend, LockExt, LockDtor, HeapInv, HeapTypeOK, BlockTypeOK, ClaimInv, Carried, LocalInv, ReadsHold
<1>6. ListInv'
  <2>1. \A c \in Block : Listed(c)' <=> Listed(c)
    BY DEF Waits, LockMgr, ManagerExtend, LockExt, LockDtor, HeapInv, HeapTypeOK, BlockTypeOK, Listed, Carried, LocalInv, ClaimInv
  <2>2. \A c \in Block : Listed(c) => header'[c] = header[c] /\ cut'[c] = cut[c]
    BY DEF Waits, LockMgr, ManagerExtend, LockExt, LockDtor, HeapInv, HeapTypeOK, BlockTypeOK, Listed, Carried, LocalInv
  <2>3. \A u \in Thread : pc'[u] = "split" <=> pc[u] = "split"
    BY DEF Waits, LockMgr, ManagerExtend, LockExt, LockDtor, HeapInv, HeapTypeOK
  <2>4. \A u \in Thread : pc[u] = "split" => block'[u] = block[u]
    BY DEF Waits, LockMgr, ManagerExtend, LockExt, LockDtor, HeapInv, HeapTypeOK, BlockTypeOK
  <2>5. UNCHANGED lists
    BY DEF Waits, LockMgr, ManagerExtend, LockExt, LockDtor, HeapInv, HeapTypeOK
  <2> QED BY <2>1, <2>2, <2>3, <2>4, <2>5, ListQuiet
<1> QED BY <1>1, <1>2, <1>3, <1>4, <1>5, <1>6

(* malloc returns a block. *)
LEMMA SetHomeBlock ==
  ASSUME HeapInv, BlockInv, NEW t \in Thread, SetHome(t)
  PROVE  BlockInv'
<1> USE DEF BlockInv
<1>1. BlockTypeOK'
  BY DEF SetHome, HeapInv, HeapTypeOK, BlockTypeOK, LocalInv
<1>2. ClaimInv'
  BY DEF SetHome, HeapInv, HeapTypeOK, BlockTypeOK, ClaimInv, Carried, LocalInv
<1>3. HeldInv'
  BY DEF SetHome, HeapInv, HeapTypeOK, BlockTypeOK, HeldInv, ClaimInv, Carried, LocalInv, HomeOK
<1>4. LocalInv'
  BY DEF SetHome, HeapInv, HeapTypeOK, BlockTypeOK, HeldInv, ClaimInv, Carried, LocalInv, HomeOK
<1>5. ReadsHold'
  BY DEF SetHome, HeapInv, HeapTypeOK, BlockTypeOK, ClaimInv, Carried, LocalInv, ReadsHold
<1>6. ListInv'
  <2>1. \A c \in Block : Listed(c)' <=> Listed(c)
    BY DEF SetHome, HeapInv, HeapTypeOK, BlockTypeOK, Listed, Carried, LocalInv, ClaimInv
  <2>2. \A c \in Block : Listed(c) => header'[c] = header[c] /\ cut'[c] = cut[c]
    BY DEF SetHome, HeapInv, HeapTypeOK, BlockTypeOK, Listed, Carried, LocalInv
  <2>3. \A u \in Thread : pc'[u] = "split" <=> pc[u] = "split"
    BY DEF SetHome, HeapInv, HeapTypeOK
  <2>4. \A u \in Thread : pc[u] = "split" => block'[u] = block[u]
    BY DEF SetHome, HeapInv, HeapTypeOK, BlockTypeOK
  <2>5. UNCHANGED lists
    BY DEF SetHome, HeapInv, HeapTypeOK
  <2> QED BY <2>1, <2>2, <2>3, <2>4, <2>5, ListQuiet
<1> QED BY <1>1, <1>2, <1>3, <1>4, <1>5, <1>6

(* malloc returns a mapped block. *)
LEMMA MapLargeBlock ==
  ASSUME HeapInv, BlockInv, NEW t \in Thread, MapLarge(t)
  PROVE  BlockInv'
<1> USE DEF BlockInv
<1>1. BlockTypeOK'
  BY DEF MapLarge, HeapInv, HeapTypeOK, BlockTypeOK, LocalInv
<1>2. ClaimInv'
  BY DEF MapLarge, HeapInv, HeapTypeOK, BlockTypeOK, ClaimInv, Carried, LocalInv
<1>3. HeldInv'
  BY DEF MapLarge, HeapInv, HeapTypeOK, BlockTypeOK, HeldInv, ClaimInv, Carried, LocalInv, HomeOK
<1>4. LocalInv'
  BY DEF MapLarge, HeapInv, HeapTypeOK, BlockTypeOK, HeldInv, ClaimInv, Carried, LocalInv, HomeOK
<1>5. ReadsHold'
  BY DEF MapLarge, HeapInv, HeapTypeOK, BlockTypeOK, ClaimInv, Carried, LocalInv, ReadsHold
<1>6. ListInv'
  <2>1. \A c \in Block : Listed(c)' <=> Listed(c)
    BY DEF MapLarge, HeapInv, HeapTypeOK, BlockTypeOK, Listed, Carried, LocalInv, ClaimInv
  <2>2. \A c \in Block : Listed(c) => header'[c] = header[c] /\ cut'[c] = cut[c]
    BY DEF MapLarge, HeapInv, HeapTypeOK, BlockTypeOK, Listed, Carried, LocalInv
  <2>3. \A u \in Thread : pc'[u] = "split" <=> pc[u] = "split"
    BY DEF MapLarge, HeapInv, HeapTypeOK
  <2>4. \A u \in Thread : pc[u] = "split" => block'[u] = block[u]
    BY DEF MapLarge, HeapInv, HeapTypeOK, BlockTypeOK
  <2>5. UNCHANGED lists
    BY DEF MapLarge, HeapInv, HeapTypeOK
  <2> QED BY <2>1, <2>2, <2>3, <2>4, <2>5, ListQuiet
<1> QED BY <1>1, <1>2, <1>3, <1>4, <1>5, <1>6

(* free is called. *)
LEMMA CallFreeBlock ==
  ASSUME HeapInv, BlockInv, NEW t \in Thread, NEW b \in Block, CallFree(t, b)
  PROVE  BlockInv'
<1> USE DEF BlockInv
<1>1. BlockTypeOK'
  BY DEF CallFree, MayCall, HeapInv, HeapTypeOK, BlockTypeOK, LocalInv
<1>2. ClaimInv'
  BY DEF CallFree, MayCall, HeapInv, HeapTypeOK, BlockTypeOK, ClaimInv, Carried, LocalInv
<1>3. HeldInv'
  BY DEF CallFree, MayCall, HeapInv, HeapTypeOK, BlockTypeOK, HeldInv, ClaimInv, Carried, LocalInv, HomeOK
<1>4. LocalInv'
  BY DEF CallFree, MayCall, HeapInv, HeapTypeOK, BlockTypeOK, HeldInv, ClaimInv, Carried, LocalInv, HomeOK
<1>5. ReadsHold'
  BY DEF CallFree, MayCall, HeapInv, HeapTypeOK, BlockTypeOK, ClaimInv, Carried, LocalInv, ReadsHold
<1>6. ListInv'
  <2>1. \A c \in Block : Listed(c)' <=> Listed(c)
    BY DEF CallFree, MayCall, HeapInv, HeapTypeOK, BlockTypeOK, Listed, Carried, LocalInv, ClaimInv
  <2>2. \A c \in Block : Listed(c) => header'[c] = header[c] /\ cut'[c] = cut[c]
    BY DEF CallFree, MayCall, HeapInv, HeapTypeOK, BlockTypeOK, Listed, Carried, LocalInv
  <2>3. \A u \in Thread : pc'[u] = "split" <=> pc[u] = "split"
    BY DEF CallFree, MayCall, HeapInv, HeapTypeOK
  <2>4. \A u \in Thread : pc[u] = "split" => block'[u] = block[u]
    BY DEF CallFree, MayCall, HeapInv, HeapTypeOK, BlockTypeOK
  <2>5. UNCHANGED lists
    BY DEF CallFree, MayCall, HeapInv, HeapTypeOK
  <2> QED BY <2>1, <2>2, <2>3, <2>4, <2>5, ListQuiet
<1> QED BY <1>1, <1>2, <1>3, <1>4, <1>5, <1>6

(* The home of the block is read. *)
LEMMA ReadHomeBlock ==
  ASSUME HeapInv, BlockInv, NEW t \in Thread, ReadHome(t)
  PROVE  BlockInv'
<1> USE DEF BlockInv
<1>1. BlockTypeOK'
  BY DEF ReadHome, BlockTypeOK, LocalInv, HomeOK
<1>2. ClaimInv'
  BY DEF ReadHome, HeapInv, HeapTypeOK, BlockTypeOK, ClaimInv, Carried, LocalInv
<1>3. HeldInv'
  BY DEF ReadHome, HeapInv, HeapTypeOK, BlockTypeOK, HeldInv, ClaimInv, Carried, LocalInv, HomeOK
<1>4. LocalInv'
  BY DEF ReadHome, HeapInv, HeapTypeOK, BlockTypeOK, HeldInv, ClaimInv, Carried, LocalInv, HomeOK
<1>5. ReadsHold'
  BY DEF ReadHome, HeapInv, HeapTypeOK, BlockTypeOK, ClaimInv, Carried, LocalInv, ReadsHold
<1>6. ListInv'
  <2>1. \A c \in Block : Listed(c)' <=> Listed(c)
    BY DEF ReadHome, HeapInv, HeapTypeOK, BlockTypeOK, Listed, Carried, LocalInv, ClaimInv
  <2>2. \A c \in Block : Listed(c) => header'[c] = header[c] /\ cut'[c] = cut[c]
    BY DEF ReadHome, HeapInv, HeapTypeOK, BlockTypeOK, Listed, Carried, LocalInv
  <2>3. \A u \in Thread : pc'[u] = "split" <=> pc[u] = "split"
    BY DEF ReadHome, HeapInv, HeapTypeOK
  <2>4. \A u \in Thread : pc[u] = "split" => block'[u] = block[u]
    BY DEF ReadHome, HeapInv, HeapTypeOK, BlockTypeOK
  <2>5. UNCHANGED lists
    BY DEF ReadHome, HeapInv, HeapTypeOK
  <2> QED BY <2>1, <2>2, <2>3, <2>4, <2>5, ListQuiet
<1> QED BY <1>1, <1>2, <1>3, <1>4, <1>5, <1>6

(* The block is linked to the free list. *)
LEMMA LinkBlock ==
  ASSUME HeapInv, BlockInv, NEW t \in Thread, Link(t)
  PROVE  BlockInv'
<1> USE DEF BlockInv
<1>1. BlockTypeOK'
  BY DEF Link, HeapInv, HeapTypeOK, BlockTypeOK, LocalInv
<1>2. ClaimInv'
  BY DEF Link, HeapInv, HeapTypeOK, BlockTypeOK, ClaimInv, Carried, LocalInv
<1>3. HeldInv'
  BY DEF Link, HeapInv, HeapTypeOK, BlockTypeOK, HeldInv, ClaimInv, Carried, LocalInv, HomeOK
<1>4. LocalInv'
  BY DEF Link, HeapInv, HeapTypeOK, BlockTypeOK, HeldInv, ClaimInv, Carried, LocalInv, HomeOK
<1>5. ReadsHold'
  BY DEF Link, HeapInv, HeapTypeOK, BlockTypeOK, ClaimInv, Carried, LocalInv, ReadsHold
<1>6. ListInv'
  <2>1. \A c \in Block : Listed(c)' <=> Listed(c)
    BY DEF Link, HeapInv, HeapTypeOK, BlockTypeOK, Listed, Carried, LocalInv, ClaimInv
  <2>2. \A c \in Block : Listed(c) => header'[c] = header[c] /\ cut'[c] = cut[c]
    BY DEF Link, HeapInv, HeapTypeOK, BlockTypeOK, Listed, Carried, LocalInv
  <2>3. \A u \in Thread : pc'[u] = "split" <=> pc[u] = "split"
    BY DEF Link, HeapInv, HeapTypeOK
  <2>4. \A u \in Thread : pc[u] = "split" => block'[u] = block[u]
    BY DEF Link, HeapInv, HeapTypeOK, BlockTypeOK
  <2>5. UNCHANGED lists
    BY DEF Link, HeapInv, HeapTypeOK
  <2> QED BY <2>1, <2>2, <2>3, <2>4, <2>5, ListQuiet
<1> QED BY <1>1, <1>2, <1>3, <1>4, <1>5, <1>6

(* The block is linked to the remote list. *)
LEMMA RemoteLinkBlock ==
  ASSUME HeapInv, BlockInv, NEW t \in Thread, RemoteLink(t)
  PROVE  BlockInv'
<1> USE DEF BlockInv
<1>1. BlockTypeOK'
  BY DEF RemoteLink, HeapInv, HeapTypeOK, BlockTypeOK, LocalInv
<1>2. ClaimInv'
  BY DEF RemoteLink, HeapInv, HeapTypeOK, BlockTypeOK, ClaimInv, Carried, LocalInv
<1>3. HeldInv'
  BY DEF RemoteLink, HeapInv, HeapTypeOK, BlockTypeOK, HeldInv, ClaimInv, Carried, LocalInv, HomeOK
<1>4. LocalInv'
  BY DEF RemoteLink, HeapInv, HeapTypeOK, BlockTypeOK, HeldInv, ClaimInv, Carried, LocalInv, HomeOK
<1>5. ReadsHold'
  BY DEF RemoteLink, HeapInv, HeapTypeOK, BlockTypeOK, ClaimInv, Carried, LocalInv, ReadsHold
<1>6. ListInv'
  <2>1. \A c \in Block : Listed(c)' <=> Listed(c)
    BY DEF RemoteLink, HeapInv, HeapTypeOK, BlockTypeOK, Listed, Carried, LocalInv, ClaimInv
  <2>2. \A c \in Block : Listed(c) => header'[c] = header[c] /\ cut'[c] = cut[c]
    BY DEF RemoteLink, HeapInv, HeapTypeOK, BlockTypeOK, Listed, Carried, LocalInv
  <2>3. \A u \in Thread : pc'[u] = "split" <=> pc[u] = "split"
    BY DEF RemoteLink, HeapInv, HeapTypeOK
  <2>4. \A u \in Thread : pc[u] = "split" => block'[u] = block[u]
    BY DEF RemoteLink, HeapInv, HeapTypeOK, BlockTypeOK
  <2>5. UNCHANGED lists
    BY DEF RemoteLink, HeapInv, HeapTypeOK
  <2> QED BY <2>1, <2>2, <2>3, <2>4, <2>5, ListQuiet
<1> QED BY <1>1, <1>2, <1>3, <1>4, <1>5, <1>6

(* The compare-and-swap fails. *)
LEMMA RemoteRetryBlock ==
  ASSUME HeapInv, BlockInv, NEW t \in Thread, RemoteRetry(t)
  PROVE  BlockInv'
<1> USE DEF BlockInv
<1>1. BlockTypeOK'
  BY DEF RemoteRetry, HeapInv, HeapTypeOK, BlockTypeOK, LocalInv
<1>2. ClaimInv'
  BY DEF RemoteRetry, HeapInv, HeapTypeOK, BlockTypeOK, ClaimInv, Carried, LocalInv
<1>3. HeldInv'
  BY DEF RemoteRetry, HeapInv, HeapTypeOK, BlockTypeOK, HeldInv, ClaimInv, Carried, LocalInv, HomeOK
<1>4. LocalInv'
  BY DEF RemoteRetry, HeapInv, HeapTypeOK, BlockTypeOK, HeldInv, ClaimInv, Carried, LocalInv, HomeOK
<1>5. ReadsHold'
  BY DEF RemoteRetry, HeapInv, HeapTypeOK, BlockTypeOK, ClaimInv, Carried, LocalInv, ReadsHold
<1>6. ListInv'
  <2>1. \A c \in Block : Listed(c)' <=> Listed(c)
    BY DEF RemoteRetry, HeapInv, HeapTypeOK, BlockTypeOK, Listed, Carried, LocalInv, ClaimInv
  <2>2. \A c \in Block : Listed(c) => header'[c] = header[c] /\ cut'[c] = cut[c]
    BY DEF RemoteRetry, HeapInv, HeapTypeOK, BlockTypeOK, Listed, Carried, LocalInv
  <2>3. \A u \in Thread : pc'[u] = "split" <=> pc[u] = "split"
    BY DEF RemoteRetry, HeapInv, HeapTypeOK
  <2>4. \A u \in Thread : pc[u] = "split" => block'[u] = block[u]
    BY DEF RemoteRetry, HeapInv, HeapTypeOK, BlockTypeOK
  <2>5. UNCHANGED lists
    BY DEF RemoteRetry, HeapInv, HeapTypeOK
  <2> QED BY <2>1, <2>2, <2>3, <2>4, <2>5, ListQuiet
<1> QED BY <1>1, <1>2, <1>3, <1>4, <1>5, <1>6

(* A mapped block is unmapped. *)
LEMMA UnmapBlock ==
  ASSUME HeapInv, BlockInv, NEW t \in Thread, Unmap(t)
  PROVE  BlockInv'
<1> USE DEF BlockInv
<1>1. BlockTypeOK'
  BY DEF Unmap, HeapInv, HeapTypeOK, BlockTypeOK, LocalInv
<1>2. ClaimInv'
  BY DEF Unmap, HeapInv, HeapTypeOK, BlockTypeOK, ClaimInv, Carried, LocalInv
<1>3. HeldInv'
  BY DEF Unmap, HeapInv, HeapTypeOK, BlockTypeOK, HeldInv, ClaimInv, Carried, LocalInv, HomeOK
<1>4. LocalInv'
  BY DEF Unmap, HeapInv, HeapTypeOK, BlockTypeOK, HeldInv, ClaimInv, Carried, LocalInv, HomeOK
<1>5. ReadsHold'
  BY DEF Unmap, HeapInv, HeapTypeOK, BlockTypeOK, ClaimInv, Carried, LocalInv, ReadsHold
<1>6. ListInv'
  <2>1. \A c \in Block : Listed(c)' <=> Listed(c)
    BY DEF Unmap, HeapInv, HeapTypeOK, BlockTypeOK, Listed, Carried, LocalInv, ClaimInv
  <2>2. \A c \in Block : Listed(c) => header'[c] = header[c] /\ cut'[c] = cut[c]
    BY DEF Unmap, HeapInv, HeapTypeOK, BlockTypeOK, Listed, Carried, LocalInv
  <2>3. \A u \in Thread : pc'[u] = "split" <=> pc[u] = "split"
    BY DEF Unmap, HeapInv, HeapTypeOK
  <2>4. \A u \in Thread : pc[u] = "split" => block'[u] = block[u]
    BY DEF Unmap, HeapInv, HeapTypeOK, BlockTypeOK
  <2>5. UNCHANGED lists
    BY DEF Unmap, HeapInv, HeapTypeOK
  <2> QED BY <2>1, <2>2, <2>3, <2>4, <2>5, ListQuiet
<1> QED BY <1>1, <1>2, <1>3, <1>4, <1>5, <1>6

(* A heap of the superblock is given to a thread. *)
LEMMA NewHeapBlock ==
  ASSUME HeapInv, BlockInv, NEW t \in Thread, NewHeap(t)
  PROVE  BlockInv'
<1> USE DEF BlockInv
<1>1. BlockTypeOK'
  BY DEF NewHeap, GotHeap, HeapInv, HeapTypeOK, BlockTypeOK, LocalInv, ListInv, HeadsListed, LinksListed, ReadsHold
<1>2. ClaimInv'
  BY DEF NewHeap, GotHeap, HeapInv, HeapTypeOK, BlockTypeOK, ClaimInv, Carried, LocalInv, ListInv, HeadsListed, LinksListed, ReadsHold, Listed
<1>3. HeldInv'
  BY DEF NewHeap, GotHeap, HeapInv, HeapTypeOK, BlockTypeOK, HeldInv, ClaimInv, Carried, LocalInv, HomeOK
<1>4. LocalInv'
  BY DEF NewHeap, GotHeap, HeapInv, HeapTypeOK, BlockTypeOK, HeldInv, ClaimInv, Carried, LocalInv, HomeOK, ListInv, HeadsListed, LinksListed, ReadsHold, Listed
<1>5. ReadsHold'
  BY DEF NewHeap, GotHeap, HeapInv, HeapTypeOK, BlockTypeOK, ClaimInv, Carried, LocalInv, ReadsHold
<1>6. ListInv'
  <2>1. PICK h \in heapStorage :
          /\ freeList' = [q \in FreeHeader |-> IF q[1] = h THEN Null ELSE freeList[q]]
          /\ remoteList' = [q \in FreeHeader |-> IF q[1] = h THEN Null ELSE remoteList[q]]
    BY DEF NewHeap
  <2>2. \A q \in FreeHeader : /\ freeList'[q] \in {Null, freeList[q]}
                             /\ remoteList'[q] \in {Null, remoteList[q]}
                             /\ freeList[q] \in Block \cup {Null}
                             /\ remoteList[q] \in Block \cup {Null}
    BY <2>1 DEF BlockTypeOK
  <2>3. \A c \in Block : Listed(c)' <=> Listed(c)
    BY DEF NewHeap, GotHeap, HeapInv, HeapTypeOK, Listed, Carried
  <2>4. /\ UNCHANGED <<header, cut, block>>
        /\ \A u \in Thread : pc'[u] = "split" <=> pc[u] = "split"
        /\ \A u \in Thread : pc[u] = "split" => block[u] \in Block
    BY DEF NewHeap, GotHeap, HeapInv, HeapTypeOK, LocalInv
  <2>5. HeadsListed'
    BY <2>2, <2>3, <2>4 DEF ListInv, HeadsListed
  <2>6. LinksListed'
    BY <2>3, <2>4 DEF ListInv, LinksListed
  <2>7. OneLink'
    BY <2>3, <2>4 DEF ListInv, OneLink
  <2>8. FirstIsNotNext'
    BY <2>2, <2>3, <2>4 DEF ListInv, FirstIsNotNext
  <2>9. OneFirst'
    BY <2>2, <2>4 DEF ListInv, OneFirst
  <2> QED BY <2>5, <2>6, <2>7, <2>8, <2>9 DEF ListInv
<1> QED BY <1>1, <1>2, <1>3, <1>4, <1>5, <1>6

(* The first block of the free list is taken. *)
LEMMA PopBlock ==
  ASSUME HeapInv, BlockInv, NEW t \in Thread, Pop(t)
  PROVE  BlockInv'
<1> USE DEF BlockInv
<1>1. BlockTypeOK'
  BY DEF Pop, HeapInv, HeapTypeOK, BlockTypeOK, LocalInv, ListInv, HeadsListed, LinksListed, ReadsHold
<1>2. ClaimInv'
  BY DEF Pop, HeapInv, HeapTypeOK, BlockTypeOK, ClaimInv, Carried, LocalInv, ListInv, HeadsListed, LinksListed, ReadsHold, Listed
<1>3. HeldInv'
  BY DEF Pop, HeapInv, HeapTypeOK, BlockTypeOK, HeldInv, ClaimInv, Carried, LocalInv, HomeOK
<1>4. LocalInv'
  BY DEF Pop, HeapInv, HeapTypeOK, BlockTypeOK, HeldInv, ClaimInv, Carried, LocalInv, HomeOK, ListInv, HeadsListed, LinksListed, ReadsHold, Listed
<1>5. ReadsHold'
  <2>1. \A u \in Thread : u # t /\ pc[u] \in {"pop", "push", "pull"} =>
          freeHead[u] \in FreeHeader /\ freeHead[u] # freeHead[t]
    BY OwnLists DEF Pop, LocalInv, FreeHeader
  <2> QED BY <2>1 DEF Pop, HeapInv, HeapTypeOK, BlockTypeOK, LocalInv, ReadsHold
<1>6. ListInv'
  BY DEF Pop, HeapInv, HeapTypeOK, BlockTypeOK, ClaimInv, Carried, LocalInv, ReadsHold, ListInv, HeadsListed,
         LinksListed, OneLink, FirstIsNotNext, OneFirst, Listed
<1> QED BY <1>1, <1>2, <1>3, <1>4, <1>5, <1>6

(* The remote list is pulled. *)
LEMMA PullBlock ==
  ASSUME HeapInv, BlockInv, NEW t \in Thread, Pull(t)
  PROVE  BlockInv'
<1> USE DEF BlockInv
<1>1. BlockTypeOK'
  BY DEF Pull, HeapInv, HeapTypeOK, BlockTypeOK, LocalInv, ListInv, HeadsListed, LinksListed, ReadsHold
<1>2. ClaimInv'
  BY DEF Pull, HeapInv, HeapTypeOK, BlockTypeOK, ClaimInv, Carried, LocalInv, ListInv, HeadsListed, LinksListed, ReadsHold, Listed
<1>3. HeldInv'
  BY DEF Pull, HeapInv, HeapTypeOK, BlockTypeOK, HeldInv, ClaimInv, Carried, LocalInv, HomeOK
<1>4. LocalInv'
  BY DEF Pull, HeapInv, HeapTypeOK, BlockTypeOK, HeldInv, ClaimInv, Carried, LocalInv, HomeOK, ListInv, HeadsListed, LinksListed, ReadsHold, Listed
<1>5. ReadsHold'
  <2>1. \A u \in Thread : u # t /\ pc[u] \in {"pop", "push", "pull"} =>
          freeHead[u] \in FreeHeader /\ freeHead[u] # freeHead[t]
    BY OwnLists DEF Pull, LocalInv, FreeHeader
  <2> QED BY <2>1 DEF Pull, HeapInv, HeapTypeOK, BlockTypeOK, LocalInv, ReadsHold
<1>6. ListInv'
  <2> DEFINE q == freeHead[t]
             x == remoteList[q]
  <2>1. q \in FreeHeader /\ x \in Block /\ x # Null
    BY DEF Pull, LocalInv, ReadsHold, BlockTypeOK
  <2>2. /\ freeList' = freeList /\ header' = header /\ cut' = cut
        /\ remoteList' = [remoteList EXCEPT ![q] = Null]
    BY DEF Pull
  <2>3. /\ pc[t] = "pull" /\ pc'[t] = "split" /\ block'[t] = x
        /\ \A u \in Thread : u # t => pc'[u] = pc[u] /\ block'[u] = block[u]
    BY DEF Pull, HeapInv, HeapTypeOK, BlockTypeOK
  <2>4. \A b \in Block : Listed(b)' <=> Listed(b)
    <3>1. \A b \in Block, u \in Thread : Carried(u, b)' <=> Carried(u, b)
      BY <2>3 DEF Carried
    <3>2. fresh' = fresh /\ held' = held
      BY DEF Pull
    <3> QED BY <3>1, <3>2 DEF Listed
  <2>5. /\ \A p \in FreeHeader : /\ freeList[p] \in Block \cup {Null}
                                 /\ remoteList[p] \in Block \cup {Null}
                                 /\ remoteList'[p] = IF p = q THEN Null ELSE remoteList[p]
        /\ \A u \in Thread : pc[u] = "split" => block[u] \in Block
    BY <2>2 DEF BlockTypeOK, LocalInv
  <2> HIDE DEF q
  <2>6. HeadsListed'
    BY <2>1, <2>2, <2>3, <2>4, <2>5 DEF ListInv, HeadsListed
  <2>7. LinksListed'
    BY <2>2, <2>4 DEF ListInv, HeadsListed, LinksListed
  <2>8. OneLink'
    BY <2>2, <2>4 DEF ListInv, OneLink
  <2>9. FirstIsNotNext'
    BY <2>1, <2>2, <2>3, <2>4, <2>5 DEF ListInv, FirstIsNotNext
  <2>10. OneFirst'
    BY <2>1, <2>2, <2>3, <2>5 DEF ListInv, OneFirst
  <2> QED BY <2>6, <2>7, <2>8, <2>9, <2>10 DEF ListInv
<1> QED BY <1>1, <1>2, <1>3, <1>4, <1>5, <1>6

(* The first block of the pulled list is taken. *)
LEMMA SplitBlock ==
  ASSUME HeapInv, BlockInv, NEW t \in Thread, Split(t)
  PROVE  BlockInv'
<1> USE DEF BlockInv
<1>1. BlockTypeOK'
  BY DEF Split, HeapInv, HeapTypeOK, BlockTypeOK, LocalInv, ListInv, HeadsListed, LinksListed, ReadsHold
<1>2. ClaimInv'
  BY DEF Split, HeapInv, HeapTypeOK, BlockTypeOK, ClaimInv, Carried, LocalInv, ListInv, HeadsListed, LinksListed, ReadsHold, Listed
<1>3. HeldInv'
  BY DEF Split, HeapInv, HeapTypeOK, BlockTypeOK, HeldInv, ClaimInv, Carried, LocalInv, HomeOK
<1>4. LocalInv'
  BY DEF Split, HeapInv, HeapTypeOK, BlockTypeOK, HeldInv, ClaimInv, Carried, LocalInv, HomeOK, ListInv, HeadsListed, LinksListed, ReadsHold, Listed
<1>5. ReadsHold'
  <2>1. \A u \in Thread : u # t /\ pc[u] \in {"pop", "push", "pull"} =>
          freeHead[u] \in FreeHeader /\ freeHead[u] # freeHead[t]
    BY OwnLists DEF Split, LocalInv, FreeHeader
  <2> QED BY <2>1 DEF Split, HeapInv, HeapTypeOK, BlockTypeOK, LocalInv, ReadsHold
<1>6. ListInv'
  BY DEF Split, HeapInv, HeapTypeOK, BlockTypeOK, ClaimInv, Carried, LocalInv, ReadsHold, ListInv, HeadsListed,
         LinksListed, OneLink, FirstIsNotNext, OneFirst, Listed
<1> QED BY <1>1, <1>2, <1>3, <1>4, <1>5, <1>6

(* A fresh block is cut and a fragment is pushed. *)
LEMMA ExtendFragmentBlock ==
  ASSUME HeapInv, BlockInv, NEW t \in Thread, ExtendFragment(t)
  PROVE  BlockInv'
<1> USE DEF BlockInv
<1>1. BlockTypeOK'
  <2>1. PICK a, x \in fresh, j \in Bucket :
          /\ a # x
          /\ fresh' = fresh \ {a, x}
          /\ block' = [block EXCEPT ![t] = a]
          /\ cut' = [cut EXCEPT ![a] = freeHead[t], ![x] = <<heapManager[t], j>>]
          /\ header' = [header EXCEPT ![x] = freeList[<<heapManager[t], j>>]]
          /\ freeList' = [freeList EXCEPT ![<<heapManager[t], j>>] = x]
    BY DEF ExtendFragment
  <2> DEFINE q == <<heapManager[t], j>>
  <2>2. q \in FreeHeader /\ q[1] = heapManager[t] /\ a \in Block /\ x \in Block
    BY <2>1 DEF ExtendFragment, LocalInv, FreeHeader, BlockTypeOK
  <2> HIDE DEF q
  <2>3. /\ cut' = [cut EXCEPT ![a] = freeHead[t], ![x] = q]
        /\ header' = [header EXCEPT ![x] = freeList[q]]
        /\ freeList' = [freeList EXCEPT ![q] = x]
    BY <2>1 DEF q

  <2> QED BY <2>1, <2>2, <2>3 DEF ExtendFragment, BlockTypeOK, LocalInv
<1>2. ClaimInv'
  BY DEF ExtendFragment, HeapInv, HeapTypeOK, BlockTypeOK, ClaimInv, Carried, LocalInv, ListInv, HeadsListed, LinksListed, ReadsHold, Listed
<1>3. HeldInv'
  BY DEF ExtendFragment, HeapInv, HeapTypeOK, BlockTypeOK, HeldInv, ClaimInv, Carried, LocalInv, HomeOK
<1>4. LocalInv'
  BY DEF ExtendFragment, HeapInv, HeapTypeOK, BlockTypeOK, HeldInv, ClaimInv, Carried, LocalInv, HomeOK, ListInv, HeadsListed, LinksListed, ReadsHold, Listed
<1>5. ReadsHold'
  <2>1. PICK a, x \in fresh, j \in Bucket :
          /\ a # x
          /\ fresh' = fresh \ {a, x}
          /\ block' = [block EXCEPT ![t] = a]
          /\ cut' = [cut EXCEPT ![a] = freeHead[t], ![x] = <<heapManager[t], j>>]
          /\ header' = [header EXCEPT ![x] = freeList[<<heapManager[t], j>>]]
          /\ freeList' = [freeList EXCEPT ![<<heapManager[t], j>>] = x]
    BY DEF ExtendFragment
  <2> DEFINE q == <<heapManager[t], j>>
  <2>2. q \in FreeHeader /\ q[1] = heapManager[t] /\ a \in Block /\ x \in Block
    BY <2>1 DEF ExtendFragment, LocalInv, FreeHeader, BlockTypeOK
  <2> HIDE DEF q
  <2>3. /\ cut' = [cut EXCEPT ![a] = freeHead[t], ![x] = q]
        /\ header' = [header EXCEPT ![x] = freeList[q]]
        /\ freeList' = [freeList EXCEPT ![q] = x]
    BY <2>1 DEF q
  <2>4. \A u \in Thread : u # t /\ pc[u] \in {"pop", "push", "pull"} =>
          freeHead[u] \in FreeHeader /\ freeHead[u] # q
    BY <2>2, OwnLists DEF ExtendFragment, LocalInv, FreeHeader
  <2>5. \A u \in Thread : u # t /\ pc[u] = "push" => header'[block[u]] = header[block[u]]
    <3> SUFFICES ASSUME NEW u \in Thread, pc[u] = "push"
                 PROVE  header'[block[u]] = header[block[u]]
      OBVIOUS
    <3>1. block[u] \in Block /\ Carried(u, block[u])
      BY DEF LocalInv, Carried
    <3>2. block[u] \notin fresh
      BY <3>1 DEF ClaimInv
    <3> QED BY <3>1, <3>2, <2>1, <2>3 DEF BlockTypeOK
  <2>6. /\ remoteList' = remoteList /\ freeHead' = freeHead /\ pc'[t] = "home"
        /\ \A u \in Thread : u # t => pc'[u] = pc[u] /\ block'[u] = block[u]
    BY <2>1 DEF ExtendFragment, HeapInv, HeapTypeOK, BlockTypeOK
  <2>7. \A u \in Thread : u # t /\ pc[u] \in {"pop", "push", "pull"} =>
          freeList'[freeHead[u]] = freeList[freeHead[u]]
    BY <2>3, <2>4 DEF BlockTypeOK
  <2> QED BY <2>5, <2>6, <2>7 DEF ReadsHold
<1>6. ListInv'
  <2>1. PICK a, x \in fresh, j \in Bucket :
          /\ a # x
          /\ fresh' = fresh \ {a, x}
          /\ block' = [block EXCEPT ![t] = a]
          /\ cut' = [cut EXCEPT ![a] = freeHead[t], ![x] = <<heapManager[t], j>>]
          /\ header' = [header EXCEPT ![x] = freeList[<<heapManager[t], j>>]]
          /\ freeList' = [freeList EXCEPT ![<<heapManager[t], j>>] = x]
    BY DEF ExtendFragment
  <2> DEFINE q == <<heapManager[t], j>>
  <2>2. q \in FreeHeader /\ q[1] = heapManager[t] /\ a \in Block /\ x \in Block
    BY <2>1 DEF ExtendFragment, LocalInv, FreeHeader, BlockTypeOK
  <2> HIDE DEF q
  <2>3. /\ cut' = [cut EXCEPT ![a] = freeHead[t], ![x] = q]
        /\ header' = [header EXCEPT ![x] = freeList[q]]
        /\ freeList' = [freeList EXCEPT ![q] = x]
    BY <2>1 DEF q
  <2>4. ~Listed(x) /\ ~Listed(a)
    BY <2>1 DEF Listed
  <2>5. \A c \in Block : Listed(c)' <=> Listed(c) \/ c = x
    BY <2>1, <2>2 DEF ExtendFragment, HeapInv, HeapTypeOK, BlockTypeOK, Listed, Carried,
                      ClaimInv
  <2>6. \A c \in Block : Listed(c) => header'[c] = header[c] /\ cut'[c] = cut[c]
    BY <2>1, <2>2, <2>3, <2>4 DEF BlockTypeOK
  <2>7. header'[x] = freeList[q] /\ cut'[x] = q
    BY <2>1, <2>2, <2>3 DEF BlockTypeOK
  <2>8. /\ remoteList' = remoteList
        /\ \A u \in Thread : pc'[u] = "split" <=> pc[u] = "split"
        /\ \A u \in Thread : pc[u] = "split" => block'[u] = block[u]
    BY <2>1 DEF ExtendFragment, HeapInv, HeapTypeOK, BlockTypeOK
  <2> QED BY <2>2, <2>3, <2>4, <2>5, <2>6, <2>7, <2>8, ListPush
<1> QED BY <1>1, <1>2, <1>3, <1>4, <1>5, <1>6

(* The block is pushed on the free list. *)
LEMMA PushBlock ==
  ASSUME HeapInv, BlockInv, NEW t \in Thread, Push(t)
  PROVE  BlockInv'
<1> USE DEF BlockInv
<1>1. BlockTypeOK'
  BY DEF Push, HeapInv, HeapTypeOK, BlockTypeOK, LocalInv, ListInv, HeadsListed, LinksListed, ReadsHold
<1>2. ClaimInv'
  BY DEF Push, HeapInv, HeapTypeOK, BlockTypeOK, ClaimInv, Carried, LocalInv, ListInv, HeadsListed, LinksListed, ReadsHold, Listed
<1>3. HeldInv'
  BY DEF Push, HeapInv, HeapTypeOK, BlockTypeOK, HeldInv, ClaimInv, Carried, LocalInv, HomeOK
<1>4. LocalInv'
  BY DEF Push, HeapInv, HeapTypeOK, BlockTypeOK, HeldInv, ClaimInv, Carried, LocalInv, HomeOK, ListInv, HeadsListed, LinksListed, ReadsHold, Listed
<1>5. ReadsHold'
  <2>1. \A u \in Thread : u # t /\ pc[u] \in {"pop", "push", "pull"} =>
          freeHead[u] \in FreeHeader /\ freeHead[u] # freeHead[t]
    BY OwnLists DEF Push, LocalInv, FreeHeader
  <2> QED BY <2>1 DEF Push, HeapInv, HeapTypeOK, BlockTypeOK, LocalInv, ReadsHold
<1>6. ListInv'
  <2> DEFINE x == block[t]
             q == freeHead[t]
  <2>1. x \in Block /\ q \in FreeHeader /\ Carried(t, x) /\ ~Listed(x)
    BY DEF Push, LocalInv, Carried, Listed
  <2>2. freeList' = [freeList EXCEPT ![q] = x] /\ remoteList' = remoteList
    BY DEF Push
  <2>3. header' = header /\ cut' = cut /\ header[x] = freeList[q] /\ cut[x] = q
    BY DEF Push, ReadsHold, LocalInv
  <2>4. \A c \in Block : Listed(c)' <=> Listed(c) \/ c = x
    BY <2>1 DEF Push, HeapInv, HeapTypeOK, BlockTypeOK, Listed, Carried, ClaimInv
  <2>5. /\ \A u \in Thread : pc'[u] = "split" <=> pc[u] = "split"
        /\ \A u \in Thread : pc[u] = "split" => block'[u] = block[u]
    BY DEF Push, HeapInv, HeapTypeOK, BlockTypeOK
  <2> QED BY <2>1, <2>2, <2>3, <2>4, <2>5, ListPush
<1> QED BY <1>1, <1>2, <1>3, <1>4, <1>5, <1>6

(* The block is pushed on the remote list. *)
LEMMA RemotePushBlock ==
  ASSUME HeapInv, BlockInv, NEW t \in Thread, RemotePush(t)
  PROVE  BlockInv'
<1> USE DEF BlockInv
<1>1. BlockTypeOK'
  BY DEF RemotePush, HeapInv, HeapTypeOK, BlockTypeOK, LocalInv, ListInv, HeadsListed, LinksListed, ReadsHold
<1>2. ClaimInv'
  BY DEF RemotePush, HeapInv, HeapTypeOK, BlockTypeOK, ClaimInv, Carried, LocalInv, ListInv, HeadsListed, LinksListed, ReadsHold, Listed
<1>3. HeldInv'
  BY DEF RemotePush, HeapInv, HeapTypeOK, BlockTypeOK, HeldInv, ClaimInv, Carried, LocalInv, HomeOK
<1>4. LocalInv'
  BY DEF RemotePush, HeapInv, HeapTypeOK, BlockTypeOK, HeldInv, ClaimInv, Carried, LocalInv, HomeOK, ListInv, HeadsListed, LinksListed, ReadsHold, Listed
<1>5. ReadsHold'
  BY DEF RemotePush, HeapInv, HeapTypeOK, BlockTypeOK, ClaimInv, Carried, LocalInv, ReadsHold
<1>6. ListInv'
  <2> DEFINE x == block[t]
             q == freeHead[t]
  <2>1. x \in Block /\ q \in FreeHeader /\ Carried(t, x) /\ ~Listed(x)
    BY DEF RemotePush, LocalInv, Carried, Listed
  <2>2. remoteList' = [remoteList EXCEPT ![q] = x] /\ freeList' = freeList
    BY DEF RemotePush
  <2>3. header' = header /\ cut' = cut /\ header[x] = remoteList[q] /\ cut[x] = q
    BY DEF RemotePush, ReadsHold, LocalInv
  <2>4. \A c \in Block : Listed(c)' <=> Listed(c) \/ c = x
    BY <2>1 DEF RemotePush, HeapInv, HeapTypeOK, BlockTypeOK, Listed, Carried, ClaimInv
  <2>5. /\ \A u \in Thread : pc'[u] = "split" <=> pc[u] = "split"
        /\ \A u \in Thread : pc[u] = "split" => block'[u] = block[u]
    BY DEF RemotePush, HeapInv, HeapTypeOK, BlockTypeOK
  <2> QED BY <2>1, <2>2, <2>3, <2>4, <2>5, RemoteListPush
<1> QED BY <1>1, <1>2, <1>3, <1>4, <1>5, <1>6

-------------------------------------------------------------------------------
(* Every step keeps the blocks apart. *)
LEMMA BlockStep ==
  ASSUME ~PostDtorCalls, HeapInv, BlockInv, [Next]_vars
  PROVE  BlockInv'
<1>1. CASE UNCHANGED vars
  BY <1>1 DEF vars, BlockInv, BlockTypeOK, ClaimInv, HeldInv, LocalInv, ReadsHold, HomeOK,
              ListInv, HeadsListed, LinksListed, OneLink, FirstIsNotNext, OneFirst,
              Listed, Carried
<1>2. ASSUME NEW t \in Thread, ReuseHeap(t) \/ NewHeap(t) PROVE BlockInv'
  BY <1>2, ReuseHeapBlock, NewHeapBlock
<1>3. ASSUME NEW t \in Thread, Waits(t) \/ Fails(t) PROVE BlockInv'
  BY <1>3, WaitsBlock, FailsBlock
<1>4. ASSUME NEW t \in Thread, Works(t) PROVE BlockInv'
  <2>1. Free(t) => BlockInv'
    BY ReadHomeBlock, LinkBlock, PushBlock, RemoteLinkBlock, RemotePushBlock,
       RemoteRetryBlock, UnmapBlock DEF Free
  <2> QED
    BY <1>4, <2>1, ReadFreeListBlock, PopBlock, TestRemoteBlock, PullBlock, SplitBlock,
       BumpBlock, ExtendBumpBlock, ExtendFragmentBlock, SetHomeBlock, MapLargeBlock DEF Works
<1>5. ASSUME NEW t \in Thread,
             ThreadCreate(t) \/ ThreadEnd(t) \/ HeapManagerDtor(t)
      PROVE  BlockInv'
  BY <1>5, ThreadCreateBlock, HeapManagerDtorBlock, ThreadEndBlock
<1>6. ASSUME NEW t \in Thread, \/ \E k \in Bucket \cup {Large} : CallMalloc(t, k)
                               \/ \E b \in Block : CallFree(t, b)
      PROVE  BlockInv'
  BY <1>6, CallMallocBlock, CallFreeBlock
<1> QED BY <1>1, <1>2, <1>3, <1>4, <1>5, <1>6, NextKinds

(* The invariant of heaps and blocks, on which the theorems rest. *)
THEOREM CoreInvariant == ~PostDtorCalls /\ Spec => [](HeapInv /\ BlockInv)
<1> SUFFICES ASSUME ~PostDtorCalls PROVE Spec => [](HeapInv /\ BlockInv)
  OBVIOUS
<1>1. Init => HeapInv /\ BlockInv
  BY HeapInit, BlockInit
<1>2. HeapInv /\ BlockInv /\ [Next]_vars => HeapInv' /\ BlockInv'
  BY HeapStep, BlockStep
<1> QED BY <1>1, <1>2, PTL DEF Spec

(* Every variable stays in its range: in particular a free list never leads *)
(* to the home pointer of an allocated block.                               *)
THEOREM TypeCorrect == ~PostDtorCalls /\ Spec => []TypeOK
<1> SUFFICES ASSUME ~PostDtorCalls PROVE Spec => []TypeOK
  OBVIOUS
<1>1. HeapInv /\ BlockInv => TypeOK
  BY DEF HeapInv, HeapTypeOK, BlockInv, BlockTypeOK, TypeOK
<1> QED BY <1>1, CoreInvariant, PTL

(* What a thread has read of its lists still holds when it acts on it.      *)
THEOREM ReadsStable == ~PostDtorCalls /\ Spec => []ReadsHold
<1> SUFFICES ASSUME ~PostDtorCalls PROVE Spec => []ReadsHold
  OBVIOUS
<1>1. HeapInv /\ BlockInv => ReadsHold
  BY DEF BlockInv
<1> QED BY <1>1, CoreInvariant, PTL
===============================================================================
