-------------------------------- MODULE Master ---------------------------------
(***************************************************************************)
(* The heap master in the build with statistics and debugging: how the     *)
(* program thread boots it, how threads get their heaps from superblocks   *)
(* and give them back, and the counters that collectStats, clearStats and  *)
(* shutdown add up while other threads increment them.                     *)
(*                                                                         *)
(* calls stands for every counter of HeapStatistics, and an object counts  *)
(* one byte in allocUnfreed.  An increment is a load and a store, but the  *)
(* one that free( nullptr ) makes in a thread without a heap, which is     *)
(* atomic and takes no lock.  What a thread does with mgrLock held is one  *)
(* action unless it reads or writes what other threads write or calls      *)
(* malloc.                                                                 *)
(***************************************************************************)
EXTENDS Integers, Sequences, FiniteSets, SequencesExt

CONSTANTS
  Thread, Main,       (* threads; the program thread                         *)
  Dimension,          (* malloc_thread_extend, heaps of a superblock         *)
  MaxCalls,           (* bound: calls of malloc and free                     *)
  MaxReports,         (* bound: calls of malloc_stats and malloc_stats_clear *)
  MaxStarts,          (* bound: no identity is used again after so many      *)
  None

ASSUME MasterAssumption ==
  /\ IsFiniteSet(Thread)
  /\ Main \in Thread
  /\ Dimension \in Nat \ {0}
  /\ MaxCalls \in Nat
  /\ MaxReports \in Nat
  /\ MaxStarts \in Nat
  /\ None \notin Thread \cup (Nat \X Nat)

VARIABLES
  heapMasterBootFlag,
  life,               (* life[t]: "none", "running", "ended"                 *)
  pc,                 (* where a thread is in the allocator                  *)
  keyMade,            (* pthread_key_create has made the key                 *)
  registered,         (* threads whose end calls heapManagerDtor             *)
  heapManager,        (* heapManager[t], or None for the address 1           *)
  mgrLock,            (* the thread that holds it, or None                   *)
  superblocks,        (* how many superblocks are mapped                     *)
  storage, storageEnd,        (* heapManagersStorage and its End             *)
  heapManagersList, freeHeapManagersList,
  calls,              (* the statistics of each heap                         *)
  masterCalls,        (* heapMaster.stats                                    *)
  loaded,             (* the counter a thread is incrementing, as it was     *)
  threadsStarted, threadsExited, heapNew, heapReused,
  cursor, sum,        (* of collectStats or clearStats, which hold mgrLock   *)
  allocUnfreed,       (* of each heap                                        *)
  walk, total,        (* of shutdown, which takes no lock                    *)
  reported,           (* what shutdown reports, or None                      *)
  stirred,            (* history: another thread counted during that walk    *)
  made, reports,      (* history: calls made, for the bounds                 *)
  counted,            (* history: increments done and not cleared            *)
  before,             (* history: counted when collectStats began            *)
  disturbed,          (* history: a clear hit a heap amid an increment       *)
  lost,               (* history: increments that a destructor stores over   *)
  live, failed,       (* history: objects not freed, requests that failed    *)
  forgotten,          (* history: what startup dropped from the count        *)
  early               (* history: threads with a heap before startup was over *)

boot    == <<heapMasterBootFlag, keyMade, registered>>
heaps   == <<superblocks, storage, storageEnd, heapManagersList, freeHeapManagersList>>
counts  == <<threadsStarted, threadsExited, heapNew, heapReused>>
stats   == <<calls, masterCalls, counted, disturbed, lost>>
report  == <<cursor, sum, before, reports>>
unfreed == <<allocUnfreed, live, failed, forgotten>>
final   == <<walk, total, reported, stirred>>
vars == <<boot, life, pc, heapManager, mgrLock, heaps, stats, loaded, counts, report,
          unfreed, final, made, early>>

Heaps == ToSet(heapManagersList)

(* The sum of f over the heaps in list, adding up the last n of them.  *)
SumOf(f, list) ==
  LET S[n \in 0 .. Len(list)] ==
        IF n = 0 THEN 0 ELSE S[n - 1] + f[list[Len(list) - n + 1]]
  IN  S[Len(list)]

Total(f) == SumOf(f, heapManagersList)
With(f, x, v) == [y \in DOMAIN f \cup {x} |-> IF y = x THEN v ELSE f[y]]

Init ==
  /\ heapMasterBootFlag = 0 /\ keyMade = FALSE /\ registered = {}
  /\ life = [t \in Thread |-> IF t = Main THEN "running" ELSE "none"]
  /\ pc = [t \in Thread |-> "idle"]
  /\ heapManager = [t \in Thread |-> None]
  /\ mgrLock = None
  /\ superblocks = 0 /\ storage = None /\ storageEnd = None
  /\ heapManagersList = <<>> /\ freeHeapManagersList = <<>>
  /\ calls = <<>> /\ masterCalls = 0 /\ counted = 0
  /\ disturbed = FALSE /\ lost = 0
  /\ loaded = [t \in Thread |-> 0]
  /\ threadsStarted = 0 /\ threadsExited = 0 /\ heapNew = 0 /\ heapReused = 0
  /\ cursor = <<>> /\ sum = 0 /\ before = 0 /\ reports = 0
  /\ allocUnfreed = <<>> /\ live = 0 /\ failed = 0 /\ forgotten = 0
  /\ walk = <<>> /\ total = 0 /\ reported = None /\ stirred = FALSE
  /\ made = 0 /\ early = {}

Goto(t, label) == pc' = [pc EXCEPT ![t] = label]
At(t, label) == life[t] = "running" /\ pc[t] = label
-------------------------------------------------------------------------------
(* Boot.                                                                    *)

(* heapMasterCtor. *)
MasterCtor(t) ==
  /\ At(t, "boot")
  /\ heapMasterBootFlag = 0
  /\ heapMasterBootFlag' = 1
  /\ masterCalls' = 0
  /\ counted' = counted - masterCalls
  /\ threadsStarted' = 0 /\ threadsExited' = 1 /\ heapNew' = 0 /\ heapReused' = 0
  /\ UNCHANGED <<life, pc, keyMade, registered, heapManager, mgrLock, heaps, calls,
                 disturbed, lost, loaded, report, unfreed, final, made, early>>

(* Mutant: the end of a superblock is not seen. *)
SuperblockUsedOnlyOnce == storage = None

(* No superblock yet, or none of its heaps left. *)
SuperblockUsed == storage = None \/ storage = storageEnd

(* Mutant: the reuse is not counted. *)
ReuseHeapUncounted ==
  /\ freeHeapManagersList # <<>>
  /\ freeHeapManagersList' = Tail(freeHeapManagersList)
  /\ UNCHANGED <<superblocks, storage, storageEnd, heapManagersList, heapNew, heapReused,
                 allocUnfreed>>

(* Mutant: the count of unfreed storage starts again with the thread. *)
ReuseHeapFresh ==
  /\ freeHeapManagersList # <<>>
  /\ freeHeapManagersList' = Tail(freeHeapManagersList)
  /\ heapReused' = heapReused + 1
  /\ allocUnfreed' = [allocUnfreed EXCEPT ![Head(freeHeapManagersList)] = 0]
  /\ UNCHANGED <<superblocks, storage, storageEnd, heapManagersList, heapNew>>

(* getHeap: a heap of a thread that has ended, or the next of a superblock. *)
ReuseHeap ==
  /\ freeHeapManagersList # <<>>
  /\ freeHeapManagersList' = Tail(freeHeapManagersList)
  /\ heapReused' = heapReused + 1
  /\ UNCHANGED <<superblocks, storage, storageEnd, heapManagersList, heapNew, allocUnfreed>>

NextHeap == IF SuperblockUsed THEN <<superblocks + 1, 0>> ELSE storage

(* Mutant: the new heap is not linked into the list of all heaps. *)
NewHeapUnlinked ==
  /\ freeHeapManagersList = <<>>
  /\ superblocks' = IF SuperblockUsed THEN superblocks + 1 ELSE superblocks
  /\ storageEnd' = IF SuperblockUsed THEN <<superblocks + 1, Dimension>> ELSE storageEnd
  /\ storage' = <<NextHeap[1], NextHeap[2] + 1>>
  /\ heapNew' = heapNew + 1
  /\ UNCHANGED <<heapManagersList, allocUnfreed, freeHeapManagersList, heapReused>>

NewHeap ==
  /\ freeHeapManagersList = <<>>
  /\ superblocks' = IF SuperblockUsed THEN superblocks + 1 ELSE superblocks
  /\ storageEnd' = IF SuperblockUsed THEN <<superblocks + 1, Dimension>> ELSE storageEnd
  /\ storage' = <<NextHeap[1], NextHeap[2] + 1>>
  /\ heapManagersList' = <<NextHeap>> \o heapManagersList
  /\ heapNew' = heapNew + 1
  /\ allocUnfreed' = With(allocUnfreed, NextHeap, 0)
  /\ UNCHANGED <<freeHeapManagersList, heapReused>>

GivenHeap == IF freeHeapManagersList # <<>> THEN Head(freeHeapManagersList) ELSE NextHeap

(* Mutant: heapManager is set once SETSPECIFIC, if there is one, is done. *)
GetHeapUnset(t) ==
  /\ At(t, "boot")
  /\ heapMasterBootFlag # 0
  /\ mgrLock = None
  /\ mgrLock' = t
  /\ ReuseHeap \/ NewHeap
  /\ heapManager' = IF heapMasterBootFlag = 2 THEN heapManager
                    ELSE [heapManager EXCEPT ![t] = GivenHeap]
  /\ calls' = With(calls, GivenHeap, 0)
  /\ threadsStarted' = threadsStarted + 1
  /\ Goto(t, "register")
  /\ UNCHANGED <<boot, life, early, masterCalls, counted, disturbed, lost, loaded, threadsExited,
                 report, live, failed, forgotten, final, made>>

(* The rest of heapManagerCtor as far as SETSPECIFIC. *)
GetHeap(t) ==
  /\ At(t, "boot")
  /\ heapMasterBootFlag # 0
  /\ mgrLock = None
  /\ mgrLock' = t
  /\ ReuseHeap \/ NewHeap
  /\ heapManager' = [heapManager EXCEPT ![t] = GivenHeap]
  /\ calls' = With(calls, GivenHeap, 0)
  /\ threadsStarted' = threadsStarted + 1
  /\ early' = IF heapMasterBootFlag = 2 THEN early ELSE early \cup {t}
  /\ Goto(t, "register")
  /\ UNCHANGED <<boot, life, masterCalls, counted, disturbed, lost, loaded, threadsExited, report,
                 live, failed, forgotten, final, made>>

(* pthread_setspecific may call malloc, which boots a thread without a heap. *)
Register(t) ==
  /\ At(t, "register")
  /\ IF heapMasterBootFlag = 2 /\ heapManager[t] = None
     THEN Goto(t, "boot") /\ UNCHANGED <<registered, mgrLock>>
     ELSE /\ registered' = IF heapMasterBootFlag = 2 THEN registered \cup {t} ELSE registered
          /\ mgrLock' = None
          /\ Goto(t, "idle")
  /\ UNCHANGED <<heapMasterBootFlag, keyMade, life, heapManager, heaps, stats, loaded, counts,
                 report, unfreed, final, made, early>>

(* A first call of malloc or free, or startup before either, boots.  Other  *)
(* threads exist only after pthread_create has called malloc.               *)
Boots(t) ==
  /\ At(t, "idle")
  /\ heapManager[t] = None
  /\ Goto(t, "boot")
  /\ UNCHANGED <<boot, life, heapManager, mgrLock, heaps, stats, loaded, counts, report,
                 unfreed, final, made, early>>

(* startup: the key, the destructor of the program thread, and the flag.    *)
StartupKey ==
  /\ At(Main, "idle")
  /\ heapManager[Main] # None
  /\ heapMasterBootFlag = 1
  /\ ~keyMade
  /\ keyMade' = TRUE
  /\ Goto(Main, "startup")
  /\ UNCHANGED <<heapMasterBootFlag, registered, life, heapManager, mgrLock, heaps, stats,
                 loaded, counts, report, unfreed, final, made, early>>

StartupDone ==
  /\ At(Main, "startup")
  /\ registered' = registered \cup {Main}
  /\ heapMasterBootFlag' = 2
  /\ forgotten' = allocUnfreed[heapManager[Main]]
  /\ allocUnfreed' = [allocUnfreed EXCEPT ![heapManager[Main]] = 0]
  /\ Goto(Main, "idle")
  /\ UNCHANGED <<keyMade, life, heapManager, mgrLock, heaps, stats, loaded, counts, report,
                 live, failed, final, made, early>>
-------------------------------------------------------------------------------
(* Threads.                                                                 *)

Create(t) ==
  /\ life[t] = "none"
  /\ At(Main, "idle")
  /\ heapManager[Main] # None
  /\ life' = [life EXCEPT ![t] = "running"]
  /\ UNCHANGED <<boot, pc, heapManager, mgrLock, heaps, stats, loaded, counts, report,
                 unfreed, final, made, early>>

(* A thread ends that the key does not know of: it keeps its heap.          *)
EndUnregistered(t) ==
  /\ t # Main
  /\ At(t, "idle")
  /\ t \notin registered
  /\ life' = [life EXCEPT ![t] = "ended"]
  /\ UNCHANGED <<boot, pc, heapManager, mgrLock, heaps, stats, loaded, counts, report,
                 unfreed, final, made, early>>

(* Mutant: the destructor does not wait for mgrLock. *)
DtorUnlocked(t) ==
  /\ t # Main
  /\ At(t, "idle")
  /\ t \in registered
  /\ mgrLock' = t
  /\ freeHeapManagersList' = <<heapManager[t]>> \o freeHeapManagersList
  /\ loaded' = [loaded EXCEPT ![t] = masterCalls]
  /\ Goto(t, "retain")
  /\ UNCHANGED <<boot, life, heapManager, superblocks, storage, storageEnd, heapManagersList,
                 stats, counts, report, unfreed, final, made, early>>

(* heapManagerDtor, as far as the load of heapMaster.stats.                 *)
Dtor(t) ==
  /\ t # Main
  /\ At(t, "idle")
  /\ t \in registered
  /\ mgrLock = None
  /\ mgrLock' = t
  /\ freeHeapManagersList' = <<heapManager[t]>> \o freeHeapManagersList
  /\ loaded' = [loaded EXCEPT ![t] = masterCalls]
  /\ Goto(t, "retain")
  /\ UNCHANGED <<boot, life, heapManager, superblocks, storage, storageEnd, heapManagersList,
                 stats, counts, report, unfreed, final, made, early>>

(* Mutant: the statistics of the heap stay in it too. *)
RetainKeepsStats(t) ==
  /\ At(t, "retain")
  /\ masterCalls' = loaded[t] + calls[heapManager[t]]
  /\ threadsExited' = threadsExited + 1
  /\ mgrLock' = None
  /\ heapManager' = [heapManager EXCEPT ![t] = None]
  /\ registered' = registered \ {t}
  /\ life' = [life EXCEPT ![t] = "ended"]
  /\ loaded' = [loaded EXCEPT ![t] = 0]
  /\ Goto(t, "idle")
  /\ UNCHANGED <<heapMasterBootFlag, keyMade, heaps, calls, counted, disturbed, lost, threadsStarted,
                 heapNew, heapReused, report, unfreed, final, made, early>>

(* The sum is stored, over what was counted since the load.  (The code      *)
(* leaves heapManager set: module LLHeap.)                                  *)
Retain(t) ==
  /\ At(t, "retain")
  /\ masterCalls' = loaded[t] + calls[heapManager[t]]
  /\ calls' = [calls EXCEPT ![heapManager[t]] = 0]
  /\ threadsExited' = threadsExited + 1
  /\ mgrLock' = None
  /\ heapManager' = [heapManager EXCEPT ![t] = None]
  /\ registered' = registered \ {t}
  /\ life' = [life EXCEPT ![t] = "ended"]
  /\ loaded' = [loaded EXCEPT ![t] = 0]
  /\ Goto(t, "idle")
  /\ UNCHANGED <<heapMasterBootFlag, keyMade, heaps, counted, disturbed, lost, threadsStarted, heapNew,
                 heapReused, report, unfreed, final, made, early>>

(* The identity of an ended thread is used again.                           *)
Recycle(t) ==
  /\ life[t] = "ended"
  /\ heapManager[t] = None
  /\ threadsStarted < MaxStarts
  /\ life' = [life EXCEPT ![t] = "none"]
  /\ early' = early \ {t}
  /\ UNCHANGED <<boot, pc, heapManager, mgrLock, heaps, stats, loaded, counts, report,
                 unfreed, final, made>>
-------------------------------------------------------------------------------
(* malloc and free count.                                                   *)

Load(t) ==
  /\ At(t, "idle")
  /\ heapManager[t] # None
  /\ made < MaxCalls
  /\ made' = made + 1
  /\ loaded' = [loaded EXCEPT ![t] = calls[heapManager[t]]]
  /\ Goto(t, "count")
  /\ UNCHANGED <<boot, life, heapManager, mgrLock, heaps, stats, counts, report, unfreed,
                 final, early>>

(* The counter is stored, *)
Store(t) ==
  /\ At(t, "count")
  /\ calls' = [calls EXCEPT ![heapManager[t]] = loaded[t] + 1]
  /\ counted' = counted + 1
  /\ loaded' = [loaded EXCEPT ![t] = 0]
  /\ stirred' = (stirred \/ pc[Main] = "shutdown")
  /\ Goto(t, "idle")
  /\ UNCHANGED <<boot, life, heapManager, mgrLock, heaps, masterCalls, disturbed, lost, counts,
                 report, forgotten, walk, total, reported, made, early>>

(* and the heap of the caller counts the object, before it is known whether *)
(* there is memory,                                                         *)
StoreMalloc(t) ==
  /\ Store(t)
  /\ allocUnfreed' = [allocUnfreed EXCEPT ![heapManager[t]] = @ + 1]
  /\ \/ live' = live + 1 /\ UNCHANGED failed
     \/ failed' = failed + 1 /\ UNCHANGED live

(* or counts it down, whichever heap counted it up.                         *)
StoreFree(t) ==
  /\ Store(t)
  /\ live > 0
  /\ live' = live - 1
  /\ allocUnfreed' = [allocUnfreed EXCEPT ![heapManager[t]] = @ - 1]
  /\ UNCHANGED failed

(* free( nullptr ) in a thread without a heap: Fai, and no lock, so that a  *)
(* destructor may store over it.                                            *)
FreeNull(t) ==
  /\ At(t, "idle")
  /\ heapManager[t] = None
  /\ made < MaxCalls
  /\ made' = made + 1
  /\ masterCalls' = masterCalls + 1
  /\ counted' = counted + 1
  /\ lost' = IF \E u \in Thread : pc[u] = "retain" THEN lost + 1 ELSE lost
  /\ UNCHANGED <<boot, life, pc, heapManager, mgrLock, heaps, calls, disturbed, loaded, counts,
                 report, unfreed, final, early>>
-------------------------------------------------------------------------------
(* collectStats and clearStats walk heapManagersList with mgrLock held.     *)

StartWalk(t, label) ==
  /\ At(t, "idle")
  /\ heapMasterBootFlag # 0
  /\ mgrLock = None
  /\ reports < MaxReports
  /\ reports' = reports + 1
  /\ mgrLock' = t
  /\ cursor' = heapManagersList
  /\ Goto(t, label)
  /\ UNCHANGED <<boot, life, heapManager, heaps, calls, disturbed, lost, loaded, counts, unfreed,
                 final, made, early>>

Collect(t) ==
  /\ StartWalk(t, "collect")
  /\ sum' = masterCalls
  /\ before' = counted
  /\ UNCHANGED <<masterCalls, counted>>

CollectHeap(t) ==
  /\ At(t, "collect")
  /\ cursor # <<>>
  /\ sum' = sum + calls[Head(cursor)]
  /\ cursor' = Tail(cursor)
  /\ UNCHANGED <<boot, life, pc, heapManager, mgrLock, heaps, stats, loaded, counts, before,
                 reports, unfreed, final, made, early>>

Clear(t) ==
  /\ StartWalk(t, "clear")
  /\ masterCalls' = 0
  /\ counted' = counted - masterCalls
  /\ UNCHANGED <<sum, before>>

(* A thread that has loaded the counter of h will store it over the zero.   *)
ClearHeap(t) ==
  /\ At(t, "clear")
  /\ cursor # <<>>
  /\ LET h == Head(cursor) IN
       /\ calls' = [calls EXCEPT ![h] = 0]
       /\ counted' = counted - calls[h]
       /\ disturbed' = (disturbed \/ \E u \in Thread : pc[u] = "count" /\ heapManager[u] = h)
  /\ cursor' = Tail(cursor)
  /\ UNCHANGED <<boot, life, pc, heapManager, mgrLock, heaps, masterCalls, lost, loaded, counts,
                 sum, before, reports, unfreed, final, made, early>>

EndWalk(t) ==
  /\ At(t, "collect") \/ At(t, "clear")
  /\ cursor = <<>>
  /\ mgrLock' = None
  /\ sum' = 0
  /\ before' = 0
  /\ Goto(t, "idle")
  /\ UNCHANGED <<boot, life, heapManager, heaps, stats, loaded, counts, cursor, reports, unfreed,
                 final, made, early>>
-------------------------------------------------------------------------------
(* shutdown, when main returns: the heaps are added up without a lock,      *)
(* while other threads may still run.  Its malloc_stats is a Collect that   *)
(* Main makes before, and malloc_unfreed returns 0, the default.            *)

(* Mutant: the walk takes the stack of free heaps for the list of all. *)
ShutdownFreeHeaps ==
  /\ At(Main, "idle")
  /\ heapMasterBootFlag = 2
  /\ walk' = freeHeapManagersList
  /\ Goto(Main, "shutdown")
  /\ UNCHANGED <<boot, life, heapManager, mgrLock, heaps, stats, loaded, counts, report, unfreed,
                 total, reported, stirred, made, early>>

Shutdown ==
  /\ At(Main, "idle")
  /\ heapMasterBootFlag = 2
  /\ walk' = heapManagersList
  /\ Goto(Main, "shutdown")
  /\ UNCHANGED <<boot, life, heapManager, mgrLock, heaps, stats, loaded, counts, report, unfreed,
                 total, reported, stirred, made, early>>

ShutdownHeap ==
  /\ At(Main, "shutdown")
  /\ walk # <<>>
  /\ total' = total + allocUnfreed[Head(walk)]
  /\ walk' = Tail(walk)
  /\ UNCHANGED <<boot, life, pc, heapManager, mgrLock, heaps, stats, loaded, counts, report,
                 unfreed, reported, stirred, made, early>>

ShutdownDone ==
  /\ At(Main, "shutdown")
  /\ walk = <<>>
  /\ reported' = total
  /\ UNCHANGED <<boot, life, pc, heapManager, mgrLock, heaps, stats, loaded, counts, report,
                 unfreed, walk, total, stirred, made, early>>

Step(t) ==
  \/ Boots(t) \/ MasterCtor(t) \/ GetHeap(t) \/ Register(t)
  \/ Create(t) \/ EndUnregistered(t) \/ Dtor(t) \/ Retain(t) \/ Recycle(t)
  \/ Load(t) \/ StoreMalloc(t) \/ StoreFree(t) \/ FreeNull(t)
  \/ Collect(t) \/ CollectHeap(t) \/ Clear(t) \/ ClearHeap(t) \/ EndWalk(t)

Next ==
  /\ reported = None
  /\ \/ \E t \in Thread : Step(t)
     \/ StartupKey \/ StartupDone
     \/ Shutdown \/ ShutdownHeap \/ ShutdownDone

Spec == Init /\ [][Next]_vars
-------------------------------------------------------------------------------
(* Every variable stays in its range.                                       *)
TypeOK ==
  /\ heapMasterBootFlag \in 0 .. 2
  /\ life \in [Thread -> {"none", "running", "ended"}]
  /\ pc \in [Thread -> {"idle", "boot", "register", "startup", "count", "retain", "collect",
                        "clear", "shutdown"}]
  /\ keyMade \in BOOLEAN
  /\ registered \subseteq Thread
  /\ heapManager \in [Thread -> Heaps \cup {None}]
  /\ mgrLock \in Thread \cup {None}
  /\ ToSet(freeHeapManagersList) \subseteq Heaps
  /\ ToSet(cursor) \subseteq Heaps
  /\ ToSet(walk) \subseteq Heaps
  /\ calls \in [Heaps -> Nat]
  /\ allocUnfreed \in [Heaps -> Int]
  /\ masterCalls \in Nat /\ sum \in Nat /\ live \in Nat /\ failed \in Nat
  /\ lost \in Nat
  /\ threadsStarted \in Nat /\ threadsExited \in Nat /\ heapNew \in Nat /\ heapReused \in Nat

(* A thread never waits for mgrLock while it holds it: what the thread      *)
(* library allocates during SETSPECIFIC finds a thread with a heap.         *)
NoSelfLock == \A t \in Thread : pc[t] = "boot" => mgrLock # t

(* No heap is taken past the end of a superblock or twice; each is with one *)
(* thread or waits to be reused, and only a thread that got its heap before *)
(* startup was over ends without giving it back.                            *)
HeapsAccounted ==
  /\ Heaps \subseteq (1 .. superblocks) \X (0 .. Dimension - 1)
  /\ IsInjective(heapManagersList) /\ IsInjective(freeHeapManagersList)
  /\ \A h \in Heaps :
       \/ \E t \in Thread : heapManager[t] = h
       \/ h \in ToSet(freeHeapManagersList)
  /\ \A t \in Thread :
       heapManager[t] # None =>
         /\ pc[t] # "retain" => heapManager[t] \notin ToSet(freeHeapManagersList)
         /\ \A u \in Thread \ {t} : heapManager[u] # heapManager[t]
         /\ life[t] = "ended" => t \in early \cup {Main}

(* The counters of threads and heaps agree with what there is, through      *)
(* threads that never register and heaps that are used again.               *)
CountersAgree ==
  heapMasterBootFlag # 0 =>
    /\ heapNew = Len(heapManagersList)
    /\ threadsStarted = heapNew + heapReused
    /\ threadsStarted = threadsExited - 1 + Cardinality({t \in Thread : heapManager[t] # None})

(* When threads end, their heaps are used again and counters are cleared,   *)
(* no call is counted twice, and none is lost but those of free( nullptr )  *)
(* by a thread without a heap while a destructor adds: unless a clear hit a *)
(* heap whose owner was between its load and its store.                     *)
StatsAddUp == disturbed \/ masterCalls + Total(calls) \in counted - lost .. counted

(* What malloc_stats prints is a number of calls between those made when it *)
(* began and those made when it was done, less those that destructors lost. *)
CollectBounded ==
  (\E t \in Thread : At(t, "collect")) /\ cursor = <<>> /\ ~disturbed =>
    before - lost <= sum /\ sum <= counted - lost

(* As long as no request has failed, the counts of the heaps add up to the  *)
(* storage not freed, whichever thread freed it, less what the program      *)
(* thread allocated before startup.                                         *)
UnfreedAdds == failed = 0 => Total(allocUnfreed) = live - forgotten

(* What shutdown reports is the storage not freed, although it takes no     *)
(* lock and threads may start, end and get heaps during the walk, unless    *)
(* one of them allocates or frees.                                          *)
UnfreedReported == reported # None /\ failed = 0 /\ ~stirred => reported = live - forgotten
===============================================================================
