-------------------------------- MODULE LLHeap --------------------------------
(***************************************************************************)
(* The concurrent core of llheap.cc: threads that boot a heap of their own *)
(* (heapManagerCtor, getHeap), allocate from it (doMalloc), free blocks to *)
(* it or to the heap of another thread (doFree), and give the heap up when *)
(* they end (heapManagerDtor) for a later thread to reuse.                 *)
(*                                                                         *)
(* One action is one access to storage another thread can reach.  Lists    *)
(* are the linked lists of the code: a head per bucket, and the first word *)
(* of each block's header, which is the home pointer of an allocated block *)
(* and the next pointer of a free one (the union RealHeader).  A block is  *)
(* a name for a piece of storage of one size class; where it lies is the   *)
(* business of the extension of the buffer, not of this module.  A section *)
(* under a lock is one action between the one that takes the lock and the  *)
(* end of the section.  The build is the default one, with __OWNERSHIP__;   *)
(* BootOnFree tells the statistics and debug builds apart.                  *)
(***************************************************************************)
EXTENDS Integers, Sequences, FiniteSets

CONSTANTS
  Thread,          (* thread identities; an ended thread's can be reused     *)
  Heap,            (* the heaps of the superblock                            *)
  Bucket,          (* size classes, an index into freeLists                  *)
  Block,           (* pieces of storage                                      *)
  Null,            (* nullptr                                                *)
  Unset,           (* the address 1: heapManager of a thread without a heap  *)
  Large,           (* the size class of a request >= mmapStart               *)
  Mmapped,         (* header word of storage mapped for one allocation       *)
  BootOnFree,      (* built with __STATISTICS__ or __DEBUG__: free boots too *)
  PostDtorCalls    (* threads call malloc/free after heapManagerDtor         *)

ASSUME ConstAssumption ==
  /\ Bucket \subseteq Nat
  /\ BootOnFree \in BOOLEAN
  /\ PostDtorCalls \in BOOLEAN
  /\ Unset \notin Heap
  /\ Large \notin Bucket
  /\ Null \notin Block
  /\ Mmapped \notin Block \cup {Null}
  /\ (Block \cup {Null, Mmapped}) \cap (Heap \X Bucket) = {}
  /\ Null \notin Bucket \cup {Large} \cup Thread

VARIABLES
  life,                  (* life[t]: "none", "running", "detached"           *)
  heapManager,           (* thread_local heapManager                         *)
  freeHeapManagersList,  (* heapMaster's stack of heaps of ended threads     *)
  heapStorage,           (* heaps of the superblock not handed out yet       *)
  mgrLock, extLock,      (* heapMaster's locks: who holds them, or Null      *)
  freeList,              (* the freeList of every FreeHeader                 *)
  remoteList,            (* the remoteList of every FreeHeader               *)
  header,                (* first word of each block's header                *)
  fresh,                 (* storage not cut from a buffer, or not mapped     *)
  cut,                   (* history: the heap and bucket a block was cut for *)
  held,                  (* blocks the program may use                       *)
  pc, size, block, freeHead  (* a thread in the allocator, its locals        *)

master  == <<freeHeapManagersList, heapStorage, mgrLock, extLock>>
lists   == <<freeList, remoteList>>
storage == <<fresh, cut>>
local   == <<pc, size, block, freeHead>>
vars    == <<life, heapManager, master, lists, header, storage, held, local>>

(* The FreeHeaders, freeLists[k] of heap h is <<h, k>>: its homeManager is  *)
(* the first component.                                                     *)
FreeHeader == Heap \X Bucket

Label == {"idle", "boot", "getHeap", "malloc", "pop", "remote", "pull", "split",
          "bump", "extend", "map", "home", "free", "link", "push", "rlink", "cas",
          "dtor"}

(* Every variable stays in its range. *)
TypeOK ==
  /\ life \in [Thread -> {"none", "running", "detached"}]
  /\ heapManager \in [Thread -> Heap \cup {Unset}]
  /\ freeHeapManagersList \in Seq(Heap)
  /\ heapStorage \subseteq Heap
  /\ {mgrLock, extLock} \subseteq Thread \cup {Null}
  /\ freeList \in [FreeHeader -> Block \cup {Null}]
  /\ remoteList \in [FreeHeader -> Block \cup {Null}]
  /\ header \in [Block -> FreeHeader \cup Block \cup {Null, Mmapped}]
  /\ fresh \subseteq Block
  /\ cut \in [Block -> FreeHeader \cup {Null}]
  /\ held \subseteq Block
  /\ pc \in [Thread -> Label]
  /\ size \in [Thread -> Bucket \cup {Large, Null}]
  /\ block \in [Thread -> Block \cup {Null}]
  /\ freeHead \in [Thread -> FreeHeader \cup {Null}]

Init ==
  /\ life = [t \in Thread |-> "none"]
  /\ heapManager = [t \in Thread |-> Unset]
  /\ freeHeapManagersList = <<>>
  /\ heapStorage = Heap
  /\ mgrLock = Null
  /\ extLock = Null
  /\ freeList = [q \in FreeHeader |-> Null]
  /\ remoteList = [q \in FreeHeader |-> Null]
  /\ header = [b \in Block |-> Null]
  /\ fresh = Block
  /\ cut = [b \in Block |-> Null]
  /\ held = {}
  /\ pc = [t \in Thread |-> "idle"]
  /\ size = [t \in Thread |-> Null]
  /\ block = [t \in Thread |-> Null]
  /\ freeHead = [t \in Thread |-> Null]

Goto(t, l) == pc' = [pc EXCEPT ![t] = l]

(* The call of t returns. *)
Return(t) ==
  /\ Goto(t, "idle")
  /\ size' = [size EXCEPT ![t] = Null]
  /\ block' = [block EXCEPT ![t] = Null]
  /\ freeHead' = [freeHead EXCEPT ![t] = Null]

(* The lists of the FreeHeader t works on. *)
MyFreeList(t) == freeList[freeHead[t]]
MyRemoteList(t) == remoteList[freeHead[t]]
SetFreeList(t, b) == freeList' = [freeList EXCEPT ![freeHead[t]] = b]
SetRemoteList(t, b) == remoteList' = [remoteList EXCEPT ![freeHead[t]] = b]
-------------------------------------------------------------------------------
(* Threads.                                                                 *)

(* A thread starts: its thread_local heapManager is the address 1. *)
ThreadCreate(t) ==
  /\ life[t] = "none"
  /\ life' = [life EXCEPT ![t] = "running"]
  /\ heapManager' = [heapManager EXCEPT ![t] = Unset]
  /\ UNCHANGED <<master, lists, header, storage, held, local>>

(* The destructor of pthread_key runs as the thread terminates, and takes   *)
(* mgrLock.                                                                 *)
LockDtor(t) ==
  /\ life[t] = "running"
  /\ pc[t] = "idle"
  /\ heapManager[t] # Unset
  /\ mgrLock = Null
  /\ mgrLock' = t
  /\ Goto(t, "dtor")
  /\ UNCHANGED <<life, heapManager, freeHeapManagersList, heapStorage, extLock,
                 lists, header, storage, held, size, block, freeHead>>

(* Mutant: the ending thread does not give its heap up. *)
HeapManagerDtorKeeps(t) ==
  /\ pc[t] = "dtor"
  /\ life' = [life EXCEPT ![t] = "detached"]
  /\ mgrLock' = Null
  /\ Return(t)
  /\ UNCHANGED <<heapManager, freeHeapManagersList, heapStorage, extLock, lists,
                 header, storage, held>>

(* The heap of the thread is pushed on the stack of free heaps.             *)
(* heapManager keeps its value.                                             *)
HeapManagerDtor(t) ==
  /\ pc[t] = "dtor"
  /\ freeHeapManagersList' = <<heapManager[t]>> \o freeHeapManagersList
  /\ life' = [life EXCEPT ![t] = "detached"]
  /\ mgrLock' = Null
  /\ Return(t)
  /\ UNCHANGED <<heapManager, heapStorage, extLock, lists, header, storage, held>>

(* The thread is gone.  One that never booted registered no destructor. *)
ThreadEnd(t) ==
  /\ pc[t] = "idle"
  /\ \/ life[t] = "detached"
     \/ life[t] = "running" /\ heapManager[t] = Unset
  /\ life' = [life EXCEPT ![t] = "none"]
  /\ UNCHANGED <<heapManager, master, lists, header, storage, held, local>>

(* Code of the program runs in t: before the destructor of pthread_key, and *)
(* after it when other destructors of the thread are still to run.          *)
MayCall(t) ==
  /\ pc[t] = "idle"
  /\ \/ life[t] = "running"
     \/ life[t] = "detached" /\ PostDtorCalls
-------------------------------------------------------------------------------
(* BOOT_HEAP_MANAGER, heapManagerCtor and getHeap.                          *)

(* pthread_mutex_lock( &heapMaster.mgrLock ). *)
LockMgr(t) ==
  /\ pc[t] = "boot"
  /\ mgrLock = Null
  /\ mgrLock' = t
  /\ Goto(t, "getHeap")
  /\ UNCHANGED <<life, heapManager, freeHeapManagersList, heapStorage, extLock,
                 lists, header, storage, held, size, block, freeHead>>

(* t gets heap h, gives the lock back, and goes on with the malloc or the   *)
(* free that booted it.                                                     *)
GotHeap(t, h) ==
  /\ pc[t] = "getHeap"
  /\ heapManager' = [heapManager EXCEPT ![t] = h]
  /\ mgrLock' = Null
  /\ Goto(t, IF block[t] = Null THEN "malloc" ELSE "free")
  /\ UNCHANGED <<life, extLock, header, storage, held, size, block, freeHead>>

(* Mutant: a reused heap is set up as a new one. *)
ReuseHeapResets(t) ==
  /\ freeHeapManagersList # <<>>
  /\ GotHeap(t, Head(freeHeapManagersList))
  /\ LET h == Head(freeHeapManagersList) IN
       /\ freeList' = [q \in FreeHeader |-> IF q[1] = h THEN Null ELSE freeList[q]]
       /\ remoteList' = [q \in FreeHeader |-> IF q[1] = h THEN Null ELSE remoteList[q]]
  /\ freeHeapManagersList' = Tail(freeHeapManagersList)
  /\ UNCHANGED heapStorage

(* Mutant: the heap is not popped. *)
ReuseHeapNoPop(t) ==
  /\ freeHeapManagersList # <<>>
  /\ GotHeap(t, Head(freeHeapManagersList))
  /\ UNCHANGED <<freeHeapManagersList, heapStorage, lists>>

(* getHeap, a heap of an ended thread: its lists and buffer are kept. *)
ReuseHeap(t) ==
  /\ freeHeapManagersList # <<>>
  /\ GotHeap(t, Head(freeHeapManagersList))
  /\ freeHeapManagersList' = Tail(freeHeapManagersList)
  /\ UNCHANGED <<heapStorage, lists>>

(* Mutant: heapManagersStorage is not bumped. *)
NewHeapNoBump(t) ==
  /\ freeHeapManagersList = <<>>
  /\ \E h \in heapStorage :
       /\ GotHeap(t, h)
       /\ freeList' = [q \in FreeHeader |-> IF q[1] = h THEN Null ELSE freeList[q]]
       /\ remoteList' = [q \in FreeHeader |-> IF q[1] = h THEN Null ELSE remoteList[q]]
  /\ UNCHANGED <<freeHeapManagersList, heapStorage>>

(* getHeap, the next heap of the superblock, with empty lists. *)
NewHeap(t) ==
  /\ freeHeapManagersList = <<>>
  /\ \E h \in heapStorage :
       /\ GotHeap(t, h)
       /\ heapStorage' = heapStorage \ {h}
       /\ freeList' = [q \in FreeHeader |-> IF q[1] = h THEN Null ELSE freeList[q]]
       /\ remoteList' = [q \in FreeHeader |-> IF q[1] = h THEN Null ELSE remoteList[q]]
  /\ UNCHANGED freeHeapManagersList
-------------------------------------------------------------------------------
(* doMalloc.                                                                *)

CallMalloc(t, k) ==
  /\ MayCall(t)
  /\ Goto(t, IF heapManager[t] = Unset THEN "boot" ELSE "malloc")
  /\ size' = [size EXCEPT ![t] = k]
  /\ UNCHANGED <<life, heapManager, master, lists, header, storage, held, block, freeHead>>

(* The bucket of a small request, block = freeHead->freeList, and its test. *)
ReadFreeList(t) ==
  /\ pc[t] = "malloc"
  /\ size[t] # Large
  /\ LET q == <<heapManager[t], size[t]>> IN
       /\ freeHead' = [freeHead EXCEPT ![t] = q]
       /\ block' = [block EXCEPT ![t] = freeList[q]]
       /\ Goto(t, IF freeList[q] # Null THEN "pop" ELSE "remote")
  /\ UNCHANGED <<life, heapManager, master, lists, header, storage, held, size>>

(* freeHead->freeList = block->next. *)
Pop(t) ==
  /\ pc[t] = "pop"
  /\ SetFreeList(t, header[block[t]])
  /\ Goto(t, "home")
  /\ UNCHANGED <<life, heapManager, master, remoteList, header, storage, held,
                 size, block, freeHead>>

(* The test of freeHead->remoteList. *)
TestRemote(t) ==
  /\ pc[t] = "remote"
  /\ Goto(t, IF MyRemoteList(t) # Null THEN "pull" ELSE "bump")
  /\ UNCHANGED <<life, heapManager, master, lists, header, storage, held,
                 size, block, freeHead>>

(* block = Fas( freeHead->remoteList, nullptr ). *)
Pull(t) ==
  /\ pc[t] = "pull"
  /\ block' = [block EXCEPT ![t] = MyRemoteList(t)]
  /\ SetRemoteList(t, Null)
  /\ Goto(t, "split")
  /\ UNCHANGED <<life, heapManager, master, freeList, header, storage, held, size, freeHead>>

(* Mutant: the whole list that was pulled becomes the free list. *)
SplitWhole(t) ==
  /\ pc[t] = "split"
  /\ SetFreeList(t, block[t])
  /\ Goto(t, "home")
  /\ UNCHANGED <<life, heapManager, master, remoteList, header, storage, held,
                 size, block, freeHead>>

(* freeHead->freeList = block->next: the remainder becomes the free list. *)
Split(t) ==
  /\ pc[t] = "split"
  /\ SetFreeList(t, header[block[t]])
  /\ Goto(t, "home")
  /\ UNCHANGED <<life, heapManager, master, remoteList, header, storage, held,
                 size, block, freeHead>>

(* A block is cut from the thread's buffer, which has room for it. *)
Bump(t) ==
  /\ pc[t] = "bump"
  /\ \E b \in fresh :
       /\ fresh' = fresh \ {b}
       /\ cut' = [cut EXCEPT ![b] = freeHead[t]]
       /\ block' = [block EXCEPT ![t] = b]
  /\ Goto(t, "home")
  /\ UNCHANGED <<life, heapManager, master, lists, header, held, size, freeHead>>

(* The buffer has no room: manager_extend, which goes to master_extend. *)
ManagerExtend(t) ==
  /\ pc[t] = "bump"
  /\ Goto(t, "extend")
  /\ UNCHANGED <<life, heapManager, master, lists, header, storage, held,
                 size, block, freeHead>>

(* pthread_mutex_lock( &heapMaster.extLock ). *)
LockExt(t) ==
  /\ pc[t] = "extend"
  /\ extLock = Null
  /\ extLock' = t
  /\ Goto(t, "map")
  /\ UNCHANGED <<life, heapManager, freeHeapManagersList, heapStorage, mgrLock,
                 lists, header, storage, held, size, block, freeHead>>

(* master_extend is done and gives the lock back. *)
Extended(t) ==
  /\ pc[t] = "map"
  /\ extLock' = Null
  /\ UNCHANGED <<life, heapManager, freeHeapManagersList, heapStorage, mgrLock>>

(* A block is cut from a new buffer; the old one leaves no remainder that a *)
(* bucket holds.                                                            *)
ExtendBump(t) ==
  /\ Extended(t)
  /\ \E b \in fresh :
       /\ fresh' = fresh \ {b}
       /\ cut' = [cut EXCEPT ![b] = freeHead[t]]
       /\ block' = [block EXCEPT ![t] = b]
  /\ Goto(t, "home")
  /\ UNCHANGED <<lists, header, held, size, freeHead>>

(* Mutant: the fragment goes to the bucket above, without the round down. *)
ExtendFragmentNoRound(t) ==
  /\ Extended(t)
  /\ \E b, f \in fresh, j, i \in Bucket :
       /\ b # f
       /\ j < i /\ i <= size[t]
       /\ fresh' = fresh \ {b, f}
       /\ block' = [block EXCEPT ![t] = b]
       /\ LET q == <<heapManager[t], i>> IN
            /\ cut' = [cut EXCEPT ![b] = freeHead[t], ![f] = <<heapManager[t], j>>]
            /\ header' = [header EXCEPT ![f] = freeList[q]]
            /\ freeList' = [freeList EXCEPT ![q] = f]
  /\ Goto(t, "home")
  /\ UNCHANGED <<remoteList, held, size, freeHead>>

(* What remains of the old buffer is a fragment f that fits a smaller       *)
(* bucket j: it is pushed on that bucket's free list.                       *)
ExtendFragment(t) ==
  /\ Extended(t)
  /\ \E b, f \in fresh, j \in Bucket :
       /\ b # f
       /\ j < size[t]
       /\ fresh' = fresh \ {b, f}
       /\ block' = [block EXCEPT ![t] = b]
       /\ LET q == <<heapManager[t], j>> IN
            /\ cut' = [cut EXCEPT ![b] = freeHead[t], ![f] = q]
            /\ header' = [header EXCEPT ![f] = freeList[q]]
            /\ freeList' = [freeList EXCEPT ![q] = f]
  /\ Goto(t, "home")
  /\ UNCHANGED <<remoteList, held, size, freeHead>>

(* Mutant: a failed mapping returns without giving the lock back. *)
ExtendFailsLocked(t) ==
  /\ pc[t] = "map"
  /\ Return(t)
  /\ UNCHANGED <<life, heapManager, master, lists, header, storage, held>>

(* MMAP_CHECK: no memory.  The lock is given back, malloc returns nullptr. *)
ExtendFails(t) ==
  /\ Extended(t)
  /\ Return(t)
  /\ UNCHANGED <<lists, header, storage, held>>

(* The mapping of a large request fails. *)
MapFails(t) ==
  /\ pc[t] = "malloc"
  /\ size[t] = Large
  /\ Return(t)
  /\ UNCHANGED <<life, heapManager, master, lists, header, storage, held>>

(* block->home = freeHead, and the return of the block to the caller. *)
SetHome(t) ==
  /\ pc[t] = "home"
  /\ header' = [header EXCEPT ![block[t]] = freeHead[t]]
  /\ held' = held \cup {block[t]}
  /\ Return(t)
  /\ UNCHANGED <<life, heapManager, master, lists, storage>>

(* A large request: storage of its own, marked as mapped. *)
MapLarge(t) ==
  /\ pc[t] = "malloc"
  /\ size[t] = Large
  /\ \E b \in fresh :
       /\ fresh' = fresh \ {b}
       /\ header' = [header EXCEPT ![b] = Mmapped]
       /\ held' = held \cup {b}
  /\ Return(t)
  /\ UNCHANGED <<life, heapManager, master, lists, cut>>
-------------------------------------------------------------------------------
(* doFree.                                                                  *)

(* Any thread may free any block the program holds. *)
CallFree(t, b) ==
  /\ MayCall(t)
  /\ b \in held
  /\ held' = held \ {b}
  /\ block' = [block EXCEPT ![t] = b]
  /\ Goto(t, IF BootOnFree /\ heapManager[t] = Unset THEN "boot" ELSE "free")
  /\ UNCHANGED <<life, heapManager, master, lists, header, storage, size, freeHead>>

(* Mutant: every block is pushed on the free list of its home. *)
ReadHomeNoOwner(t) ==
  /\ pc[t] = "free"
  /\ header[block[t]] # Mmapped
  /\ freeHead' = [freeHead EXCEPT ![t] = header[block[t]]]
  /\ Goto(t, "link")
  /\ UNCHANGED <<life, heapManager, master, lists, header, storage, held, size, block>>

(* headers(): the home of a block; is it the heap of this thread? *)
ReadHome(t) ==
  /\ pc[t] = "free"
  /\ header[block[t]] # Mmapped
  /\ freeHead' = [freeHead EXCEPT ![t] = header[block[t]]]
  /\ Goto(t, IF heapManager[t] = header[block[t]][1] THEN "link" ELSE "rlink")
  /\ UNCHANGED <<life, heapManager, master, lists, header, storage, held, size, block>>

(* Mutant: the link is not set. *)
LinkSkips(t) ==
  /\ pc[t] = "link"
  /\ Goto(t, "push")
  /\ UNCHANGED <<life, heapManager, master, lists, header, storage, held, size, block, freeHead>>

(* header->next = freeHead->freeList. *)
Link(t) ==
  /\ pc[t] = "link"
  /\ header' = [header EXCEPT ![block[t]] = MyFreeList(t)]
  /\ Goto(t, "push")
  /\ UNCHANGED <<life, heapManager, master, lists, storage, held, size, block, freeHead>>

(* freeHead->freeList = header. *)
Push(t) ==
  /\ pc[t] = "push"
  /\ SetFreeList(t, block[t])
  /\ Return(t)
  /\ UNCHANGED <<life, heapManager, master, remoteList, header, storage, held>>

(* header->next = freeHead->remoteList. *)
RemoteLink(t) ==
  /\ pc[t] = "rlink"
  /\ header' = [header EXCEPT ![block[t]] = MyRemoteList(t)]
  /\ Goto(t, "cas")
  /\ UNCHANGED <<life, heapManager, master, lists, storage, held, size, block, freeHead>>

(* Mutant: a plain store in place of the compare-and-swap. *)
RemotePushPlain(t) ==
  /\ pc[t] = "cas"
  /\ SetRemoteList(t, block[t])
  /\ Return(t)
  /\ UNCHANGED <<life, heapManager, master, freeList, header, storage, held>>

(* Casv( freeHead->remoteList, header->next, header ) succeeds. *)
RemotePush(t) ==
  /\ pc[t] = "cas"
  /\ MyRemoteList(t) = header[block[t]]
  /\ SetRemoteList(t, block[t])
  /\ Return(t)
  /\ UNCHANGED <<life, heapManager, master, freeList, header, storage, held>>

(* Mutant: a compare-and-swap that does not report what it found. *)
RemoteRetryStale(t) ==
  /\ pc[t] = "cas"
  /\ MyRemoteList(t) # header[block[t]]
  /\ UNCHANGED vars

(* The compare-and-swap fails: it resets header->next to what it found. *)
RemoteRetry(t) ==
  /\ pc[t] = "cas"
  /\ MyRemoteList(t) # header[block[t]]
  /\ header' = [header EXCEPT ![block[t]] = MyRemoteList(t)]
  /\ UNCHANGED <<life, heapManager, master, lists, storage, held, local>>

(* A mapped block goes back to the operating system. *)
Unmap(t) ==
  /\ pc[t] = "free"
  /\ header[block[t]] = Mmapped
  /\ fresh' = fresh \cup {block[t]}
  /\ header' = [header EXCEPT ![block[t]] = Null]
  /\ Return(t)
  /\ UNCHANGED <<life, heapManager, master, lists, cut, held>>
-------------------------------------------------------------------------------
(* The steps of t inside the allocator. *)
Boot(t) == LockMgr(t) \/ ReuseHeap(t) \/ NewHeap(t)
Extend(t) == \/ ManagerExtend(t) \/ LockExt(t) \/ ExtendBump(t)
             \/ ExtendFragment(t) \/ ExtendFails(t)
Malloc(t) == \/ ReadFreeList(t) \/ Pop(t) \/ TestRemote(t) \/ Pull(t) \/ Split(t)
             \/ Bump(t) \/ Extend(t) \/ SetHome(t) \/ MapLarge(t) \/ MapFails(t)
Free(t) == \/ ReadHome(t) \/ Link(t) \/ Push(t)
           \/ RemoteLink(t) \/ RemotePush(t) \/ RemoteRetry(t) \/ Unmap(t)
Step(t) == Boot(t) \/ Malloc(t) \/ Free(t) \/ HeapManagerDtor(t)

(* What the program does. *)
Call(t) == \/ ThreadCreate(t) \/ LockDtor(t) \/ ThreadEnd(t)
           \/ \E k \in Bucket \cup {Large} : CallMalloc(t, k)
           \/ \E b \in Block : CallFree(t, b)

Next == \E t \in Thread : Step(t) \/ Call(t)

Spec == Init /\ [][Next]_vars

(* A thread inside the allocator is scheduled when it can run.  Weak        *)
(* fairness is no more than that: it does not say that a thread gets a lock *)
(* which others keep taking ahead of it.                                    *)
FairSpec == Spec /\ \A t \in Thread : WF_vars(Step(t))
-------------------------------------------------------------------------------
(* Who uses which heap.                                                     *)

(* The heap t works on, when it is inside the allocator. *)
Inside(t) == pc[t] \notin {"idle", "boot", "getHeap", "dtor"} /\ heapManager[t] # Unset

(* Heap per thread: two threads that are inside the allocator at one time   *)
(* are in different heaps.  Every list and buffer access of doMalloc and    *)
(* the local branch of doFree is unsynchronised and rests on this.          *)
NoSharedHeap ==
  \A t, u \in Thread :
    t # u /\ Inside(t) /\ Inside(u) => heapManager[t] # heapManager[u]

Leased(h) == {t \in Thread : life[t] = "running" /\ heapManager[t] = h}
Stacked(h) == {i \in DOMAIN freeHeapManagersList : freeHeapManagersList[i] = h}

(* No heap is lost or given out twice: each is still in the superblock, or  *)
(* once on the stack of free heaps, or the heap of one running thread, and  *)
(* getHeap finds one for each thread that boots as long as there are no     *)
(* more threads than heaps.                                                 *)
HeapsConserved ==
  \A h \in Heap :
    Cardinality({h} \cap heapStorage) + Cardinality(Stacked(h))
      + Cardinality(Leased(h)) = 1

(* What a thread has read of its heap is still so when it acts on it: no    *)
(* other thread has moved the free list it is popping from or pushing on,   *)
(* and the remote list it found not empty is not empty when it pulls it.    *)
ReadsHold ==
  \A t \in Thread :
    /\ pc[t] = "pop"  => MyFreeList(t) = block[t]
    /\ pc[t] = "push" => MyFreeList(t) = header[block[t]]
    /\ pc[t] = "pull" => MyRemoteList(t) # Null
-------------------------------------------------------------------------------
(* Where each block is.                                                     *)

(* The blocks that next leads to from b: the least set that has b and goes  *)
(* where next goes.                                                         *)
Reach(next, b) ==
  {c \in Block :
     \A S \in SUBSET Block :
       /\ {b} \cap Block \subseteq S
       /\ \A d \in S : next[d] \in Block => next[d] \in S
       => c \in S}

(* The blocks of the list that starts with b. *)
Chain(b) == Reach(header, b)

(* t is inside free() with b, which it has not put back yet. *)
Freeing(t, b) ==
  /\ block[t] = b
  /\ pc[t] \in {"boot", "getHeap", "free", "link", "push", "rlink", "cas"}

(* t has taken b off the lists to return it from malloc, or has pulled the  *)
(* remote list b is on.                                                     *)
Taking(t, b) ==
  \/ pc[t] = "home" /\ block[t] = b
  \/ pc[t] = "split" /\ b \in Chain(block[t])

(* How many times b is accounted for. *)
Claims(b) ==
  Cardinality({b} \cap fresh) + Cardinality({b} \cap held)
    + Cardinality({t \in Thread : Freeing(t, b) \/ Taking(t, b)})
    + Cardinality({q \in FreeHeader : b \in Chain(freeList[q])})
    + Cardinality({q \in FreeHeader : b \in Chain(remoteList[q])})

(* No block is lost and none is in two places, whatever threads free, pull  *)
(* and allocate at the same time: the hand over of the remote lists by Casv *)
(* and Fas neither drops a block nor duplicates one.                        *)
BlocksConserved == \A b \in Block : Claims(b) = 1

(* With __OWNERSHIP__ storage goes back to the heap and the bucket it was   *)
(* cut for: a block on a list of a bucket, or handed out from it, has the   *)
(* size of that bucket and is of that heap.                                 *)
OwnershipKept ==
  /\ \A q \in FreeHeader : \A b \in Chain(freeList[q])
                             \cup Chain(remoteList[q]) : cut[b] = q
  /\ \A b \in held : header[b] \in FreeHeader => cut[b] = header[b]
-------------------------------------------------------------------------------
(* Progress.                                                                *)

(* t is in malloc, which may have to boot. *)
InMalloc(t) ==
  \/ pc[t] \in {"malloc", "pop", "remote", "pull", "split", "bump", "extend", "map", "home"}
  \/ pc[t] \in {"boot", "getHeap"} /\ block[t] = Null

(* malloc waits for nothing but its two locks, and those are always given   *)
(* back, by a booting thread, an ending thread and an extension, also when  *)
(* no memory is found: a malloc that does not return is one whose lock      *)
(* others take ahead of it again and again.                                 *)
MallocReturns ==
  \A t \in Thread :
    <>[]InMalloc(t) =>
      \/ []<><<pc[t] = "boot" /\ mgrLock' \notin {Null, mgrLock}>>_vars
      \/ []<><<pc[t] = "extend" /\ extLock' \notin {Null, extLock}>>_vars

(* The push of a remote free is lock-free: a thread can be kept in its loop *)
(* forever only by pushes and pulls of other threads that succeed, without  *)
(* end, on the same list.                                                   *)
RemotePushLockFree ==
  \A t \in Thread :
    <>[](pc[t] = "cas") =>
      []<><<pc[t] = "cas" /\ pc'[t] = "cas" /\ MyRemoteList(t)' # MyRemoteList(t)>>_vars
===============================================================================
