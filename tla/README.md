# llheap: a TLA+ model of the allocator

llheap replaces `malloc` and its relatives by a heap-per-thread allocator.  All
of it is one file, `src/llheap.cc`; the programs beside it test the allocator
and put load on it.  This directory holds TLA+ modules for the logic of the
allocator and of its concurrent load programs, TLC configurations that check
them on small instances, and theorems that TLAPS checks for every value of the
constants.  `PROJECT.json` lists the runs, the source lines of each definition,
the mutants that show that each property can fail, the hazards and the findings.

The build that is modelled is the default one: `__OWNERSHIP__` (a block goes
back to the heap it came from), `__FASTLOOKUP__`, and the lock-free remote list
(not `__REMOTESPIN__`).  `LLHeap` and `Objects` are of the build without
statistics and debugging code, except that `BootOnFree` gives `LLHeap` the
control flow of the other one; `Master` is of the build with both.

## 1. Inventory

### Components

| Component | State | Operations | Modelled by |
|---|---|---|---|
| Per-thread heap | thread-local `heapManager`; per bucket a `freeList` and a `remoteList`; the first word of each block's header (home or next) | `doMalloc`, `doFree`, `heapManagerCtor`, `getHeap`, `heapManagerDtor` | `LLHeap` |
| Size classes | `bucketSizes`, `lookup`, `mmapStart`, `maxBucketsUsed` | the loop that fills `lookup`, `Bsearchl`, the choice of a bucket, `setMmapStart` | `BucketSizes`, `LookupTable`, `SizeClasses` |
| Buffers and slab | per heap `bufStart`, `bufRemaining`; `sbrkStart`, `sbrkEnd`, `sbrkRemaining`, `sbrkExtend` | bump allocation, `manager_extend`, `master_extend`, mapped storage, `M_TOP_PAD` | `Extend` |
| Heap master and boot | the boot flag of three values, superblocks, the list of all heaps and the stack of free ones, `mgrLock`, the key of the destructor | `heapMasterCtor`, `heapManagerCtor`, `getHeap`, `heapManagerDtor`, `startup`, `shutdown` | `Master`; the part that other threads race with also in `LLHeap` |
| Headers | the header word (size of the request, bits for zero fill and mapped storage), the fake header of an aligned object | `headers`, `fakeHeader`, `memalignNoStats` | `Objects` |
| Allocation interface | none of its own; `errno` | `malloc`, `calloc`, `resize`, `realloc`, `posix_realloc`, the aligned and zero-filled variants, `malloc_usable_size`, `free` | `ObjectPromise` (what is promised), `Objects` |
| Statistics, unfreed storage | counters per heap, a sum of ended ones, counts of threads and heaps, `allocUnfreed` | increments, `collectStats`, `clearStats`, `shutdown` | `Master` |
| Concurrent load programs | slots and batches; a bounded buffer; slices and their flags; a barrier | `ownership.cc`, `ownershipPT.cc`, `larson.cc`, `latency.cc` | `Ownership`, `BoundedBuffer`, `Larson`, `Latency` |
| Printing, backtraces, signal handlers | none | I/O | no |
| `llheap.h`, tests, sequential benchmarks, `Makefile` | none | | no |

### How the components interact

`malloc` boots a heap for a thread that has none (`BOOT_HEAP_MANAGER`, under
`mgrLock`), asks the size classes for a bucket, and takes a block from the free
list of that bucket, from its remote list, or from the buffer.  An empty buffer
is replaced by `manager_extend`, which gets a thread block from `master_extend`
under `extLock` and chains what was left.  `free` reads the home pointer from
the header of the block and puts it on the free list of its own heap without
synchronisation, or on the remote list of another heap with a compare-and-swap.
The owner takes a whole remote list with one exchange.  When a thread ends, its
heap goes on a stack and the next thread that boots gets it, with its lists and
buffer, while other threads may be pushing on its remote lists.  `mallopt`
writes two words that `doMalloc` reads without a lock.

The routines of the interface are sequential code over `doMalloc` and `doFree`:
they look at the header before the object to find its block, its size and its
sticky properties, and reuse the block or move the object.  The counters of a
heap are written by its owner and read, summed and cleared by whoever prints
statistics, with `mgrLock` held but without synchronisation with the owner.
The first call of `malloc` may come before or after the constructor `startup`
of the library, and the thread library may itself call `malloc` while a thread
registers its destructor.

The load programs pass objects between threads so that the allocator meets
remote frees (`ownership`, `ownershipPT`), threads that end and are succeeded
while their objects live on (`larson`), and threads side by side (`latency`).
What they measure says something of the allocator only if they use it right.

### What is hard

* Two threads are meant never to be in one heap; nothing but the handover at
  the end and start of threads ensures it.
* The remote list is a lock-free stack with many pushers and one owner, and the
  owner changes.
* The header word is a home pointer in an allocated block and a link in a free
  one: a block that is in two places makes the allocator follow a wrong pointer.
* Sizes at a boundary: with and without header, at the crossover, at the last
  bytes of a buffer.
* A step that fails in the middle of an extension.
* The kernel decides where a mapping goes.
* An object carries facts (size, alignment, zero fill) through calls that move
  it or leave it, succeed or fail.
* A counter is incremented while it is summed or cleared, and its heap changes
  hands.
* The counter of the master has a writer that takes no lock, and the report of
  unfreed storage at the end of the program walks the heaps without one.
* Load programs that depend on the order of a stop and of threads that start
  and end, in two places on nothing but a sleep.

`PROJECT.json` names each hazard with its line and the properties that watch it.

### What makes each component correct

* Per-thread heap: no two threads inside one heap; no heap and no block lost or
  given out twice; a block goes back to its own heap and bucket; `malloc` waits
  for nothing but its two locks, `mgrLock` when it boots and `extLock` when its
  buffer is used up, and a remote free only for operations that succeed.
* Size classes: a request gets the smallest bucket that holds it, and a
  remainder goes to a bucket that is not too large for it.
* Buffers: what is given out is mapped for that heap, and nothing is given out
  twice; no more is accounted to a slab than it has, or than one extension where
  `mallopt` made it shorter than that; no remainder is lost.
* Heap master: each heap is with one thread or on the stack; a thread never
  waits for a lock it holds; the counters agree with what there is.
* Interface: each object has a block of its own; its size, alignment, fill and
  contents are what the sequence of calls promises; it lies inside its block.
* Statistics: no count is doubled, and none lost but in two races that the code
  leaves open (a clear that falls into an increment, and `free( nullptr )` beside
  a destructor); unfreed storage is right in the sum, whichever thread frees, and
  in the report, whichever threads come and go meanwhile.
* Load programs: what is allocated has one holder and is freed once; all threads
  measure the same; the program ends.

## 2. Modules

Names are those of the source where the language allows it.

| Module | What it is |
|---|---|
| `BlockLedger` | The promise of `malloc` and `free` to a program: who may use each block. |
| `LLHeap` | The concurrent core. One action is one access to storage that another thread can reach. |
| `LLHeapLedger` | The mapping from `LLHeap` to `BlockLedger`. |
| `BucketSizes` | The table of sizes and what it means to be the bucket of a size. |
| `LookupTable` | The loop in `heapMasterCtor` that fills `lookup`. |
| `SizeClasses` | The search, the choice of a bucket and `setMmapStart`, each probe and each access to a shared word an action. |
| `SizesBoot` | The composition of the two: `heapMasterCtor` fills the table, then threads use it. |
| `Extend` | Buffers, slab and address space, against a kernel that places a mapping anywhere it may. |
| `Master` | Boot, startup and shutdown, heaps and superblocks, statistics and unfreed storage, in the build that counts. |
| `ObjectPromise` | What the interface promises of an object, as functions of promises. |
| `Objects` | The routines of the interface over blocks with headers, each step checked against its promise. |
| `Ownership`, `BoundedBuffer`, `Larson`, `Latency` | The four concurrent load programs. |
| `MCLLHeap`, `MCExtend`, `MCObjects`, `MCMaster`, `MCPrograms`, `MCSizeClasses` | Values of constants and symmetry for TLC. |
| `Programs` | The four load programs, one of them in each behaviour, and the properties of each. |
| `LLHeapProofs`, `LLHeapBlockProofs` | Proofs about the core: its threads and lists; its blocks, found along the lists, and the refinement. |
| `LookupTableProofs`, `SizeClassesProofs` | Proofs about the size classes. |
| `ExtendProofs` | Proofs about the buffers and the slab. |
| `MasterProofs` | Proofs about the heap master and the statistics. |
| `ObjectsProofs` | Proofs about the interface. |
| `ProgramsProofs` | Proofs about the load programs. |

`LLHeap` takes the choice of a bucket and the place of a block as given:
`CallMalloc` names the bucket, and `Bump` takes any piece of storage that no one
has.  `SizeClasses` shows which bucket that is, and `Extend` that the pieces are
indeed nobody's.  `Extend` uses of `SizeClasses` that a remainder is chained to
the largest bucket that is no larger (`FragmentFits`), and `SizeClasses` uses of
`LookupTable` that the table is right (`LookupAssumption` is `LookupRight` at
the end of the loop).  `Objects` takes from `doMalloc` that it returns a free
block of a bucket that is large enough, or a mapped one, or nothing; it is one
thread's view, since the header of an object is its holder's.  `Master` has the
same handover of heaps as `LLHeap` but no blocks: what it adds is what happens
before `main`, at the end of the program, and to the counters.

### LLHeap and the code

`heapManager`, `freeList`, `remoteList`, `freeHeapManagersList` are the
variables of those names.  A `FreeHeader` is a pair of heap and bucket, so its
`homeManager` is the first component.  `header[b]` is the first word of the
header of block `b`: a pair is `kind.real.home`, a block or `Null` is
`kind.real.next`, `Mmapped` is the bit that marks mapped storage.  `fresh` is
storage that is not cut from a buffer yet, `held` are the blocks the program may
use, `cut` records which bucket a block was cut for and is read by properties
only.  `pc`, `size`, `block` and `freeHead` are the locals of a thread in the
allocator.

`doMalloc` is `CallMalloc`, then `ReadFreeList`, then `Pop`, or `TestRemote`
followed by `Pull` and `Split`, or `Bump` from the buffer, or `ManagerExtend`;
then `SetHome`.  An extension waits for `extLock` (`LockExt`), holds it over the
mappings, and ends with the lock given back in `ExtendBump`, `ExtendFragment`,
which also chains what was left of the old buffer, or `ExtendFails`.  A large
request is `MapLarge` or `MapFails`.  `doFree` is `CallFree`, `ReadHome`, then
`Link` and `Push` for a block of this heap, or `RemoteLink` and the
compare-and-swap (`RemotePush` if it succeeds, `RemoteRetry` if it fails and
writes what it found into the block), or `Unmap`.  `mgrLock` and `extLock` are
variables: taking one is an action that waits until it is free (`LockMgr`,
`LockDtor`, `LockExt`), and what is done with it held, the release included, is
the action after that (`ReuseHeap` or `NewHeap`, `HeapManagerDtor`, the three
ends of an extension).  An object passed between threads by the program is any
block in `held`, so any thread may free any block.

### SizeClasses and the code

`mmapStart` and `maxBucketsUsed` are the fields of `heapMaster`; `key`, `l` and
`h` are the locals of `Bsearchl`.  `op` says whether the search belongs to
`doMalloc`, `manager_extend` or `setMmapStart`.  In `StartSearch` the key is the
value just stored or the word loaded again: the word is not atomic and the
compiler may do either.  `overlap` and `raced` are history: whether calls of
`mallopt` have overlapped since the last one that overlapped none, and the calls
of `malloc` that a `mallopt` overlaps or that began after such an overlap.  They
depend on when calls begin and end, not on the two words.

### Extend and the code

`use` is the address space: free, reserved by the slab, mapped for a large
request, or mapped for a heap.  `Placed` is `mmap`: a hint is followed when the
pages there are free, otherwise any free place will do.  `slabEnd` and `blocks`
are history.  Both mappings of `master_extend` run under `extLock` and are one
action, with an action of its own for the failure between them (`ExtendFails`);
a failure of the first, or of a mapping from a slab with room, changes nothing.
`SetTopPad` is `mallopt( M_TOP_PAD )`: a value below `MinExtend` fails the
`always_assert` there and ends the program, so there is no step for it.  Between
`MinExtend` and `ThreadBlock` the code accepts it, and so does the model.

### Objects and the code

An object is a block and a position in it (`p.b`, `p.at`), its address the base
of the block plus the position.  The real header is at position 0; `fake` is the
fake header, if the object is aligned, with its place, alignment and offset.
Sizes count words of 8 bytes, so that a header is two and the least alignment
two.  A routine of the source is an operator from the blocks to the set of its
outcomes, because `doMalloc` may fail and may return any free block; routines
call each other as they do in the code (`AlignedRealloc` calls `Realloc`, which
calls `Calloc` or `DoMalloc`).  `data` is the contents, so that what `realloc`
copies and clears is what the program finds.  An action is a call: it takes the
outcome for `block` and `errno`, and `promise`, a history variable, to what
`ObjectPromise` says of the call: a call that fails leaves the promise as it was.
An `aligned_realloc` that fails after it has changed the alignment in the header
sets `realigned` in the promise, which excepts the alignment of that object, and
nothing else of it, until the program is given another (section 5.12).  `Write`
is the program filling an object.

### Master and the code

`storage` and `storageEnd` are a place in a superblock, `<<number, index>>`.
`calls` stands for each counter of `HeapStatistics`: an increment is `Load` and
`Store`, the latter with what the call does to the count of unfreed storage
(`StoreMalloc`, `StoreFree`).  `FreeNull` is the one writer of the master's
counter that takes no lock, `free( nullptr )` in a thread without a heap.  A
section under `mgrLock` is one action unless it reads or writes what others write
meanwhile: `heapManagerDtor` is `Dtor`, as far as the load of the master's
counter, and `Retain`, which stores the sum; `collectStats` and `clearStats` read
or clear one heap in each step (`CollectHeap`, `ClearHeap`); and `Register` is
the registration of the destructor, in which the thread library calls `malloc`
in the same thread while it holds the lock.  `shutdown` takes no lock: it reads
the head of the list of heaps (`Shutdown`), adds up one heap in each step
(`ShutdownHeap`) and reports (`ShutdownDone`), with other threads running.

History: `lost` counts the increments of `FreeNull` between the load and the
store of a destructor, `disturbed` says that a clear came between the load and
the store of an increment, `stirred` that another thread allocated or freed
during the walk of `shutdown`.  `early` are the threads that got a heap before
startup was over and so register no destructor.

### The load programs and the code

Each thread is its `pc` and the locals that matter; a call of `malloc` or `free`
is one action, as the core is checked elsewhere.  In `Ownership` an array is
known by the worker that starts with it, and an exchange at a slot is `Swap`.
In `BoundedBuffer` what is done with the mutex held is one action, a wait gives
the mutex up and sleeps in one step, and a thread may wake for no reason.  In
`Larson` threads are named by identities that are used again, and a slice is
passed from a thread to its successor by `Relay`.  main sleeps before it stops
the threads and rests "for old threads to die" before the next round; how long
is left open, so `Stop` and `Rest` wait for nobody.  Two histories say what then
happened: `unheard`, the slices whose thread first ran after the stop and
returned without a word, and `late`, those with a thread still on them when main
had rested.  In `Latency` an experiment is
a group of allocations followed by as many frees, in order or in reverse; each
is run once instead of `TIMES` times.

## 3. Runs

| Run | Question | Distinct states |
|---|---|---|
| `core` | Safety of the core and the refinement of `BlockLedger`: two threads that end and restart, two buckets, three blocks. | 278 thousand |
| `race` | Two threads push on the remote list of a third that pulls, ends and is succeeded; `free` boots a heap too, as in the statistics and debug builds. | 828 thousand |
| `progress` | `malloc` waits for its two locks only, and they are given back; a remote free is lock-free. | 74 thousand |
| `sizes` | The table is right at every step of the loop; then each boundary of the real table of 64 buckets, four crossovers, and a second thread that moves the crossover at any time. | 299 thousand |
| `extend` | Two heaps, large requests, failures, and slabs longer and shorter than a thread block (`M_TOP_PAD`), in an address space of nine pages. | 731 thousand |
| `objects` | Any sequence of calls of the interface keeps its promises, with allocations that fail. | 38 thousand |
| `master` | Boot, threads that come and go, counters and reports, `free( nullptr )` without a heap, shutdown beside running threads. | 5.9 million |
| `programs` | The four load programs use the allocator right, measure what they say and end. | 104 thousand |
| `post_dtor`, `sizes_fit`, `extend_kept`, `posix_errno` | Statements of comments and assertions that the code does not keep; see section 5. | |

Why the bounds are enough:

* Core. Two threads are enough for a push against a pull, and for a heap that
  changes hands while a remote free is under way (the pusher is the first
  thread, the heap's old and new owner the second in two lives).  Three are
  needed for two pushers whose compare-and-swap compete.  Three blocks are
  enough for a list with a block in the middle while another is in flight; two
  buckets for a remainder that is chained to a smaller one.  There are as many
  heaps as threads, as there is always room in the superblock or a new one is
  mapped.  Threads, heaps and blocks are symmetric in the safety runs; the
  liveness run uses no symmetry.
* Size classes. The sizes are those next to every boundary of every bucket (the
  size, one more, one less, and the same a header lower).  Between two of them
  the code does the same comparisons with the same results.  The loop goes
  through the first 5 buckets (`FilledBuckets`, `FilledSizes`), past the first
  uneven steps; it does the same for each bucket.  One thread goes through the
  boundaries and moves the crossover, a second moves it too: enough for two calls
  of `mallopt` that overlap, and for one that overlaps a `malloc`.
* Extend. A page is two units, so blocks may end inside one; a thread block is
  two pages, the slab two thread blocks, one and a half, or half of one; a block
  may be larger than a thread block.  `Limit` leaves room for two or three slabs
  with the blocks outside of them or a large request, and bounds how often
  buffers are replaced: storage of heaps is never unmapped.  TLC's deadlock check
  is off in these runs because the address space can be used up.
* Objects. The buckets have four, eight and fourteen words: an object can be
  resized inside its block, moved to a larger and to a smaller one, and mapped.
  The alignments are below, at, and two steps above the least one.  A routine
  touches the object it is given and at most one new block, so the run has one
  object at a time, in any state that calls can bring it to, and two blocks;
  that the objects of others are left alone is part of `OneOwner` and
  `PromisesKept`, proved for any number.
* Master. Superblocks of two heaps, so that two threads and the program thread
  need a second one; three calls, three starts of threads and one report are
  enough for a heap that is used, given back, used again and summed or cleared
  at any moment between.  The bounds (`MaxCalls`, `MaxStarts`, `MaxReports`)
  stop the counters; the run has no deadlock check because the program ends.
* Programs. Two workers and two slots are enough for an exchange in each
  direction and for meeting one's own array; two producers and two consumers
  with a buffer of two for barging, and for sleepers on both conditions; one
  and then two slices with a successor (`MaxRelays`) and a spare thread for two
  rounds; rounds of two and three threads, groups of one and two.  The programs
  end, so there is no deadlock check; `ProgramEnds` says that they stop nowhere
  else.

Fairness.  `FairSpec` has weak fairness of `Step(t)` for each thread, the
actions inside the allocator.  It asks only that the scheduler of the system
runs a thread that can run.  A thread waits for another at `mgrLock` and at
`extLock` only.  Others may take such a lock again and again while a thread
waits, and neither a mutex nor weak fairness gives it the lock then.
`MallocReturns` says just this: a `malloc` that never returns waits for a lock
that others take without end.  It would fail if a path kept a lock, as an early
return in the middle of an extension would.  The program is under no fairness: it need
never call.  `RemotePushLockFree` is no more than lock freedom, on purpose:
nothing bounds how often one thread's compare-and-swap loses.

The load programs have weak fairness of each thread and of main, which is also
what ends a sleep; a thread that wakes up by itself is not fair.  Nothing is
assumed of how long a sleep lasts.  So `larson` may never end, namely after a
thread was `unheard`, and `ProgramEnds` excepts exactly that; and
`RelaysHoldBlocks` excepts the slices in `late` from the moment a thread outlived
the rest there.  Without the exceptions TLC finds the first case at once and the
second after the second round has begun (section 5.7).

## 4. Proofs

The theorems hold for any number of threads, heaps, buckets, blocks and objects,
any sizes and alignments, and any increasing table of at most 256 bucket sizes.
Every safety property that a run checks is stated by a theorem.  Each assumption
on constants is a named `ASSUME` of the module that declares them and is
evaluated by TLC in the runs.

**Core** (`Exclusive`, `NoHeapLost`, `CoreInvariant`, `TypeCorrect`,
`ReadsStable`, `NoBlockLost`, `OwnershipStays`, `Refinement`).  They assume
`ConstAssumption` (the kinds of constants are apart) and `~PostDtorCalls`: no
thread enters the allocator after `heapManagerDtor` ran in it.  That is what
`post_dtor` shows to be needed.

`HeapInv` says that the heaps of running threads, those on the stack and those
still in the superblock are all different.  It is inductive and implies
`NoSharedHeap`.  `PlacedInv` adds that every heap is in one of these three places
and that a thread that boots has no heap it would drop; with `HeapInv` it makes the
counts of `HeapsConserved` add up to one.

That lists and blocks are not mixed up is not inductive as `BlocksConserved`
states it, following whole lists.  `ListInv` says what is needed with facts
about single links: a listed block is held by nobody, the next of a listed block
is listed and of the same bucket, no block is the next of two, none is both a
first and a next, none is first of two lists.  `LocalInv` says what a thread's
locals mean at each step, `ClaimInv` that a block is fresh, the program's or one
thread's.  Together with `ReadsHold` these are `BlockInv`, which is inductive
given `HeapInv`.  `TypeOK` follows from it, and that is not shallow: a header that
holds a home pointer must never be taken for a link.

`BlockInv` does not exclude that listed blocks hang together in a way that no
head leads to, which would be a leak.  `KeptInv` says that each is on the chain
of a free list, of a remote list or of what a thread has pulled, that heaps
never given out have empty lists (`getHeap` sets the lists of a new heap up and
would drop them), and that the free list a thread replaces by pulled blocks is
empty.  A chain is the set of blocks that links lead to, the least set closed
under the links; the lemmas about it (what a push adds, what a pop or a split
takes away, that a step on one list leaves the chains of the others) use that it
is the least.  `NoBlockLost` is the result: every block has one place, found from
the heads.  `OwnershipStays` comes from `BlockInv`, which types each link
by home and bucket.

`Refinement` maps each step to one of `BlockLedger`: `SetHome` and `MapLarge` to
`Hand`, `CallFree` to `Release`, the last step of each path of `doFree` to
`Accept`, the others to stuttering.  `ClaimInv` makes the mapping well defined,
because it lets at most one thread be freeing a block.

**Size classes** (`TableRight`, `TableUsed`, `BootKeeps`, `TypeCorrect`,
`FragmentsFit`, `SmallestBucket`, `LimitStays`).  They assume `BucketAssumption`
(an increasing table that fits an `unsigned char`), for any number of threads.
`TableRight` needs that the walking index is the bucket of the last size; it
holds whichever part of the tables the loop goes through, the whole included
(`FilledAssumption`).  A size has one smallest bucket, so the table the loop made
is the one `SizeClasses` assumes (`TableUsed`), and what is proved of `Spec` holds
through the boot (`BootKeeps`).  The other four go by the loop invariant of the
search, below `l` too small and from `h` on large enough.  `TypeCorrect` and
`FragmentsFit` need no more.  For the other two `RaceInv` says what a call knows
that no `mallopt` overlaps: a `mallopt` alone has its own crossover in
`mmapStart` up to its end (`MalloptAlone`), so that it leaves the two words in
agreement, and a `malloc` alone searches up to the bucket of the crossover it was
tested against (`MallocAlone`).

**Buffers** (`TypeCorrect`, `Exclusive`, `SlabAccount`).  They assume
`ExtendAssumption` (lengths are positive, the page too), and nothing of the
length of a slab.  `StorageExclusive` is inductive with `LargeInv`, which says
that each range mapped for a large request is marked so and belongs to one
request: otherwise unmapping could free pages of another.  Every extension maps
pages that were free (`Untouched`), so it disturbs no storage in use, and a new
block and a remainder are cut from pages of one heap and different buffers.
`SlabAccount` is about one slab at a time: what is accounted to it and what
remains of it end no later than it does, or than a single extension from its
start.

**Heap master and statistics** (`TypeCorrect`, `LockOnce`, `HeapsPlaced`,
`CountersRight`, `UnfreedRight`, `ReportedRight`, `StatsRight`, `ReportRight`).
They assume `MasterAssumption`: finitely many threads, a superblock of at least
one heap.  There are four inductive invariants, on top of the first.

* `HeapInv`: the lock is with the thread that is in a section under it
  (`LockInv`), a thread has a heap and is registered where it must be
  (`ThreadInv`), the heaps made are those of earlier superblocks and the first
  ones of the last (`SuperblockInv`), and each is with one thread or once on the
  stack (`PlacedInv`).  `LockOnce` rests on `ThreadInv`: it is because the heap of
  a thread is set before `Register` that the thread library's call of `malloc` in
  it does not boot again and wait for the lock.
* `CountInv` adds what is so before the first boot, and the counts.
  A heap comes or goes in one step with its count, so the proof is about the
  cardinality of sets of heaps and threads.
* `UnfreedInv` and `ShutdownInv`: with failed requests included, the counts of
  all heaps add up to what is not freed, and so do the total of a walk and the
  heaps not yet visited.  A heap linked in during the walk has counted nothing
  yet, and one that changes hands stays in the list.
* `StatsInv` is about sums over the list of heaps: heaps on the stack have no
  counts (their last owner moved them to the master) but the one whose destructor
  is between its load and its store, which then has what the sum lacks and no
  more (`RetainInv`); what a thread has loaded is still in its heap unless a
  clear disturbed it; and a walk that collects has between the count at its start
  and the present one, less what was lost, when the heaps not yet visited are
  added.  Sums are proved about by induction on the list, once: a sum
  changes by as much as the one heap in it does, if that is in the list once.

**Interface** (`OneOwner`, `TypeCorrect`, `PromisesKept`, `ObjectsInside`).
They assume `ObjectsAssumption` and that the program leaves no stale `ENOMEM` in
`errno` (`StaleErrno = FALSE`), which is what `posix_errno` shows to be needed.
`ObjectsAssumption` says of the alignments that those above the least one are
multiples of it, as is the page, and of a header that it is a multiple of the
least alignment.  The code checks that an alignment is a power of two before it
uses it, and has `sizeof(Heap::Storage)` equal to `__ALIGN__`, a power of two
itself; no more of powers of two is needed.

`OneBlockEach` is inductive by itself once it is known what the outcomes of each
routine are: a lemma for `doMalloc`, for `memalignNoStats` and so on up to
`aligned_realloc` says that an outcome leaves the blocks as they were and
failed, or replaced the old block by the returned one, or kept the block of the
object.

The others follow from `KeptInv`, which says of each object that it is `Kept` in
its block: the storage is well formed, the real or the fake header is where the
code looks for it and says what was promised, the address has the alignment, the
object ends inside the block, and the bytes are those promised where anything is.
That a routine failed and changed the alignment in the header is one more kind of
outcome: `Kept` then has the alignment the header tells, which the address has
too, and the promise is marked `realigned`.
`PromiseKept` is not inductive, because it says nothing of the base and
length of a block, on which the next `resize` or `realloc` decides.  The lemmas go
along the code again: where a new object is placed, what filling and copying
leave, and of each routine that its outcome either `Gives` a new object as
promised and `Leaves` the other blocks alone, or keeps the old one.  The
arithmetic is in a few lemmas about `Ceiling` (it is a multiple, not less than
its argument and less than that plus the divisor), which is all that is used of
divisions.

**Load programs** (`BatchesMoveWhole`, `ObjectsFreedOnce`, `NothingLeft`,
`FirstInFirstOut`, `BlocksSurvive`, `TeamInStep`, `AllMeasured`).  They are
theorems of `AllSpec`, in which one of the programs runs, and there is one
inductive invariant for each.

* `OwnershipInv` (at least one worker and one cell) adds to the two properties
  where a worker can be with nothing in hand, that its index is in the array when
  it fills or empties it, and that main frees only when all workers are done, so
  that only slots hold arrays then (`MainLast`).  An exchange swaps two places
  of a one-to-one placement, which is why no array is lost.
* `BufferInv`: the occupied part of the ring is what was inserted and not yet
  removed, in order (`RingInv`), and each object is in a hand or waiting
  (`LiveInv`).  No order of waking sleepers enters into it.
* `RelaysInv`: a slice that is not in `late` has one thread at most, none that
  main has still to launch has any (`SliceInv`), and its blocks are there but for
  the one between `free` and `malloc` (`HeldInv`).  A relay replaces a thread by
  its successor in one step, and a thread that has said it finished may still do
  so; only main's next launch could put a second one on the slice, and then the
  slice was in `late` before. `RelaysAssumption` has at least one thread in a
  round, and never more than the array has slices.
* `RoundsInv`: all threads of a round have passed the same number of barriers,
  and one that has gone past an experiment has left its result.  `TeamInStep` and
  `AllMeasured` need that no thread is in a barrier that another has left.

**Only model-checked.**  The liveness properties, `MallocReturns`,
`RemotePushLockFree` and `ProgramEnds`, as TLAPS does not reason about fairness
and ENABLED; that the statements of section 5 fail, which is shown by a
behaviour.  Induction is by the well-foundedness of `<` on the naturals and the
least member of a set; the induction theorems of the library, which take an
operator as a parameter, are not used.

## 5. Where code and documents disagree

Shown by runs:

1. `post_dtor`: `heapManagerDtor` leaves `heapManager` set.  The comment in
   `doFree` expects it to be null and says deallocations after the destructor
   are handled; a thread that calls then works in a heap of another thread.
2. `sizes_fit`: the crossover is compared with the size without the header.
   Requests less than a header below the default crossover get a block that is
   too small and fail the assertion that it is large enough.
3. `extend_kept`: when the new thread block follows the old buffer, the
   remainder of the old one is lost.
4. `posix_errno`: `posix_realloc( &p, 0 )` after an earlier failure frees the
   object and reports `ENOMEM`, which is said to leave the object untouched.

Seen by changing an instance:

5. `SmallestFit` without `raced` and `LimitAgrees` without `overlap` fail: a
   `malloc` whose test and search fall on both sides of a store of `setMmapStart`
   in another thread gets a block that is too small, and two calls of `mallopt`
   that overlap can leave a number of buckets in use that is not that of the
   crossover, though the README of the source says that the crossover can be
   changed dynamically.  What holds, and is stated: sizes that are looked up get
   the right bucket whatever `mallopt` does; the others do unless a `mallopt`
   overlaps; and the next `mallopt` that overlaps no other repairs the two words.
6. `SlabNotOversold` without its second disjunct fails with a `TopPad` below
   `ThreadBlock`: `mallopt` accepts any `M_TOP_PAD` of 256 K or more (line 2153),
   but a slab must have room for a thread block of 2 M, which the constructor
   asserts of the default (line 600).  `sbrkEnd` then leaves the slab, by no
   more than that one extension, and the assertion of `headers` that mapped
   storage is outside of the slab can fail.  So it does for a request longer than
   a slab.
7. `ProgramEnds` without `unheard` fails: a first thread of a relay that starts
   after the stop returns without setting `finished`, and `larson` never ends.
   `RelaysHoldBlocks` without `late` fails: a thread that looks at the stop flag
   after main has reset it for the next round works on its slice beside the
   thread of that round, and both free the same blocks.  Only the sleeps at lines
   505 and 571 make these unlikely.

Read in the code, without a run:

8. `master_extend` maps a thread block with the address of the slab as a hint;
   the slab occupies that address, so thread blocks are not parts of the slab
   and seldom contiguous, which the comments at lines 1123 and 1169 say they are.
9. In the statistics build `realloc( p, 0 )`, and the other routines that count
   requests of no bytes, increment a counter of the calling thread's heap before
   the thread has one.
10. `valloc` and `pvalloc` read the page size before the boot when they are the
    first call of a program.
11. `malloc_usable_size` sets the size in the header to what can be used without
    adjusting the count of unfreed storage.
12. `aligned_realloc` writes the new alignment into the header of the old object
    (line 1842) before the allocation that may fail, though the object is said to
    be left untouched then (line 1724).  The alignment written may be smaller
    than the one the object was given, and a later `realloc` that moves the
    object keeps the smaller one only, though the README of the source says at
    line 75 that `realloc` preserves sticky properties.
    `PromiseKept` without `realigned` shows it.
13. The count of unfreed storage includes requests that failed: it is incremented
    at line 1263 before the allocation, and not taken back.  The comment at lines
    788-790 and the warning at line 802 call it storage that was not freed.
    `UnfreedAdds` and `UnfreedReported` hold while no request has failed.
14. `free( nullptr )` in a thread without a heap adds to the master's counters
    atomically but without `mgrLock` (line 1987), while `heapManagerDtor` adds to
    them with a plain load and store (line 575), so that an increment may be
    lost; `StatsAddUp` without `lost` shows it.  Before the boot such counts are
    dropped by the constructor of the master (line 619).
15. `malloc_remote` is true for a block of the calling thread's own heap.
16. The `RANDOM` experiments of `latency.cc` count an unsigned index down to
    zero and below, which never ends.  They are not in the default build.

## 6. What is not modelled

* In the core: scrubbing and assertions of the debug build (they change nothing
  the core reads), sticky bits and fake headers (the core reads the home pointer
  only; `Objects` has the rest), memory order weaker than sequential consistency
  (the compare-and-swap and the exchange are `__ATOMIC_SEQ_CST`; the plain
  accesses are to storage that one thread owns).  A failed mapping of a
  superblock ends the program, there and in the heap master.
* In the size classes and the interface: sizes that wrap around a word, and the
  products of the array routines, which the code does not check.
* In the buffers: which thread runs the extension (a heap stands for its
  owner), permission of pages other than mapped for a heap or not.
* In the interface: calls before the boot, statistics, and checks of the debug
  build that end the program on an argument that is not legal.  Mapped storage
  begins at 0: it is aligned to a page, and the alignments of the runs go up to
  a page.  A request below the crossover gets the smallest bucket that holds it, whatever
  the number of buckets in use (that choice is `SizeClasses`).
* In the heap master: blocks and buffers, which `LLHeap` and `Extend` have; the
  fork of a process.  The statistics that `shutdown` may print are a `Collect` of
  the program thread before it, and `malloc_unfreed`, which the program may
  define, returns its default of 0.
* Printing, backtraces and signal handlers, which have no state of the
  allocator; unsupported routines of the C library, which do nothing.
* Tests: straight sequences of calls with assertions; `ObjectPromise` states for
  every sequence what they assert for one.
* Sequential benchmarks (`cache`, `realloclong`, `reallocshort`, `reallocsim`),
  processor numbering and scripts: loops around the interface without shared
  state.  Of the concurrent ones, clocks, averages and builds other than the
  default (`RANDOM`, `MMAP`, `WIN32`).

## 7. What is left

| Module | About |
|---|---|
| `Extend` | an abstract allocator of disjoint ranges that it implements, and the proof of it. |
| `Objects` | a refinement of `ObjectPromise`, with promises as the state. |
| `Master` | its handover of heaps as a refinement of that of `LLHeap`. |
| `Ownership` | a composition with `LLHeap` in which the workers' frees are its remote frees. |
