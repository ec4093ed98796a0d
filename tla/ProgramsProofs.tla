----------------------------- MODULE ProgramsProofs ----------------------------
(***************************************************************************)
(* What the programs of Programs rely on, for any number of threads,       *)
(* objects, slices, relays and rounds: each program's safety properties    *)
(* are theorems of AllSpec, by an inductive invariant of that program.     *)
(***************************************************************************)
EXTENDS Programs, FiniteSetTheorems, SequenceTheorems, TLAPS

(* ownership: the workers, their arrays and the slots.                      *)

OwnershipType ==
  /\ allocations \in [Worker -> Worker \cup {nullptr}]
  /\ col \in [Worker -> Worker \cup {nullptr}]
  /\ a \in [Worker -> Worker]
  /\ i \in [Worker -> Int]
  /\ pc \in [Worker -> {"top", "alloc", "test", "swap", "free", "done"}]
  /\ main \in {"sleep", "join", "free", "end"}
  /\ outstanding \in Nat

(* A worker is at a cell of an array it has while it fills or empties it.   *)
AtCell ==
  \A w \in Worker :
    /\ pc[w] \in {"top", "alloc", "free"} => col[w] # nullptr
    /\ pc[w] \in {"alloc", "free"} => i[w] \in Cell

(* main frees what the slots hold only when the workers are done.           *)
MainLast ==
  /\ main \in {"sleep", "join"} => outstanding = 0
  /\ main \in {"free", "end"} => \A w \in Worker : pc[w] = "done"
  /\ main = "free" => outstanding \in Worker
  /\ main = "end" => outstanding = Threads

OwnershipInv == OwnershipType /\ AtCell /\ MainLast /\ BatchInOnePlace /\ EachObjectFreedOnce

LEMMA WorkerFacts ==
  /\ Threads \in Nat /\ Threads > 0 /\ 0 \in Worker
  /\ Batch \in Nat /\ Batch > 0
  /\ \A w \in Worker : w \in Nat /\ w < Threads /\ w # nullptr
  /\ \A c \in Cell : c \in Nat /\ c < Batch
  /\ \A w \in Worker : cycleUp(w) \in Worker
BY OwnershipAssumption DEF Worker, Cell, cycleUp

(* The program starts in the invariant.                                     *)
LEMMA OwnershipInit == Init => OwnershipInv
<1> SUFFICES ASSUME Init PROVE OwnershipInv
  OBVIOUS
<1>1. OwnershipType /\ AtCell /\ MainLast
  BY WorkerFacts DEF Init, OwnershipType, AtCell, MainLast
<1>2. BatchInOnePlace
  BY WorkerFacts DEF Init, BatchInOnePlace
<1>3. EachObjectFreedOnce
  BY WorkerFacts DEF Init, EachObjectFreedOnce, Holding
<1> QED
  BY <1>1, <1>2, <1>3 DEF OwnershipInv

(* The bookkeeping of places.                                               *)
LEMMA WorkerKeepsPlaces ==
  ASSUME OwnershipInv, NEW w \in Worker, worker(w)
  PROVE  OwnershipType' /\ AtCell' /\ MainLast'
<1> USE WorkerFacts DEF OwnershipInv, OwnershipType, AtCell, MainLast, Goto, Cell
<1>1. CASE Top(w)
  BY <1>1 DEF Top
<1>2. CASE Alloc(w)
  BY <1>2 DEF Alloc
<1>3. CASE Test(w)
  BY <1>3 DEF Test, Leave
<1>4. CASE Swap(w)
  BY <1>4 DEF Swap, Leave
<1>5. CASE Free(w)
  BY <1>5 DEF Free
<1> QED
  BY <1>1, <1>2, <1>3, <1>4, <1>5 DEF worker

(* Only the exchange moves arrays, and it moves two at once.                *)
LEMMA WorkerKeepsBatches ==
  ASSUME OwnershipInv, NEW w \in Worker, worker(w)
  PROVE  BatchInOnePlace'
<1>1. CASE Swap(w)
  <2> DEFINE s == a[w]
  <2>1. s \in Worker /\ allocations' = [allocations EXCEPT ![s] = col[w]]
                     /\ col' = [col EXCEPT ![w] = allocations[s]]
    BY <1>1 DEF Swap, OwnershipInv, OwnershipType
  <2>2. \A u, v \in Worker :
          /\ u # v /\ col'[u] # nullptr => col'[u] # col'[v]
          /\ u # v /\ allocations'[u] # nullptr => allocations'[u] # allocations'[v]
          /\ col'[u] # nullptr => col'[u] # allocations'[v]
    BY <2>1 DEF OwnershipInv, OwnershipType, BatchInOnePlace
  <2>3. ASSUME NEW b \in Worker
        PROVE  \E u \in Worker : b \in {col'[u], allocations'[u]}
    <3>1. PICK u \in Worker : b \in {col[u], allocations[u]}
      BY DEF OwnershipInv, BatchInOnePlace
    <3>2. CASE b = col[u] /\ u = w
      BY <2>1, <3>2 DEF OwnershipInv, OwnershipType
    <3>3. CASE b = allocations[u] /\ u = s
      BY <2>1, <3>3 DEF OwnershipInv, OwnershipType
    <3>4. CASE ~(b = col[u] /\ u = w) /\ ~(b = allocations[u] /\ u = s)
      BY <2>1, <3>1, <3>4 DEF OwnershipInv, OwnershipType
    <3> QED
      BY <3>2, <3>3, <3>4
  <2> QED
    BY <2>2, <2>3 DEF BatchInOnePlace
<1>2. CASE Top(w) \/ Alloc(w) \/ Test(w) \/ Free(w)
  BY <1>2 DEF Top, Alloc, Test, Free, OwnershipInv, BatchInOnePlace
<1> QED
  BY <1>1, <1>2 DEF worker

(* What a worker has in hand, no other worker and no slot has.              *)
LEMMA WorkerKeepsObjects ==
  ASSUME OwnershipInv, NEW w \in Worker, worker(w)
  PROVE  EachObjectFreedOnce'
<1> USE WorkerFacts DEF OwnershipInv, OwnershipType, AtCell
<1>1. CASE Top(w) \/ Test(w)
  <2>1. \A v \in Worker, c \in Cell :
          v # w \/ col[w] # nullptr => (Holding(v, c)' <=> Holding(v, c))
    <3>1. ASSUME NEW v \in Worker, v # w, NEW c \in Cell PROVE Holding(v, c)' <=> Holding(v, c)
      BY <1>1, <3>1 DEF Top, Test, Leave, Goto, Holding
    <3>2. ASSUME col[w] # nullptr, NEW c \in Cell PROVE Holding(w, c)' <=> Holding(w, c)
      BY <1>1, <3>2 DEF Top, Test, Leave, Goto, Holding, Cell
    <3> QED
      BY <3>1, <3>2
  <2>2. UNCHANGED <<live, col, allocations, outstanding>>
    BY <1>1 DEF Top, Test
  <2> QED
    BY <2>1, <2>2 DEF EachObjectFreedOnce
<1>2. CASE Alloc(w)
  <2>1. \A v \in Worker, c \in Cell :
          Holding(v, c)' <=> Holding(v, c) \/ (v = w /\ c = i[w])
    <3>1. ASSUME NEW v \in Worker, v # w, NEW c \in Cell PROVE Holding(v, c)' <=> Holding(v, c)
      BY <1>2, <3>1 DEF Alloc, Goto, Holding
    <3>2. ASSUME NEW c \in Cell PROVE Holding(w, c)' <=> Holding(w, c) \/ c = i[w]
      <4>1. CASE i[w] = 0
        BY <1>2, <4>1 DEF Alloc, Goto, Holding, Cell
      <4>2. CASE i[w] # 0
        BY <1>2, <4>2 DEF Alloc, Goto, Holding, Cell
      <4> QED
        BY <4>1, <4>2
    <3> QED
      BY <3>1, <3>2 DEF Holding
  <2>2. /\ live' = live \cup {<<col[w], i[w]>>}
        /\ col[w] \in Worker /\ i[w] \in Cell
        /\ UNCHANGED <<col, allocations, outstanding>>
    BY <1>2 DEF Alloc
  <2>3. ASSUME NEW b \in Worker, NEW c \in Cell
        PROVE  (\E v \in Worker : col[v] = b /\ Holding(v, c)')
               <=> (\E v \in Worker : col[v] = b /\ Holding(v, c)) \/ (b = col[w] /\ c = i[w])
    BY <2>1, <2>2
  <2>4. ASSUME NEW b \in Worker, NEW c \in Cell
        PROVE  <<b, c>> \in live' <=> <<b, c>> \in live \/ (b = col[w] /\ c = i[w])
    BY <2>2
  <2>5. live' \subseteq Worker \X Cell
    BY <2>2 DEF EachObjectFreedOnce
  <2> QED
    BY <2>2, <2>3, <2>4, <2>5 DEF EachObjectFreedOnce
<1>3. CASE Swap(w)
  <2> DEFINE s == a[w]
  <2>1. \A v \in Worker, c \in Cell : Holding(v, c)' <=> Holding(v, c)
    BY <1>3 DEF Swap, Leave, Goto, Holding
  <2>2. \A c \in Cell : Holding(w, c)
    BY <1>3 DEF Swap, Holding
  <2>3. /\ s \in Worker /\ allocations' = [allocations EXCEPT ![s] = col[w]]
        /\ col' = [col EXCEPT ![w] = allocations[s]]
        /\ UNCHANGED <<live, outstanding>>
    BY <1>3 DEF Swap
  <2>4. outstanding = 0
    BY <1>3 DEF Swap, MainLast
  <2>5. ASSUME NEW b \in Worker, NEW c \in Cell
        PROVE  (\/ \E v \in Worker : col'[v] = b /\ Holding(v, c)'
                \/ \E u \in Worker : allocations'[u] = b)
               <=>
               (\/ \E v \in Worker : col[v] = b /\ Holding(v, c)
                \/ \E u \in Worker : allocations[u] = b)
    <3>1. ASSUME NEW v \in Worker, col'[v] = b, Holding(v, c)'
          PROVE  \/ \E u \in Worker : col[u] = b /\ Holding(u, c)
                 \/ \E u \in Worker : allocations[u] = b
      BY <2>1, <2>3, <3>1
    <3>2. ASSUME NEW u \in Worker, allocations'[u] = b
          PROVE  \/ \E v \in Worker : col[v] = b /\ Holding(v, c)
                 \/ \E v \in Worker : allocations[v] = b
      BY <2>2, <2>3, <3>2
    <3>3. ASSUME NEW v \in Worker, col[v] = b, Holding(v, c)
          PROVE  \/ \E u \in Worker : col'[u] = b /\ Holding(u, c)'
                 \/ \E u \in Worker : allocations'[u] = b
      BY <2>1, <2>3, <3>3
    <3>4. ASSUME NEW u \in Worker, allocations[u] = b
          PROVE  \/ \E v \in Worker : col'[v] = b /\ Holding(v, c)'
                 \/ \E v \in Worker : allocations'[v] = b
      BY <2>1, <2>2, <2>3, <3>4
    <3> QED
      BY <3>1, <3>2, <3>3, <3>4
  <2> QED
    BY <2>3, <2>4, <2>5 DEF EachObjectFreedOnce
<1>4. CASE Free(w)
  <2>1. \A v \in Worker, c \in Cell :
          Holding(v, c)' <=> Holding(v, c) /\ ~(v = w /\ c = i[w])
    BY <1>4 DEF Free, Goto, Holding, Cell
  <2>2. /\ live' = live \ {<<col[w], i[w]>>}
        /\ col[w] \in Worker /\ i[w] \in Cell
        /\ UNCHANGED <<col, allocations, outstanding>>
    BY <1>4 DEF Free
  <2>3. /\ \A v \in Worker : col[v] = col[w] => v = w
        /\ \A u \in Worker : allocations[u] # col[w]
    BY <2>2 DEF BatchInOnePlace
  <2> QED
    BY <2>1, <2>2, <2>3 DEF EachObjectFreedOnce
<1> QED
  BY <1>1, <1>2, <1>3, <1>4 DEF worker

(* The workers are done: only the slots count, one less with every step.    *)
LEMMA MainKeepsOwnership == ASSUME OwnershipInv, Main PROVE OwnershipInv'
<1> USE WorkerFacts DEF OwnershipInv, OwnershipType, AtCell, MainLast
<1>1. CASE Stop
  BY <1>1 DEF Stop, BatchInOnePlace, EachObjectFreedOnce, Holding
<1>2. CASE Join
  BY <1>2 DEF Join, BatchInOnePlace, EachObjectFreedOnce, Holding
<1>3. CASE FreeOutstanding
  <2> DEFINE s == outstanding
  <2>1. /\ s \in Worker /\ outstanding' = s + 1
        /\ live' = live \ CellsOf(allocations[s])
        /\ UNCHANGED <<allocations, col, a, i, pc>>
        /\ \A w \in Worker : pc[w] = "done"
    BY <1>3 DEF FreeOutstanding
  <2>2. OwnershipType' /\ AtCell' /\ MainLast'
    <3>1. main' = IF s = Threads - 1 THEN "end" ELSE main
      BY <1>3 DEF FreeOutstanding
    <3>2. CASE s = Threads - 1
      BY <1>3, <2>1, <3>1, <3>2 DEF FreeOutstanding
    <3>3. CASE s # Threads - 1
      <4>1. s + 1 \in Worker
        BY <2>1, <3>3 DEF Worker
      <4> QED
        BY <1>3, <2>1, <3>1, <3>3, <4>1 DEF FreeOutstanding
    <3> QED
      BY <3>2, <3>3
  <2>3. BatchInOnePlace'
    BY <2>1 DEF BatchInOnePlace
  <2>4. \A w \in Worker, c \in Cell : ~Holding(w, c) /\ ~Holding(w, c)'
    BY <2>1 DEF Holding
  <2>5. ASSUME NEW b \in Worker
        PROVE  (\E u \in Worker : allocations[u] = b /\ u >= s + 1)
               <=> (\E u \in Worker : allocations[u] = b /\ u >= s) /\ allocations[s] # b
    BY <2>1 DEF BatchInOnePlace
  <2>6. ASSUME NEW b \in Worker, NEW c \in Cell
        PROVE  <<b, c>> \in live' <=> <<b, c>> \in live /\ allocations[s] # b
    BY <2>1 DEF CellsOf
  <2>7. live' \subseteq Worker \X Cell
    BY <2>1 DEF EachObjectFreedOnce
  <2>8. EachObjectFreedOnce'
    BY <2>1, <2>4, <2>5, <2>6, <2>7 DEF EachObjectFreedOnce
  <2> QED
    BY <2>2, <2>3, <2>8
<1> QED
  BY <1>1, <1>2, <1>3 DEF Main

LEMMA OwnershipNext == OwnershipInv /\ [Next]_vars => OwnershipInv'
<1> SUFFICES ASSUME OwnershipInv, [Next]_vars PROVE OwnershipInv'
  OBVIOUS
<1>1. CASE Main
  BY <1>1, MainKeepsOwnership
<1>2. ASSUME NEW w \in Worker, worker(w) PROVE OwnershipInv'
  BY <1>2, WorkerKeepsPlaces, WorkerKeepsBatches, WorkerKeepsObjects DEF OwnershipInv
<1>3. CASE UNCHANGED vars
  BY <1>3 DEF vars, OwnershipInv, OwnershipType, AtCell, MainLast, BatchInOnePlace, EachObjectFreedOnce, Holding
<1> QED
  BY <1>1, <1>2, <1>3 DEF Next

LEMMA OwnershipInvariance == AllSpec => []OwnershipInv
<1>1. AllInit => OwnershipInv
  BY OwnershipInit DEF AllInit
<1>2. OwnershipInv /\ [AllNext]_all => OwnershipInv'
  BY OwnershipNext DEF AllNext, all
<1> QED
  BY <1>1, <1>2, PTL DEF AllSpec

(* No exchange ever leaves an array with two holders, or with none.         *)
THEOREM BatchesMoveWhole == AllSpec => []BatchInOnePlace
<1>1. OwnershipInv => BatchInOnePlace
  BY DEF OwnershipInv
<1> QED
  BY <1>1, OwnershipInvariance, PTL

(* Each object is allocated into an empty cell and freed once.              *)
THEOREM ObjectsFreedOnce == AllSpec => []EachObjectFreedOnce
<1>1. OwnershipInv => EachObjectFreedOnce
  BY DEF OwnershipInv
<1> QED
  BY <1>1, OwnershipInvariance, PTL

(* Nothing is left for the report of unfreed storage when main ends.        *)
THEOREM NothingLeft == AllSpec => [](main = "end" => live = {})
<1>1. OwnershipInv => (main = "end" => live = {})
  <2> SUFFICES ASSUME OwnershipInv, main = "end", NEW x \in live PROVE FALSE
    OBVIOUS
  <2>1. PICK b \in Worker, c \in Cell : x = <<b, c>>
    BY DEF OwnershipInv, EachObjectFreedOnce
  <2>2. PICK s \in Worker : s >= outstanding
    BY <2>1 DEF OwnershipInv, EachObjectFreedOnce, MainLast, Holding
  <2> QED
    BY <2>2, WorkerFacts DEF OwnershipInv, MainLast
<1> QED
  BY <1>1, OwnershipInvariance, PTL
-------------------------------------------------------------------------------
(* ownershipPT: the threads, what they have in hand, and the ring.          *)

Object == Prod \X Nat
None == Buffer!NoObject
Index == 0 .. size - 1

BufferType ==
  /\ b_pc \in [Buffer!Client -> {"malloc", "mutex", "asleep", "free", "done"}]
  /\ b_buffer \in [Index -> Object \cup {None}]
  /\ b_front \in Index /\ b_back \in Index
  /\ b_count \in 0 .. size
  /\ b_hand \in [Buffer!Client -> Object \cup {None}]
  /\ b_i \in [Buffer!Client -> Nat]
  /\ b_inserted \in Seq(Object)
  /\ b_removed \in Seq(Object)

(* Who is asleep, and what a thread has in hand.                             *)
HandInv ==
  /\ b_prod \subseteq {t \in Prod : b_pc[t] = "asleep"}
  /\ b_cons \subseteq {t \in Cons : b_pc[t] = "asleep"}
  /\ \A t \in Prod :
       b_hand[t] = IF b_pc[t] \in {"mutex", "asleep"} THEN <<t, b_i[t]>> ELSE None
  /\ \A t \in Cons :
       IF b_pc[t] = "free" THEN \E k \in 1 .. Len(b_removed) : b_hand[t] = b_inserted[k]
                           ELSE b_hand[t] = None
  /\ \A t, u \in Cons : t # u /\ b_pc[t] = "free" => b_hand[t] # b_hand[u]

(* No object is inserted twice: a producer numbers its own.                  *)
NumberInv ==
  /\ \A k \in 1 .. Len(b_inserted) : \A t \in Prod : \A n \in Nat :
       b_inserted[k] = <<t, n>> => n < b_i[t]
  /\ \A k, l \in 1 .. Len(b_inserted) : k # l => b_inserted[k] # b_inserted[l]

(* The slot k after the front.                                               *)
Slot(k) == IF b_front + k < size THEN b_front + k ELSE b_front + k - size

(* The buffer holds the objects inserted and not removed, in their order.    *)
RingInv ==
  /\ Len(b_inserted) = Len(b_removed) + b_count
  /\ b_back = Slot(b_count)
  /\ \A k \in 0 .. b_count - 1 : b_buffer[Slot(k)] = b_inserted[Len(b_removed) + k + 1]
  /\ \A k \in 1 .. Len(b_removed) : b_removed[k] = b_inserted[k]

Hands == {b_hand[t] : t \in Buffer!Client} \ {None}
Waiting == {b_inserted[k] : k \in Len(b_removed) + 1 .. Len(b_inserted)}

LiveInv == b_live = Hands \cup Waiting

BufferInv == BufferType /\ HandInv /\ NumberInv /\ RingInv /\ LiveInv

LEMMA NextIndex ==
  ASSUME NEW x \in Index
  PROVE  (x + 1) % size = IF x + 1 = size THEN 0 ELSE x + 1
<1>1. size \in Nat \ {0}
  BY BufferAssumption
<1>2. CASE x + 1 = size
  <2>1. size % size = 0
    BY <1>1
  <2> QED
    BY <1>2, <2>1
<1>3. CASE x + 1 # size
  <2>1. x + 1 \in 0 .. size - 1
    BY <1>1, <1>3 DEF Index
  <2>2. \A y \in 0 .. size - 1 : y % size = y
    BY <1>1
  <2> QED
    BY <1>3, <2>1, <2>2
<1> QED
  BY <1>2, <1>3

LEMMA SlotFacts ==
  ASSUME BufferType
  PROVE  /\ size \in Nat \ {0}
         /\ \A k \in 0 .. size : Slot(k) \in Index
         /\ \A k, l \in 0 .. size - 1 : k # l => Slot(k) # Slot(l)
         /\ Slot(0) = b_front
         /\ \A k \in 0 .. size - 1 : Slot(k + 1) = (Slot(k) + 1) % size
<1> USE BufferAssumption DEF BufferType, Index, Slot
<1>1. /\ size \in Nat \ {0}
      /\ \A k \in 0 .. size : Slot(k) \in Index
      /\ \A k, l \in 0 .. size - 1 : k # l => Slot(k) # Slot(l)
      /\ Slot(0) = b_front
  OBVIOUS
<1>2. ASSUME NEW k \in 0 .. size - 1 PROVE Slot(k + 1) = (Slot(k) + 1) % size
  <2>1. Slot(k) \in Index
    BY <1>1
  <2>2. (Slot(k) + 1) % size = IF Slot(k) + 1 = size THEN 0 ELSE Slot(k) + 1
    BY <2>1, NextIndex
  <2> QED
    BY <1>1, <2>1, <2>2
<1> QED
  BY <1>1, <1>2

LEMMA ThreadFacts ==
  /\ Buffer!Client = Prod \cup Cons
  /\ Prod \cap Cons = {}
  /\ None \notin Object
  /\ \A t \in Prod, n \in Nat : <<t, n>> \in Object
BY BufferAssumption DEF Buffer!Client, Object, None, Buffer!NoObject

LEMMA BufferInit == Buffer!Init => BufferInv
<1> SUFFICES ASSUME Buffer!Init PROVE BufferInv
  OBVIOUS
<1> USE ThreadFacts, BufferAssumption DEF Buffer!Init
<1>1. BufferType
  <2>1. b_pc \in [Buffer!Client -> {"malloc", "mutex", "asleep", "free", "done"}]
    OBVIOUS
  <2> QED
    BY <2>1 DEF BufferType, Index, None
<1>2. HandInv
  BY DEF HandInv, None
<1>3. NumberInv /\ RingInv
  BY DEF NumberInv, RingInv, Slot
<1>4. LiveInv
  BY DEF LiveInv, Hands, Waiting, None
<1> QED
  BY <1>1, <1>2, <1>3, <1>4 DEF BufferInv

LEMMA MallocKeeps ==
  ASSUME BufferInv, NEW t \in Buffer!Client, Buffer!Malloc(t)
  PROVE  BufferInv'
<1> USE ThreadFacts DEF BufferInv, BufferType
<1>1. /\ t \in Prod /\ b_pc[t] = "malloc" /\ b_hand[t] = None
      /\ b_hand' = [b_hand EXCEPT ![t] = <<t, b_i[t]>>]
      /\ b_live' = b_live \cup {<<t, b_i[t]>>}
      /\ b_pc' = [b_pc EXCEPT ![t] = "mutex"]
      /\ UNCHANGED <<b_prod, b_cons, b_buffer, b_front, b_back, b_count, b_i, b_inserted, b_removed>>
  BY DEF Buffer!Malloc, HandInv
<1>2. <<t, b_i[t]>> \in Object
  BY <1>1
<1>3. BufferType'
  BY <1>1, <1>2
<1>4. HandInv'
  BY <1>1, <1>2 DEF HandInv
<1>5. NumberInv' /\ RingInv' /\ Waiting' = Waiting
  BY <1>1 DEF NumberInv, RingInv, Slot, Waiting
<1>6. Hands' = Hands \cup {<<t, b_i[t]>>}
  BY <1>1, <1>2 DEF Hands
<1> QED
  BY <1>1, <1>3, <1>4, <1>5, <1>6 DEF LiveInv

(* To sleep, and to wake unasked, move no object.                            *)
LEMMA SleepKeeps ==
  ASSUME BufferInv, NEW t \in Buffer!Client,
         Buffer!WaitProd(t) \/ Buffer!WaitCons(t) \/ Buffer!Spurious(t)
  PROVE  BufferInv'
<1> USE ThreadFacts DEF BufferInv, BufferType
<1>1. /\ UNCHANGED <<b_buffer, b_front, b_back, b_count, b_hand, b_i, b_live, b_inserted, b_removed>>
      /\ \/ b_pc[t] = "mutex" /\ b_pc' = [b_pc EXCEPT ![t] = "asleep"]
         \/ b_pc[t] = "asleep" /\ b_pc' = [b_pc EXCEPT ![t] = "mutex"]
  BY DEF Buffer!WaitProd, Buffer!WaitCons, Buffer!Spurious
<1>2. BufferType'
  BY <1>1
<1>3. /\ b_prod' \subseteq {u \in Prod : b_pc'[u] = "asleep"}
      /\ b_cons' \subseteq {u \in Cons : b_pc'[u] = "asleep"}
  BY DEF Buffer!WaitProd, Buffer!WaitCons, Buffer!Spurious, HandInv
<1>4. HandInv'
  <2>1. \A u \in Buffer!Client :
          /\ b_pc'[u] \in {"mutex", "asleep"} <=> b_pc[u] \in {"mutex", "asleep"}
          /\ b_pc'[u] = "free" <=> b_pc[u] = "free"
    BY <1>1
  <2> QED
    BY <1>1, <1>3, <2>1 DEF HandInv
<1>5. NumberInv' /\ RingInv'
  BY <1>1 DEF NumberInv, RingInv, Slot
<1>6. LiveInv'
  BY <1>1 DEF LiveInv, Hands, Waiting
<1> QED
  BY <1>2, <1>4, <1>5, <1>6

LEMMA InsertKeeps ==
  ASSUME BufferInv, NEW t \in Buffer!Client, Buffer!insert(t)
  PROVE  BufferInv'
<1> USE ThreadFacts DEF BufferInv, BufferType
<1>1. /\ t \in Prod /\ b_pc[t] = "mutex" /\ b_count # size
      /\ b_hand[t] = <<t, b_i[t]>>
      /\ b_buffer' = [b_buffer EXCEPT ![b_back] = b_hand[t]]
      /\ b_count' = b_count + 1
      /\ b_back' = (b_back + 1) % size
      /\ b_inserted' = Append(b_inserted, b_hand[t])
      /\ b_hand' = [b_hand EXCEPT ![t] = None]
      /\ b_i' = [b_i EXCEPT ![t] = @ + 1]
      /\ UNCHANGED <<b_prod, b_front, b_live, b_removed>>
  BY DEF Buffer!insert, Buffer!full, HandInv, None
<1>2. PICK woken \in SUBSET b_cons :
        /\ b_cons' = b_cons \ woken
        /\ b_pc' = [u \in Buffer!Client |-> CASE u \in woken -> "mutex"
                                              [] u = t -> Buffer!Done(t, "malloc")
                                              [] OTHER -> b_pc[u]]
  BY DEF Buffer!insert
<1>3. Buffer!Done(t, "malloc") \in {"malloc", "done"}
  BY DEF Buffer!Done
<1>4. t \notin woken /\ \A u \in woken : u \in Cons /\ b_pc[u] = "asleep"
  BY <1>1 DEF HandInv
<1>5. \A u \in Buffer!Client :
        /\ u \in woken => b_pc[u] = "asleep" /\ u \in Cons /\ b_pc'[u] = "mutex"
        /\ u = t => b_pc'[u] \in {"malloc", "done"}
        /\ u # t /\ u \notin woken => b_pc'[u] = b_pc[u]
  BY <1>2, <1>3, <1>4
<1> DEFINE o == b_hand[t]
           n == Len(b_inserted)
<1>6. /\ o \in Object /\ n \in Nat
      /\ Len(b_inserted') = n + 1 /\ b_inserted' \in Seq(Object)
      /\ b_inserted'[n + 1] = o
      /\ \A k \in 1 .. n : b_inserted'[k] = b_inserted[k]
  BY <1>1, AppendProperties, LenProperties
<1>7. BufferType'
  <2>1. b_count' \in 0 .. size
    BY <1>1, SlotFacts
  <2>2. b_back' \in Index
    <3>1. (b_back + 1) % size = IF b_back + 1 = size THEN 0 ELSE b_back + 1
      BY NextIndex
    <3> QED
      BY <1>1, <3>1, BufferAssumption DEF Index
  <2>3. b_pc' \in [Buffer!Client -> {"malloc", "mutex", "asleep", "free", "done"}]
    BY <1>2, <1>3
  <2> QED
    BY <1>1, <1>6, <2>1, <2>2, <2>3
<1>8. HandInv'
  <2>1. /\ b_prod' \subseteq {u \in Prod : b_pc'[u] = "asleep"}
        /\ b_cons' \subseteq {u \in Cons : b_pc'[u] = "asleep"}
    BY <1>1, <1>2, <1>5 DEF HandInv
  <2>2. \A u \in Prod :
          b_hand'[u] = IF b_pc'[u] \in {"mutex", "asleep"} THEN <<u, b_i'[u]>> ELSE None
    BY <1>1, <1>5 DEF HandInv
  <2>3. \A u \in Cons : b_hand'[u] = b_hand[u] /\ (b_pc'[u] = "free" <=> b_pc[u] = "free")
    BY <1>1, <1>5
  <2>4. Len(b_removed) \in Nat /\ Len(b_removed) <= n
    BY <1>6, LenProperties DEF RingInv
  <2>5. \A u \in Cons :
          IF b_pc'[u] = "free" THEN \E k \in 1 .. Len(b_removed') : b_hand'[u] = b_inserted'[k]
                               ELSE b_hand'[u] = None
    <3> TAKE u \in Cons
    <3>1. CASE b_pc[u] = "free"
      <4>1. PICK k \in 1 .. Len(b_removed) : b_hand[u] = b_inserted[k]
        BY <3>1 DEF HandInv
      <4>2. k \in 1 .. Len(b_removed') /\ b_hand'[u] = b_inserted'[k]
        BY <1>1, <1>6, <2>3, <2>4, <4>1
      <4> QED
        BY <2>3, <3>1, <4>2
    <3>2. CASE b_pc[u] # "free"
      BY <2>3, <3>2 DEF HandInv
    <3> QED
      BY <3>1, <3>2
  <2>6. \A u, v \in Cons : u # v /\ b_pc'[u] = "free" => b_hand'[u] # b_hand'[v]
    BY <2>3 DEF HandInv
  <2> QED
    BY <2>1, <2>2, <2>5, <2>6 DEF HandInv
<1>9. NumberInv'
  <2>1. ASSUME NEW k \in 1 .. n + 1, NEW u \in Prod, NEW m \in Nat, b_inserted'[k] = <<u, m>>
        PROVE  m < b_i'[u]
    <3>1. CASE k = n + 1
      BY <1>1, <1>6, <2>1, <3>1
    <3>2. CASE k # n + 1
      <4>1. k \in 1 .. n /\ b_inserted[k] = <<u, m>>
        BY <1>6, <2>1, <3>2
      <4>2. m < b_i[u]
        BY <4>1 DEF NumberInv
      <4> QED
        BY <1>1, <4>2
    <3> QED
      BY <3>1, <3>2
  <2>2. ASSUME NEW k \in 1 .. n, b_inserted[k] = o PROVE FALSE
    <3>1. b_i[t] \in Nat /\ b_inserted[k] = <<t, b_i[t]>>
      BY <1>1, <2>2
    <3>2. b_i[t] < b_i[t]
      BY <1>1, <3>1 DEF NumberInv
    <3> QED
      BY <3>1, <3>2
  <2>3. ASSUME NEW k \in 1 .. n + 1, NEW l \in 1 .. n + 1, k # l
        PROVE  b_inserted'[k] # b_inserted'[l]
    <3>1. CASE k = n + 1
      <4>1. l \in 1 .. n
        BY <1>6, <2>3, <3>1
      <4> QED
        BY <1>6, <2>2, <3>1, <4>1
    <3>2. CASE l = n + 1
      <4>1. k \in 1 .. n
        BY <1>6, <2>3, <3>2
      <4> QED
        BY <1>6, <2>2, <3>2, <4>1
    <3>3. CASE k # n + 1 /\ l # n + 1
      <4>1. k \in 1 .. n /\ l \in 1 .. n
        BY <1>6, <3>3
      <4> QED
        BY <1>6, <2>3, <4>1 DEF NumberInv
    <3> QED
      BY <3>1, <3>2, <3>3
  <2> QED
    BY <1>6, <2>1, <2>3 DEF NumberInv
<1>10. RingInv'
  <2>1. \A k : Slot(k)' = Slot(k)
    BY <1>1 DEF Slot
  <2>2. b_count \in 0 .. size - 1 /\ Len(b_removed) \in Nat /\ n = Len(b_removed) + b_count
    BY <1>1, SlotFacts, LenProperties DEF RingInv
  <2>3. b_back' = Slot(b_count + 1)
    BY <1>1, <2>2, SlotFacts DEF RingInv
  <2>4. ASSUME NEW k \in 0 .. b_count
        PROVE  b_buffer'[Slot(k)] = b_inserted'[Len(b_removed) + k + 1]
    <3>1. CASE k = b_count
      BY <1>1, <1>6, <2>2, <3>1, SlotFacts DEF RingInv
    <3>2. CASE k # b_count
      <4>1. Slot(k) # b_back /\ Slot(k) \in Index
        BY <2>2, <3>2, SlotFacts DEF RingInv
      <4>2. b_buffer'[Slot(k)] = b_buffer[Slot(k)]
        BY <1>1, <4>1
      <4>3. Len(b_removed) + k + 1 \in 1 .. n
        BY <2>2, <3>2
      <4> QED
        BY <1>6, <2>2, <3>2, <4>2, <4>3 DEF RingInv
    <3> QED
      BY <3>1, <3>2
  <2>5. \A k \in 1 .. Len(b_removed) : b_removed[k] = b_inserted'[k]
    BY <1>6, <2>2 DEF RingInv
  <2> QED
    <3>1. Len(b_inserted') = Len(b_removed') + b_count'
      BY <1>1, <1>6, <2>2
    <3>2. b_back' = Slot(b_count)'
      BY <1>1, <2>1, <2>3
    <3>3. \A k \in 0 .. b_count' - 1 :
            b_buffer'[Slot(k)'] = b_inserted'[Len(b_removed') + k + 1]
      <4>1. 0 .. b_count' - 1 = 0 .. b_count
        BY <1>1, <2>2
      <4> QED
        BY <1>1, <2>1, <2>4, <4>1
    <3>4. \A k \in 1 .. Len(b_removed') : b_removed'[k] = b_inserted'[k]
      BY <1>1, <2>5
    <3> QED
      BY <3>1, <3>2, <3>3, <3>4 DEF RingInv
<1>11. LiveInv'
  <2>1. Len(b_removed) \in Nat /\ Len(b_removed) <= n /\ b_removed' = b_removed
    BY <1>1, SlotFacts, LenProperties DEF RingInv
  <2>2. \A x : x \in Waiting' <=> x \in Waiting \/ x = o
    <3>1. ASSUME NEW x, x \in Waiting' PROVE x \in Waiting \/ x = o
      <4>1. PICK k \in Len(b_removed) + 1 .. n + 1 : x = b_inserted'[k]
        BY <1>6, <2>1, <3>1 DEF Waiting
      <4>2. CASE k = n + 1
        BY <1>6, <4>1, <4>2
      <4>3. CASE k # n + 1
        <5>1. k \in Len(b_removed) + 1 .. n /\ x = b_inserted[k]
          BY <1>6, <2>1, <4>1, <4>3
        <5> QED
          BY <5>1 DEF Waiting
      <4> QED
        BY <4>2, <4>3
    <3>2. ASSUME NEW x \in Waiting PROVE x \in Waiting'
      <4>1. PICK k \in Len(b_removed) + 1 .. n : x = b_inserted[k]
        BY <3>2 DEF Waiting
      <4>2. k \in Len(b_removed') + 1 .. Len(b_inserted') /\ x = b_inserted'[k]
        BY <1>6, <2>1, <4>1
      <4> QED
        BY <4>2 DEF Waiting
    <3>3. o \in Waiting'
      <4>1. n + 1 \in Len(b_removed') + 1 .. Len(b_inserted')
        BY <1>6, <2>1
      <4> QED
        BY <1>6, <4>1 DEF Waiting
    <3> QED
      BY <3>1, <3>2, <3>3
  <2>3. o \in Hands /\ Hands' \subseteq Hands /\ Hands \ {o} \subseteq Hands'
    BY <1>1, <1>6 DEF Hands
  <2> QED
    BY <1>1, <2>2, <2>3 DEF LiveInv
<1> QED
  BY <1>7, <1>8, <1>9, <1>10, <1>11

LEMMA RemoveKeeps ==
  ASSUME BufferInv, NEW t \in Buffer!Client, Buffer!remove(t)
  PROVE  BufferInv'
<1> USE ThreadFacts DEF BufferInv, BufferType
<1> DEFINE o == b_buffer[b_front]
           m == Len(b_removed)
           n == Len(b_inserted)
<1>1. /\ t \in Cons /\ b_pc[t] = "mutex" /\ b_count # 0
      /\ b_hand' = [b_hand EXCEPT ![t] = o]
      /\ b_count' = b_count - 1
      /\ b_front' = (b_front + 1) % size
      /\ b_removed' = Append(b_removed, o)
      /\ UNCHANGED <<b_cons, b_buffer, b_back, b_i, b_live, b_inserted>>
  BY DEF Buffer!remove
<1>2. PICK woken \in SUBSET b_prod :
        /\ b_prod' = b_prod \ woken
        /\ b_pc' = [u \in Buffer!Client |-> CASE u \in woken -> "mutex"
                                              [] u = t -> "free"
                                              [] OTHER -> b_pc[u]]
  BY DEF Buffer!remove
<1>3. t \notin woken /\ \A u \in woken : u \in Prod /\ b_pc[u] = "asleep"
  BY <1>1 DEF HandInv
<1>4. \A u \in Buffer!Client :
        /\ u \in woken => b_pc[u] = "asleep" /\ u \in Prod /\ b_pc'[u] = "mutex"
        /\ u = t => b_pc'[u] = "free"
        /\ u # t /\ u \notin woken => b_pc'[u] = b_pc[u]
  BY <1>2, <1>3
<1>5. /\ m \in Nat /\ n = m + b_count /\ b_count \in 1 .. size /\ m + 1 \in 1 .. n
  BY <1>1, SlotFacts, LenProperties DEF RingInv
<1>6. o = b_inserted[m + 1] /\ o \in Object
  <2>1. 0 \in 0 .. b_count - 1 /\ Slot(0) = b_front /\ m + 0 + 1 = m + 1
    BY <1>5, SlotFacts
  <2>2. o = b_inserted[m + 1]
    BY <2>1 DEF RingInv
  <2> QED
    BY <1>5, <2>2
<1>7. /\ Len(b_removed') = m + 1 /\ b_removed' \in Seq(Object)
      /\ b_removed'[m + 1] = o
      /\ \A k \in 1 .. m : b_removed'[k] = b_removed[k]
  BY <1>1, <1>6, AppendProperties, LenProperties
<1>8. BufferType'
  <2>1. b_count' \in 0 .. size
    BY <1>1, <1>5, SlotFacts
  <2>2. b_front' \in Index
    <3>1. (b_front + 1) % size = IF b_front + 1 = size THEN 0 ELSE b_front + 1
      BY NextIndex
    <3> QED
      BY <1>1, <3>1, BufferAssumption DEF Index
  <2>3. b_pc' \in [Buffer!Client -> {"malloc", "mutex", "asleep", "free", "done"}]
    BY <1>2
  <2> QED
    BY <1>1, <1>6, <1>7, <2>1, <2>2, <2>3
<1>9. HandInv'
  <2>1. /\ b_prod' \subseteq {u \in Prod : b_pc'[u] = "asleep"}
        /\ b_cons' \subseteq {u \in Cons : b_pc'[u] = "asleep"}
    BY <1>1, <1>2, <1>4 DEF HandInv
  <2>2. \A u \in Prod :
          b_hand'[u] = IF b_pc'[u] \in {"mutex", "asleep"} THEN <<u, b_i'[u]>> ELSE None
    BY <1>1, <1>4 DEF HandInv
  <2>3. \A u \in Cons : u # t => b_hand'[u] = b_hand[u] /\ b_pc'[u] = b_pc[u]
    BY <1>1, <1>4
  <2>4. b_hand'[t] = o /\ b_pc'[t] = "free"
    BY <1>1, <1>4
  <2>5. ASSUME NEW u \in Cons
        PROVE  IF b_pc'[u] = "free" THEN \E k \in 1 .. m + 1 : b_hand'[u] = b_inserted[k]
                                    ELSE b_hand'[u] = None
    <3>1. CASE u = t
      <4>1. m + 1 \in 1 .. m + 1
        BY <1>5
      <4> QED
        BY <1>6, <2>4, <3>1, <4>1
    <3>2. CASE u # t /\ b_pc[u] = "free"
      <4>1. PICK k \in 1 .. m : b_hand[u] = b_inserted[k]
        BY <3>2 DEF HandInv
      <4>2. k \in 1 .. m + 1
        BY <1>5, <4>1
      <4> QED
        BY <2>3, <3>2, <4>1, <4>2
    <3>3. CASE u # t /\ b_pc[u] # "free"
      BY <2>3, <3>3 DEF HandInv
    <3> QED
      BY <3>1, <3>2, <3>3
  <2>6. ASSUME NEW u \in Cons, u # t PROVE b_hand[u] # o
    <3>1. CASE b_pc[u] = "free"
      <4>1. PICK k \in 1 .. m : b_hand[u] = b_inserted[k]
        BY <3>1 DEF HandInv
      <4>2. k \in 1 .. n /\ k # m + 1
        BY <1>5, <4>1
      <4> QED
        BY <1>5, <1>6, <4>1, <4>2 DEF NumberInv
    <3>2. CASE b_pc[u] # "free"
      BY <1>6, <3>2 DEF HandInv
    <3> QED
      BY <3>1, <3>2
  <2>7. ASSUME NEW u \in Cons, NEW v \in Cons, u # v, b_pc'[u] = "free"
        PROVE  b_hand'[u] # b_hand'[v]
    BY <2>3, <2>4, <2>6, <2>7 DEF HandInv
  <2> QED
    BY <1>1, <1>7, <2>1, <2>2, <2>5, <2>7 DEF HandInv
<1>10. NumberInv'
  BY <1>1 DEF NumberInv
<1>11. \A k \in 0 .. b_count - 1 :
         Slot(k + 1) = IF b_front' + k < size THEN b_front' + k ELSE b_front' + k - size
  <2> TAKE k \in 0 .. b_count - 1
  <2>1. b_front' = IF b_front + 1 = size THEN 0 ELSE b_front + 1
    BY <1>1, NextIndex
  <2>2. size \in Nat /\ b_front \in 0 .. size - 1 /\ k \in 0 .. size - 1
    BY <1>5, BufferAssumption DEF Index
  <2>3. CASE b_front + 1 = size
    BY <2>1, <2>2, <2>3 DEF Slot
  <2>4. CASE b_front + 1 # size
    BY <2>1, <2>2, <2>4 DEF Slot
  <2> QED
    BY <2>3, <2>4
<1>12. RingInv'
  <2>1. n = (m + 1) + b_count'
    BY <1>1, <1>5
  <2>2. b_back' = Slot(b_count)'
    <3>1. b_count' \in 0 .. b_count - 1 /\ b_count' + 1 = b_count
      BY <1>1, <1>5
    <3>2. Slot(b_count) = IF b_front' + b_count' < size THEN b_front' + b_count'
                          ELSE b_front' + b_count' - size
      BY <1>11, <3>1
    <3>3. b_back' = Slot(b_count)
      BY <1>1 DEF RingInv
    <3> QED
      BY <3>2, <3>3 DEF Slot
  <2>3. ASSUME NEW k \in 0 .. b_count' - 1
        PROVE  b_buffer[Slot(k)'] = b_inserted[(m + 1) + k + 1]
    <3>1. k \in 0 .. b_count - 1 /\ k + 1 \in 0 .. b_count - 1 /\ m + (k + 1) + 1 = (m + 1) + k + 1
      BY <1>1, <1>5
    <3>2. Slot(k)' = Slot(k + 1)
      BY <1>11, <3>1 DEF Slot
    <3>3. b_buffer[Slot(k + 1)] = b_inserted[m + (k + 1) + 1]
      BY <3>1 DEF RingInv
    <3> QED
      BY <3>1, <3>2, <3>3
  <2>4. ASSUME NEW k \in 1 .. m + 1 PROVE b_removed'[k] = b_inserted[k]
    <3>1. CASE k = m + 1
      BY <1>6, <1>7, <3>1
    <3>2. CASE k # m + 1
      <4>1. k \in 1 .. m
        BY <1>5, <3>2
      <4> QED
        BY <1>7, <4>1 DEF RingInv
    <3> QED
      BY <3>1, <3>2
  <2> QED
    <3>1. Len(b_inserted') = Len(b_removed') + b_count'
      BY <1>1, <1>7, <2>1
    <3>2. \A k \in 0 .. b_count' - 1 :
            b_buffer'[Slot(k)'] = b_inserted'[Len(b_removed') + k + 1]
      BY <1>1, <1>7, <2>3
    <3>3. \A k \in 1 .. Len(b_removed') : b_removed'[k] = b_inserted'[k]
      BY <1>1, <1>7, <2>4
    <3> QED
      BY <2>2, <3>1, <3>2, <3>3 DEF RingInv
<1>13. LiveInv'
  <2>1. Waiting \subseteq Waiting' \cup {o} /\ Waiting' \subseteq Waiting
    <3>1. ASSUME NEW x \in Waiting PROVE x \in Waiting' \/ x = o
      <4>1. PICK k \in m + 1 .. n : x = b_inserted[k]
        BY <3>1 DEF Waiting
      <4>2. CASE k = m + 1
        BY <1>6, <4>1, <4>2
      <4>3. CASE k # m + 1
        <5>1. k \in Len(b_removed') + 1 .. Len(b_inserted') /\ x = b_inserted'[k]
          BY <1>1, <1>5, <1>7, <4>1, <4>3
        <5> QED
          BY <5>1 DEF Waiting
      <4> QED
        BY <4>2, <4>3
    <3>2. ASSUME NEW x \in Waiting' PROVE x \in Waiting
      <4>1. PICK k \in (m + 1) + 1 .. n : x = b_inserted[k]
        BY <1>1, <1>7, <3>2 DEF Waiting
      <4>2. k \in m + 1 .. n
        BY <1>5, <4>1
      <4> QED
        BY <4>1, <4>2 DEF Waiting
    <3> QED
      BY <3>1, <3>2
  <2>2. o \in Waiting
    <3>1. m + 1 \in m + 1 .. n
      BY <1>5
    <3> QED
      BY <1>6, <3>1 DEF Waiting
  <2>3. \A x : x \in Hands' <=> x \in Hands \/ x = o
    BY <1>1, <1>6 DEF Hands, HandInv
  <2> QED
    BY <1>1, <2>1, <2>2, <2>3 DEF LiveInv
<1> QED
  BY <1>8, <1>9, <1>10, <1>12, <1>13

LEMMA FreeKeeps ==
  ASSUME BufferInv, NEW t \in Buffer!Client, Buffer!Free(t)
  PROVE  BufferInv'
<1> USE ThreadFacts DEF BufferInv, BufferType
<1> DEFINE o == b_hand[t]
           m == Len(b_removed)
           n == Len(b_inserted)
<1>1. /\ t \in Cons /\ b_pc[t] = "free"
      /\ b_live' = b_live \ {o}
      /\ b_hand' = [b_hand EXCEPT ![t] = None]
      /\ b_i' = [b_i EXCEPT ![t] = @ + 1]
      /\ b_pc' = [b_pc EXCEPT ![t] = Buffer!Done(t, "mutex")]
      /\ UNCHANGED <<b_prod, b_cons, b_buffer, b_front, b_back, b_count, b_inserted, b_removed>>
  BY DEF Buffer!Free, None
<1>2. Buffer!Done(t, "mutex") \in {"mutex", "done"}
  BY DEF Buffer!Done
<1>3. m \in Nat /\ n \in Nat /\ m <= n
  BY SlotFacts, LenProperties DEF RingInv
<1>4. PICK k \in 1 .. m : o = b_inserted[k]
  BY <1>1 DEF HandInv
<1>5. k \in 1 .. n /\ o \in Object
  BY <1>3, <1>4
<1>6. BufferType'
  BY <1>1, <1>2
<1>7. HandInv'
  <2>1. \A u \in Buffer!Client : u # t => b_pc'[u] = b_pc[u] /\ b_hand'[u] = b_hand[u]
    BY <1>1
  <2>2. b_pc'[t] \in {"mutex", "done"} /\ b_hand'[t] = None
    BY <1>1, <1>2
  <2>3. \A u \in Prod : u # t /\ b_i'[u] = b_i[u]
    BY <1>1
  <2>4. /\ b_prod' \subseteq {u \in Prod : b_pc'[u] = "asleep"}
        /\ b_cons' \subseteq {u \in Cons : b_pc'[u] = "asleep"}
    BY <1>1, <2>1 DEF HandInv
  <2>5. \A u \in Cons :
          IF b_pc'[u] = "free" THEN \E l \in 1 .. m : b_hand'[u] = b_inserted[l]
                               ELSE b_hand'[u] = None
    BY <2>1, <2>2 DEF HandInv
  <2>6. \A u \in Cons : b_pc[u] = "free" => b_hand[u] # None
    <3>1. \A l \in 1 .. m : b_inserted[l] \in Object
      BY <1>3
    <3> QED
      BY <3>1 DEF HandInv
  <2>7. ASSUME NEW u \in Cons, NEW v \in Cons, u # v, b_pc'[u] = "free"
        PROVE  b_hand'[u] # b_hand'[v]
    <3>1. u # t /\ b_pc[u] = "free" /\ b_hand'[u] = b_hand[u]
      BY <2>1, <2>2, <2>7
    <3>2. CASE v = t
      BY <2>2, <2>6, <3>1, <3>2
    <3>3. CASE v # t
      BY <2>1, <2>7, <3>1, <3>3 DEF HandInv
    <3> QED
      BY <3>2, <3>3
  <2>8. \A u \in Prod :
          b_hand'[u] = IF b_pc'[u] \in {"mutex", "asleep"} THEN <<u, b_i'[u]>> ELSE None
    BY <2>1, <2>3 DEF HandInv
  <2> QED
    BY <1>1, <2>4, <2>5, <2>7, <2>8 DEF HandInv
<1>8. NumberInv' /\ RingInv' /\ Waiting' = Waiting
  BY <1>1 DEF NumberInv, RingInv, Slot, Waiting
<1>9. o \notin Waiting
  <2>1. \A l \in m + 1 .. n : l \in 1 .. n /\ l # k
    BY <1>3, <1>4
  <2> QED
    BY <1>4, <1>5, <2>1 DEF Waiting, NumberInv
<1>10. \A u \in Buffer!Client : u # t => b_hand[u] # o
  <2>1. ASSUME NEW u \in Prod PROVE b_hand[u] # o
    <3>1. CASE b_pc[u] \in {"mutex", "asleep"}
      <4>1. b_hand[u] = <<u, b_i[u]>> /\ b_i[u] \in Nat
        BY <3>1 DEF HandInv
      <4>2. o = <<u, b_i[u]>> => b_i[u] < b_i[u]
        BY <1>4, <1>5, <4>1 DEF NumberInv
      <4> QED
        BY <4>1, <4>2
    <3>2. CASE b_pc[u] \notin {"mutex", "asleep"}
      BY <1>5, <3>2 DEF HandInv
    <3> QED
      BY <3>1, <3>2
  <2>2. ASSUME NEW u \in Cons, u # t PROVE b_hand[u] # o
    BY <1>1, <2>2 DEF HandInv
  <2> QED
    BY <2>1, <2>2
<1>11. Hands' = Hands \ {o}
  BY <1>1, <1>5, <1>10 DEF Hands
<1> QED
  BY <1>1, <1>6, <1>7, <1>8, <1>9, <1>11 DEF LiveInv

LEMMA BufferStutters == BufferInv /\ UNCHANGED buffer => BufferInv'
<1> SUFFICES ASSUME BufferInv, UNCHANGED buffer PROVE BufferInv'
  OBVIOUS
<1>1. BufferType' /\ NumberInv' /\ LiveInv'
  BY DEF buffer, BufferInv, BufferType, NumberInv, LiveInv, Hands, Waiting
<1>2. HandInv'
  BY DEF buffer, BufferInv, HandInv
<1>3. RingInv'
  BY DEF buffer, BufferInv, RingInv, Slot
<1> QED
  BY <1>1, <1>2, <1>3 DEF BufferInv

LEMMA BufferInvariance == AllSpec => []BufferInv
<1>1. AllInit => BufferInv
  BY BufferInit DEF AllInit
<1>2. BufferInv /\ [AllNext]_all => BufferInv'
  <2> SUFFICES ASSUME BufferInv, [AllNext]_all PROVE BufferInv'
    OBVIOUS
  <2>1. CASE UNCHANGED buffer
    BY <2>1, BufferStutters
  <2>2. CASE Buffer!Next
    BY <2>2, MallocKeeps, SleepKeeps, InsertKeeps, RemoveKeeps, FreeKeeps
    DEF Buffer!Next, Buffer!Step
  <2> QED
    BY <2>1, <2>2 DEF AllNext, all
<1> QED
  BY <1>1, <1>2, PTL DEF AllSpec

(* ownershipPT: whatever thread barges, objects leave the buffer in the      *)
(* order they came, and one is live exactly while a thread or the buffer     *)
(* has it: none is freed twice, or forgotten.                                *)
THEOREM FirstInFirstOut == AllSpec => []BufferInOrder
<1>1. BufferInv => BufferInOrder
  <2> SUFFICES ASSUME BufferInv PROVE BufferInOrder
    OBVIOUS
  <2> USE DEF BufferInv, BufferType
  <2>1. Len(b_removed) \in Nat /\ Len(b_inserted) = Len(b_removed) + b_count /\ b_count \in Nat
    BY LenProperties, BufferAssumption DEF RingInv
  <2>2. b_removed = SubSeq(b_inserted, 1, Len(b_removed))
    <3> DEFINE sub == SubSeq(b_inserted, 1, Len(b_removed))
    <3>1. sub \in Seq(Object) /\ Len(sub) = Len(b_removed)
          /\ \A k \in 1 .. Len(b_removed) : sub[k] = b_inserted[k]
      BY <2>1, SubSeqProperties
    <3>2. \A k \in 1 .. Len(b_removed) : b_removed[k] = sub[k]
      BY <3>1 DEF RingInv
    <3> HIDE DEF sub
    <3> QED
      BY <3>1, <3>2, SeqEqual
  <2> QED
    BY <2>1, <2>2 DEF LiveInv, Hands, Waiting, None, BufferInOrder, Buffer!InOrder
<1> QED
  BY <1>1, BufferInvariance, PTL
-------------------------------------------------------------------------------
(* larson: the slices, the relays that work on them, and main's rounds.     *)

Slice == Relays!Slice
Chunk == Relays!Chunk
NoSlice == Relays!NoSlice
Warmed == Relays!Warmed

RelaysType ==
  /\ l_main \in {"warmup", "launch", "sleep", "wait", "rest", "end"}
  /\ l_i \in Nat
  /\ l_num \in Nat
  /\ l_prev \in Nat
  /\ l_array \in [Thread -> Slice \cup {NoSlice}]
  /\ l_pc \in [Thread -> {"none", "start", "begin", "free", "malloc", "finish", "relay"}]
  /\ l_victim \in [Thread -> Chunk]
  /\ l_blkp \in [Slice -> [Chunk -> Int]]

(* Where main is in its loops.                                               *)
MainInv ==
  /\ l_main # "end" => l_num \in 1 .. max_threads
  /\ l_main = "warmup" => l_prev <= l_num
  /\ l_main = "end" => l_prev <= max_threads
  /\ l_main = "launch" => l_i < l_num

(* Threads work on slices that are warmed up; those that main has not        *)
(* launched in this round are late, and a slice without a late thread has    *)
(* one thread at most.                                                       *)
SliceInv ==
  /\ \A t \in Thread : l_array[t] = NoSlice <=> l_pc[t] = "none"
  /\ \A t \in Thread : l_array[t] # NoSlice =>
       /\ l_array[t] \in Warmed
       /\ l_main \in {"warmup", "end"} => l_array[t] \in l_late
       /\ l_main = "launch" /\ l_array[t] \notin l_late => l_array[t] < l_i
  /\ \A t, u \in Thread :
       l_array[t] # NoSlice /\ l_array[t] \notin l_late /\ l_array[t] = l_array[u] => t = u

(* A thread has freed block k of slice s and not yet replaced it.            *)
Out(s, k) == \E t \in Thread : l_array[t] = s /\ l_pc[t] = "malloc" /\ l_victim[t] = k

HeldInv ==
  \A s \in Slice \ l_late : \A k \in Chunk :
    l_blkp[s][k] = IF s \in Warmed /\ ~ Out(s, k) THEN 1 ELSE 0

RelaysInv == RelaysType /\ MainInv /\ SliceInv /\ HeldInv

LEMMA SliceFacts ==
  /\ Slice = 0 .. max_threads - 1
  /\ Relays!Slice = Slice /\ Relays!Chunk = Chunk /\ Relays!lran2 = Chunk
  /\ Relays!NoSlice = NoSlice
  /\ NoSlice \notin Slice
  /\ max_threads \in Nat
  /\ min_threads \in 1 .. max_threads
  /\ 0 \in Chunk
BY RelaysAssumption
   DEF Relays!Slice, Slice, Relays!lran2, Relays!Chunk, Chunk, Relays!NoSlice, NoSlice

LEMMA RelaysInit == Relays!Init => RelaysInv
<1> SUFFICES ASSUME Relays!Init PROVE RelaysInv
  OBVIOUS
<1> USE SliceFacts DEF Relays!Init
<1>1. RelaysType /\ MainInv
  BY DEF RelaysType, MainInv
<1>2. SliceInv
  BY DEF SliceInv
<1>3. HeldInv
  <2>1. Warmed = {}
    BY DEF Warmed, Relays!Warmed
  <2> QED
    BY <2>1 DEF HeldInv
<1> QED
  BY <1>1, <1>2, <1>3 DEF RelaysInv
-------------------------------------------------------------------------------
(* The steps of main.                                                        *)

LEMMA WarmupKeeps == ASSUME RelaysInv, Relays!Warmup PROVE RelaysInv'
<1> USE SliceFacts DEF RelaysInv, RelaysType
<1>1. /\ l_main = "warmup" /\ l_main' = "launch" /\ l_i' = 0
      /\ l_blkp' = [s \in Slice |-> IF s \in l_prev .. l_num - 1
                                    THEN [k \in Chunk |-> l_blkp[s][k] + 1] ELSE l_blkp[s]]
      /\ UNCHANGED <<l_num, l_prev, l_array, l_pc, l_victim, l_late>>
  BY DEF Relays!Warmup, Relays!thread, Relays!history
<1>2. l_num \in 1 .. max_threads /\ l_prev <= l_num
  BY <1>1 DEF MainInv
<1>3. Warmed = 0 .. l_prev - 1 /\ Warmed' = 0 .. l_num - 1
  BY <1>1 DEF Warmed, Relays!Warmed
<1>4. RelaysType' /\ MainInv'
  BY <1>1, <1>2 DEF MainInv
<1>5. SliceInv'
  BY <1>1, <1>2, <1>3 DEF SliceInv
<1>6. HeldInv'
  <2> SUFFICES ASSUME NEW s \in Slice \ l_late, NEW k \in Chunk
               PROVE  l_blkp'[s][k] = IF s \in Warmed' /\ ~ Out(s, k)' THEN 1 ELSE 0
    BY <1>1 DEF HeldInv
  <2>1. Out(s, k)' <=> Out(s, k)
    BY <1>1 DEF Out
  <2>2. ~ Out(s, k)
    BY <1>1 DEF Out, SliceInv
  <2>3. l_blkp[s][k] = IF s \in Warmed THEN 1 ELSE 0
    BY <2>2 DEF HeldInv
  <2>4. l_blkp'[s][k] = IF s \in l_prev .. l_num - 1 THEN l_blkp[s][k] + 1 ELSE l_blkp[s][k]
    BY <1>1
  <2> QED
    BY <1>2, <1>3, <2>1, <2>2, <2>3, <2>4
<1> QED
  BY <1>4, <1>5, <1>6

(* What keeps the blocks, the slices warmed up and what threads have freed   *)
(* keeps HeldInv.                                                            *)
LEMMA SameHeld ==
  ASSUME HeldInv, Warmed' = Warmed, l_late \subseteq l_late', UNCHANGED l_blkp,
         \A s \in Slice, k \in Chunk : Out(s, k)' <=> Out(s, k)
  PROVE  HeldInv'
<1>1. Slice' = Slice /\ Chunk' = Chunk
  BY SliceFacts DEF Slice, Chunk, Relays!Slice, Relays!Chunk
<1> QED
  BY <1>1 DEF HeldInv

LEMMA LaunchKeeps == ASSUME RelaysInv, Relays!Launch PROVE RelaysInv'
<1> USE SliceFacts DEF RelaysInv, RelaysType
<1>1. /\ l_main = "launch" /\ l_i' = l_i + 1
      /\ l_main' = IF l_i + 1 = l_num THEN "sleep" ELSE "launch"
      /\ UNCHANGED <<l_num, l_prev, l_blkp, l_late>>
  BY DEF Relays!Launch, Relays!history
<1>2. PICK t \in Relays!Idle : /\ l_array' = [l_array EXCEPT ![t] = l_i]
                               /\ l_pc' = [l_pc EXCEPT ![t] = "start"]
                               /\ UNCHANGED l_victim
  BY DEF Relays!Launch, Relays!_beginthread
<1>3. t \in Thread /\ l_array[t] = NoSlice /\ l_pc[t] = "none"
  BY <1>2 DEF Relays!Idle, SliceInv
<1>4. l_i < l_num /\ l_num \in 1 .. max_threads /\ l_i \in Slice
  BY <1>1 DEF MainInv
<1>5. RelaysType'
  <2>1. l_main' \in {"launch", "sleep"} /\ l_i' \in Nat
    BY <1>1
  <2>2. l_array' \in [Thread -> Slice \cup {NoSlice}]
    BY <1>2, <1>4
  <2>3. l_pc' \in [Thread -> {"none", "start", "begin", "free", "malloc", "finish", "relay"}]
    BY <1>2
  <2> QED
    BY <1>1, <1>2, <2>1, <2>2, <2>3
<1>6. MainInv'
  BY <1>1, <1>4 DEF MainInv
<1>7. Warmed' = Warmed /\ l_i \in Warmed
  BY <1>1, <1>4 DEF Warmed, Relays!Warmed
<1>8. \A u \in Thread : u # t => l_array'[u] = l_array[u] /\ l_pc'[u] = l_pc[u]
  BY <1>2
<1>9. l_array'[t] = l_i /\ l_pc'[t] = "start" /\ l_i # NoSlice
  BY <1>2, <1>3, <1>4
<1>10. SliceInv'
  <2>1. \A u \in Thread : l_array[u] # NoSlice /\ l_array[u] \notin l_late =>
          l_array[u] < l_i /\ l_array[u] # l_i
    BY <1>1, <1>4 DEF SliceInv
  <2>2. \A u \in Thread : l_array'[u] = NoSlice <=> l_pc'[u] = "none"
    BY <1>8, <1>9 DEF SliceInv
  <2>3. \A u \in Thread : l_array'[u] # NoSlice =>
          /\ l_array'[u] \in Warmed'
          /\ l_array'[u] \notin l_late' => l_array'[u] < l_i'
    <3>1. l_i < l_i'
      BY <1>1, <1>4
    <3>2. ASSUME NEW u \in Thread, u # t, l_array[u] # NoSlice
          PROVE  /\ l_array[u] \in Warmed
                 /\ l_array[u] \notin l_late => l_array[u] < l_i'
      <4>1. l_array[u] \in Warmed
        BY <3>2 DEF SliceInv
      <4>2. l_array[u] \notin l_late => l_array[u] < l_i
        BY <3>2, <2>1
      <4>3. l_array[u] \in Slice
        BY <3>2
      <4> QED
        BY <1>1, <1>4, <4>1, <4>2, <4>3
    <3> QED
      BY <1>1, <1>7, <1>8, <1>9, <3>1, <3>2
  <2>4. \A u, v \in Thread :
          l_array'[u] # NoSlice /\ l_array'[u] \notin l_late' /\ l_array'[u] = l_array'[v] => u = v
    BY <1>1, <1>8, <1>9, <2>1 DEF SliceInv
  <2>5. l_main' \notin {"warmup", "end"}
    BY <1>1
  <2> QED
    BY <2>2, <2>3, <2>4, <2>5 DEF SliceInv
<1>11. HeldInv'
  <2>1. \A s \in Slice, k \in Chunk : Out(s, k)' <=> Out(s, k)
    BY <1>2, <1>3, <1>8, <1>9 DEF Out
  <2> QED
    BY <1>1, <1>7, <2>1, SameHeld
<1> QED
  BY <1>5, <1>6, <1>10, <1>11

LEMMA MainKeeps ==
  ASSUME RelaysInv, Relays!Stop \/ Relays!Wait \/ Relays!Rest
  PROVE  RelaysInv'
<1> USE SliceFacts DEF RelaysInv, RelaysType
<1>1. UNCHANGED <<l_array, l_pc, l_victim, l_blkp>>
  BY DEF Relays!Stop, Relays!Wait, Relays!Rest, Relays!thread
<1>2. \A s \in Slice, k \in Chunk : Out(s, k)' <=> Out(s, k)
  BY <1>1 DEF Out
<1>3. CASE Relays!Stop \/ Relays!Wait
  <2>1. /\ l_main \in {"sleep", "wait"} /\ l_main' \in {"wait", "rest"} /\ l_i' \in Nat
        /\ UNCHANGED <<l_num, l_prev, l_late>>
    BY <1>3 DEF Relays!Stop, Relays!Wait, Relays!history
  <2>2. Warmed' = Warmed
    BY <2>1 DEF Warmed, Relays!Warmed
  <2>3. HeldInv'
    BY <1>1, <1>2, <2>1, <2>2, SameHeld
  <2>4. RelaysType' /\ MainInv' /\ SliceInv'
    BY <1>1, <2>1, <2>2 DEF MainInv, SliceInv
  <2> QED
    BY <2>3, <2>4
<1>4. CASE Relays!Rest
  <2>1. /\ l_main = "rest"
        /\ l_late' = l_late \cup {l_array[t] : t \in Thread \ Relays!Idle}
        /\ l_prev' = l_num /\ l_num' = l_num + 1
        /\ l_main' = IF l_num = max_threads THEN "end" ELSE "warmup"
        /\ UNCHANGED l_i
    BY <1>4 DEF Relays!Rest
  <2>2. l_num \in 1 .. max_threads
    BY <2>1 DEF MainInv
  <2>3. Warmed' = Warmed
    BY <2>1 DEF Warmed, Relays!Warmed
  <2>4. \A t \in Thread : l_array[t] # NoSlice => l_array[t] \in l_late'
    BY <2>1 DEF Relays!Idle
  <2>5. SliceInv'
    BY <1>1, <2>1, <2>3, <2>4 DEF SliceInv
  <2>6. RelaysType' /\ MainInv'
    BY <1>1, <2>1, <2>2 DEF MainInv
  <2>7. HeldInv'
    BY <1>1, <1>2, <2>1, <2>3, SameHeld
  <2> QED
    BY <2>5, <2>6, <2>7
<1> QED
  BY <1>3, <1>4

-------------------------------------------------------------------------------
(* The steps of a thread.                                                    *)

(* What a step of a thread leaves alone, and where the thread is.            *)
LEMMA ThreadLeaves ==
  ASSUME RelaysInv, NEW t \in Thread, Relays!exercise_heap(t)
  PROVE  /\ l_array[t] \in Slice
         /\ UNCHANGED <<l_main, l_i, l_num, l_prev, l_late>> /\ Warmed' = Warmed
<1>1. l_pc[t] # "none"
  BY DEF Relays!exercise_heap, Relays!Start, Relays!Begin, Relays!Free, Relays!Malloc,
         Relays!Finish, Relays!Relay
<1>2. UNCHANGED <<l_main, l_i, l_num, l_prev, l_late>>
  BY DEF Relays!exercise_heap, Relays!Start, Relays!Begin, Relays!Free, Relays!Malloc,
         Relays!Finish, Relays!Relay, Relays!history
<1> QED
  BY <1>1, <1>2 DEF RelaysInv, RelaysType, SliceInv, Warmed, Relays!Warmed

LEMMA ThreadKeepsType ==
  ASSUME RelaysInv, NEW t \in Thread, Relays!exercise_heap(t)
  PROVE  RelaysType'
<1> USE SliceFacts DEF RelaysInv, RelaysType
<1>1. l_array[t] \in Slice /\ UNCHANGED <<l_main, l_i, l_num, l_prev>>
  BY ThreadLeaves
<1>2. CASE Relays!Start(t)
  BY <1>1, <1>2 DEF Relays!Start, Relays!End
<1>3. CASE Relays!Begin(t) \/ Relays!Finish(t)
  BY <1>1, <1>3 DEF Relays!Begin, Relays!Finish
<1>4. CASE Relays!Free(t)
  <2>1. PICK k \in Chunk :
          /\ l_victim' = [l_victim EXCEPT ![t] = k]
          /\ l_blkp' = [l_blkp EXCEPT ![l_array[t]][k] = @ - 1]
    BY <1>4 DEF Relays!Free
  <2>2. l_pc' = [l_pc EXCEPT ![t] = "malloc"] /\ UNCHANGED l_array
    BY <1>4 DEF Relays!Free
  <2>3. l_blkp' \in [Slice -> [Chunk -> Int]]
    BY <1>1, <2>1
  <2> QED
    BY <1>1, <2>1, <2>2, <2>3
<1>5. CASE Relays!Malloc(t)
  <2>1. /\ l_blkp' = [l_blkp EXCEPT ![l_array[t]][l_victim[t]] = @ + 1]
        /\ UNCHANGED <<l_array, l_victim>>
    BY <1>5 DEF Relays!Malloc
  <2>2. l_pc' \in [Thread -> {"none", "start", "begin", "free", "malloc", "finish", "relay"}]
    BY <1>5 DEF Relays!Malloc
  <2>3. l_victim[t] \in Chunk
    OBVIOUS
  <2>4. l_blkp' \in [Slice -> [Chunk -> Int]]
    BY <1>1, <2>1, <2>3
  <2> QED
    BY <1>1, <2>1, <2>2, <2>4
<1>6. CASE Relays!Relay(t)
  <2>1. l_blkp' = l_blkp /\ l_victim' = [l_victim EXCEPT ![t] = 0]
    BY <1>6 DEF Relays!Relay, Relays!End
  <2>2. /\ l_array' \in [Thread -> Slice \cup {NoSlice}]
        /\ l_pc' \in [Thread -> {"none", "start", "begin", "free", "malloc", "finish", "relay"}]
    <3>1. CASE l_stopflag
      BY <1>6, <3>1 DEF Relays!Relay, Relays!End
    <3>2. CASE ~ l_stopflag
      <4>1. PICK u \in Thread :
              /\ l_array' = [l_array EXCEPT ![u] = l_array[t], ![t] = NoSlice]
              /\ l_pc' = [l_pc EXCEPT ![u] = "start", ![t] = "none"]
        BY <1>6, <3>2 DEF Relays!Relay, Relays!Idle
      <4> QED
        BY <1>1, <4>1
    <3> QED
      BY <3>1, <3>2
  <2> QED
    BY <1>1, <2>1, <2>2
<1> QED
  BY <1>2, <1>3, <1>4, <1>5, <1>6 DEF Relays!exercise_heap

LEMMA ThreadKeepsSlices ==
  ASSUME RelaysInv, NEW t \in Thread, Relays!exercise_heap(t)
  PROVE  SliceInv'
<1> USE SliceFacts DEF RelaysInv, RelaysType
<1>1. l_array[t] \in Slice /\ l_array[t] # NoSlice
  BY ThreadLeaves
<1>2. UNCHANGED <<l_main, l_i, l_num, l_prev, l_late>> /\ Warmed' = Warmed
  BY ThreadLeaves
<1>3. ASSUME UNCHANGED l_array, \A u \in Thread : l_pc'[u] = "none" <=> l_pc[u] = "none"
      PROVE  SliceInv'
  BY <1>2, <1>3 DEF SliceInv
<1>4. ASSUME Relays!End(t) PROVE SliceInv'
  <2>1. /\ \A u \in Thread : u # t => l_array'[u] = l_array[u] /\ l_pc'[u] = l_pc[u]
        /\ l_array'[t] = NoSlice /\ l_pc'[t] = "none"
    BY <1>4 DEF Relays!End
  <2> QED
    BY <1>2, <2>1 DEF SliceInv
<1>5. CASE Relays!Start(t)
  <2>1. CASE l_stopflag
    BY <1>4, <1>5, <2>1 DEF Relays!Start
  <2>2. CASE ~ l_stopflag
    <3>1. UNCHANGED l_array /\ l_pc[t] = "start" /\ l_pc' = [l_pc EXCEPT ![t] = "begin"]
      BY <1>5, <2>2 DEF Relays!Start
    <3> QED
      BY <1>3, <3>1
  <2> QED
    BY <2>1, <2>2
<1>6. CASE Relays!Begin(t) \/ Relays!Free(t) \/ Relays!Malloc(t) \/ Relays!Finish(t)
  <2>1. UNCHANGED l_array /\ \A u \in Thread : l_pc'[u] = "none" <=> l_pc[u] = "none"
    BY <1>6 DEF Relays!Begin, Relays!Free, Relays!Malloc, Relays!Finish
  <2> QED
    BY <1>3, <2>1
<1>7. CASE Relays!Relay(t)
  <2>1. CASE l_stopflag
    BY <1>4, <1>7, <2>1 DEF Relays!Relay
  <2>2. CASE ~ l_stopflag
    <3>1. PICK u \in Relays!Idle :
            /\ l_array' = [l_array EXCEPT ![u] = l_array[t], ![t] = NoSlice]
            /\ l_pc' = [l_pc EXCEPT ![u] = "start", ![t] = "none"]
      BY <1>7, <2>2 DEF Relays!Relay
    <3>2. u \in Thread /\ u # t /\ l_array[u] = NoSlice
      BY <1>1, <3>1 DEF Relays!Idle
    <3>3. /\ \A v \in Thread : v # t /\ v # u => l_array'[v] = l_array[v] /\ l_pc'[v] = l_pc[v]
          /\ l_array'[t] = NoSlice /\ l_pc'[t] = "none"
          /\ l_array'[u] = l_array[t] /\ l_pc'[u] = "start"
      BY <3>1, <3>2
    <3>4. \A v \in Thread : l_array'[v] = NoSlice <=> l_pc'[v] = "none"
      BY <1>1, <3>2, <3>3 DEF SliceInv
    <3>5. \A v \in Thread : l_array'[v] # NoSlice =>
             /\ l_array'[v] \in Warmed
             /\ l_main \in {"warmup", "end"} => l_array'[v] \in l_late
             /\ l_main = "launch" /\ l_array'[v] \notin l_late => l_array'[v] < l_i
      BY <1>1, <3>2, <3>3 DEF SliceInv
    <3>6. ASSUME NEW v \in Thread, NEW w \in Thread, l_array'[v] # NoSlice,
                 l_array'[v] \notin l_late, l_array'[v] = l_array'[w]
          PROVE  v = w
      BY <1>1, <3>2, <3>3, <3>6 DEF SliceInv
    <3> QED
      BY <1>2, <3>4, <3>5, <3>6 DEF SliceInv
  <2> QED
    BY <2>1, <2>2
<1> QED
  BY <1>5, <1>6, <1>7 DEF Relays!exercise_heap

(* On a slice without a late thread, what is out has been freed by t if t    *)
(* is there.                                                                 *)
LEMMA OnlyOne ==
  ASSUME RelaysInv, NEW t \in Thread, l_array[t] \in Slice, l_array[t] \notin l_late
  PROVE  \A k \in Chunk : Out(l_array[t], k) <=> l_pc[t] = "malloc" /\ l_victim[t] = k
BY SliceFacts DEF RelaysInv, SliceInv, Out

LEMMA FreeKeepsHeld ==
  ASSUME RelaysInv, NEW t \in Thread, Relays!Free(t)
  PROVE  HeldInv'
<1> USE SliceFacts DEF RelaysInv, RelaysType
<1> DEFINE here == l_array[t]
<1>1. PICK k \in Chunk :
        /\ l_pc[t] = "free"
        /\ l_victim' = [l_victim EXCEPT ![t] = k]
        /\ l_blkp' = [l_blkp EXCEPT ![here][k] = @ - 1]
        /\ l_pc' = [l_pc EXCEPT ![t] = "malloc"]
        /\ UNCHANGED l_array
  BY DEF Relays!Free
<1>2. here \in Slice /\ here \in Warmed /\ Warmed' = Warmed /\ l_late' = l_late
  BY <1>1, ThreadLeaves DEF SliceInv, Relays!exercise_heap
<1>3. /\ \A u \in Thread : u # t => l_pc'[u] = l_pc[u] /\ l_victim'[u] = l_victim[u]
      /\ l_pc'[t] = "malloc" /\ l_victim'[t] = k
  BY <1>1
<1> SUFFICES ASSUME NEW s \in Slice \ l_late, NEW j \in Chunk
             PROVE  l_blkp'[s][j] = IF s \in Warmed /\ ~ Out(s, j)' THEN 1 ELSE 0
  BY <1>2 DEF HeldInv
<1>4. l_blkp[s][j] = IF s \in Warmed /\ ~ Out(s, j) THEN 1 ELSE 0
  BY DEF HeldInv
<1>5. CASE s # here
  <2>1. Out(s, j)' <=> Out(s, j)
    BY <1>1, <1>3, <1>5 DEF Out
  <2>2. l_blkp'[s][j] = l_blkp[s][j]
    BY <1>1, <1>2, <1>5
  <2> QED
    BY <1>4, <2>1, <2>2
<1>6. CASE s = here
  <2>1. ~ Out(s, j)
    BY <1>1, <1>2, <1>6, OnlyOne
  <2>2. l_blkp[s][j] = 1
    BY <1>2, <1>4, <1>6, <2>1
  <2>3. \A u \in Thread : l_array[u] = s => u = t
    BY <1>2, <1>6 DEF SliceInv
  <2>4. Out(s, j)' <=> j = k
    BY <1>1, <1>3, <1>6, <2>3 DEF Out
  <2>5. l_blkp'[s][j] = IF j = k THEN l_blkp[s][j] - 1 ELSE l_blkp[s][j]
    BY <1>1, <1>2, <1>6
  <2> QED
    BY <1>2, <1>6, <2>2, <2>4, <2>5
<1> QED
  BY <1>5, <1>6

LEMMA MallocKeepsHeld ==
  ASSUME RelaysInv, NEW t \in Thread, Relays!Malloc(t)
  PROVE  HeldInv'
<1> USE SliceFacts DEF RelaysInv, RelaysType
<1> DEFINE here == l_array[t]
           k == l_victim[t]
<1>1. /\ l_pc[t] = "malloc"
      /\ l_blkp' = [l_blkp EXCEPT ![here][k] = @ + 1]
      /\ \A u \in Thread : u # t => l_pc'[u] = l_pc[u]
      /\ l_pc'[t] # "malloc"
      /\ UNCHANGED <<l_array, l_victim>>
  BY DEF Relays!Malloc
<1>2. here \in Slice /\ here \in Warmed /\ Warmed' = Warmed /\ l_late' = l_late /\ k \in Chunk
  BY <1>1, ThreadLeaves DEF SliceInv, Relays!exercise_heap
<1> SUFFICES ASSUME NEW s \in Slice \ l_late, NEW j \in Chunk
             PROVE  l_blkp'[s][j] = IF s \in Warmed /\ ~ Out(s, j)' THEN 1 ELSE 0
  BY <1>2 DEF HeldInv
<1>3. l_blkp[s][j] = IF s \in Warmed /\ ~ Out(s, j) THEN 1 ELSE 0
  BY DEF HeldInv
<1>4. CASE s # here
  <2>1. Out(s, j)' <=> Out(s, j)
    BY <1>1, <1>4 DEF Out
  <2>2. l_blkp'[s][j] = l_blkp[s][j]
    BY <1>1, <1>2, <1>4
  <2> QED
    BY <1>3, <2>1, <2>2
<1>5. CASE s = here
  <2>1. Out(s, j) <=> j = k
    BY <1>1, <1>2, <1>5, OnlyOne
  <2>2. l_blkp[s][j] = IF j = k THEN 0 ELSE 1
    BY <1>2, <1>3, <1>5, <2>1
  <2>3. \A u \in Thread : l_array[u] = s => u = t
    BY <1>2, <1>5 DEF SliceInv
  <2>4. ~ Out(s, j)'
    BY <1>1, <2>3 DEF Out
  <2>5. l_blkp'[s][j] = IF j = k THEN l_blkp[s][j] + 1 ELSE l_blkp[s][j]
    BY <1>1, <1>2, <1>5
  <2> QED
    BY <1>2, <1>5, <2>2, <2>4, <2>5
<1> QED
  BY <1>4, <1>5

LEMMA ThreadKeepsHeld ==
  ASSUME RelaysInv, NEW t \in Thread, Relays!exercise_heap(t)
  PROVE  HeldInv'
<1> USE SliceFacts DEF RelaysInv, RelaysType
<1>1. CASE Relays!Free(t) \/ Relays!Malloc(t)
  BY <1>1, FreeKeepsHeld, MallocKeepsHeld
<1>2. CASE Relays!Start(t) \/ Relays!Begin(t) \/ Relays!Finish(t) \/ Relays!Relay(t)
  <2>1. /\ UNCHANGED l_blkp
        /\ \A u \in Thread : l_pc[u] = "malloc" <=> l_pc'[u] = "malloc"
        /\ \A u \in Thread : l_pc[u] = "malloc" =>
             l_array'[u] = l_array[u] /\ l_victim'[u] = l_victim[u]
    <3>1. CASE Relays!Start(t)
      BY <3>1 DEF Relays!Start, Relays!End
    <3>2. CASE Relays!Begin(t) \/ Relays!Finish(t)
      BY <3>2 DEF Relays!Begin, Relays!Finish
    <3>3. CASE Relays!Relay(t)
      <4>1. CASE l_stopflag
        BY <3>3, <4>1 DEF Relays!Relay, Relays!End
      <4>2. CASE ~ l_stopflag
        <5>1. PICK u \in Relays!Idle :
                /\ l_pc[t] = "relay"
                /\ l_array' = [l_array EXCEPT ![u] = l_array[t], ![t] = NoSlice]
                /\ l_pc' = [l_pc EXCEPT ![u] = "start", ![t] = "none"]
                /\ l_victim' = [l_victim EXCEPT ![t] = 0]
                /\ UNCHANGED l_blkp
          BY <3>3, <4>2 DEF Relays!Relay
        <5>2. u \in Thread /\ l_pc[u] = "none"
          BY <5>1 DEF Relays!Idle, SliceInv
        <5> QED
          BY <5>1, <5>2
      <4> QED
        BY <4>1, <4>2
    <3> QED
      BY <1>2, <3>1, <3>2, <3>3
  <2>2. \A s \in Slice, k \in Chunk : Out(s, k)' <=> Out(s, k)
    BY <2>1 DEF Out
  <2>3. Warmed' = Warmed /\ l_late' = l_late
    BY ThreadLeaves
  <2> QED
    BY <2>1, <2>2, <2>3, SameHeld
<1> QED
  BY <1>1, <1>2 DEF Relays!exercise_heap

LEMMA ThreadKeeps ==
  ASSUME RelaysInv, NEW t \in Thread, Relays!exercise_heap(t)
  PROVE  RelaysInv'
<1>1. MainInv'
  BY ThreadLeaves DEF RelaysInv, MainInv
<1> QED
  BY <1>1, ThreadKeepsType, ThreadKeepsSlices, ThreadKeepsHeld DEF RelaysInv

LEMMA RelaysStutter == RelaysInv /\ UNCHANGED slices => RelaysInv'
<1> SUFFICES ASSUME RelaysInv, UNCHANGED slices PROVE RelaysInv'
  OBVIOUS
<1>1. Warmed' = Warmed
  BY DEF slices, Warmed, Relays!Warmed
<1>2. RelaysType' /\ MainInv' /\ SliceInv'
  BY <1>1 DEF slices, RelaysInv, RelaysType, MainInv, SliceInv
<1>3. \A s \in Slice, k \in Chunk : Out(s, k)' <=> Out(s, k)
  BY DEF slices, Out
<1>4. HeldInv'
  BY <1>1, <1>3, SameHeld DEF slices, RelaysInv
<1> QED
  BY <1>2, <1>4 DEF RelaysInv

(* larson: a slice on which no thread outlived main's rest has one thread at *)
(* most, and each of its blocks its one object but the one being replaced,   *)
(* through any number of relays and rounds, whatever happens elsewhere.      *)
THEOREM BlocksSurvive == AllSpec => []RelaysHoldBlocks
<1>1. AllInit => RelaysInv
  BY RelaysInit DEF AllInit
<1>2. RelaysInv /\ [AllNext]_all => RelaysInv'
  <2> SUFFICES ASSUME RelaysInv, [AllNext]_all PROVE RelaysInv'
    OBVIOUS
  <2>1. CASE UNCHANGED slices
    BY <2>1, RelaysStutter
  <2>2. CASE Relays!Next
    <3>1. CASE Relays!runthreads
      BY <3>1, WarmupKeeps, LaunchKeeps, MainKeeps DEF Relays!runthreads
    <3>2. ASSUME NEW t \in Thread, Relays!exercise_heap(t) PROVE RelaysInv'
      BY <3>2, ThreadKeeps
    <3> QED
      BY <2>2, <3>1, <3>2 DEF Relays!Next
  <2> QED
    BY <2>1, <2>2 DEF AllNext, all
<1>3. RelaysInv => RelaysHoldBlocks
  <2> SUFFICES ASSUME RelaysInv, NEW s \in Warmed \ l_late
               PROVE  /\ \A t, u \in {v \in Thread : l_array[v] = s} : t = u
                      /\ \A k \in Chunk : l_blkp[s][k] = IF Out(s, k) THEN 0 ELSE 1
    BY SliceFacts DEF RelaysHoldBlocks, Relays!BlocksHeld, Warmed, Out
  <2>1. s \in Slice
    BY SliceFacts DEF RelaysInv, RelaysType, MainInv, Warmed, Relays!Warmed
  <2>2. s # NoSlice
    BY <2>1, SliceFacts
  <2>3. \A t, u \in {v \in Thread : l_array[v] = s} : t = u
    BY <2>2 DEF RelaysInv, SliceInv
  <2>4. ASSUME NEW k \in Chunk
        PROVE  l_blkp[s][k] = IF Out(s, k) THEN 0 ELSE 1
    BY <2>1 DEF RelaysInv, HeldInv
  <2> QED
    BY <2>3, <2>4
<1> QED
  BY <1>1, <1>2, <1>3, PTL DEF AllSpec
-------------------------------------------------------------------------------
(* latency.  What a thread has measured is its base: a result is counted     *)
(* before the barrier, the experiment over for all behind it.                *)

Place == {"none", "malloc", "free", "barrier", "waiting", "leave", "done"}

Tid == Rounds!Tid
Team == Rounds!Team
Experiment == Rounds!Experiments
Count == Rounds!EXPERIMENTS

RoundsType ==
  /\ e_round \in 1 .. Len(THREADS)
  /\ e_main \in {"create", "work", "average", "end"}
  /\ e_pc \in [Tid -> Place]
  /\ e_exp \in [Tid -> Nat]
  /\ e_g \in [Tid -> Int]
  /\ e_cps \in [Tid -> SUBSET Int]

(* The cells of a group are filled from the first on, and freed in the       *)
(* order of the experiment.                                                  *)
Group(t) ==
  LET n == Experiment[e_exp[t] + 1].group
      reverse == Experiment[e_exp[t] + 1].reverse
  IN /\ e_pc[t] = "malloc" => e_g[t] \in 0 .. n /\ e_cps[t] = 0 .. e_g[t] - 1
     /\ e_pc[t] = "free" /\ reverse => e_g[t] \in -1 .. n - 1 /\ e_cps[t] = 0 .. e_g[t]
     /\ e_pc[t] = "free" /\ ~reverse => e_g[t] \in 0 .. n /\ e_cps[t] = e_g[t] .. n - 1
     /\ e_pc[t] \notin {"malloc", "free"} => e_g[t] = 0 /\ e_cps[t] = {}

GroupInv == \A t \in Tid : Group(t)

(* Where main is, who is in the team and how far each has got.               *)
TeamInv ==
  /\ \A t \in Tid \ Team : e_pc[t] = "none"
  /\ e_main = "create" => e_pc[0] = "none"
  /\ e_main = "work" => \A t \in Team : e_pc[t] # "none"
  /\ e_main = "average" => \A t \in Team : e_pc[t] = "done"
  /\ e_main = "end" => \A t \in Team : e_pc[t] = "none"
  /\ \A t \in Tid :
       /\ e_pc[t] \in {"malloc", "free"} => e_exp[t] < Count
       /\ e_pc[t] \in {"barrier", "waiting"} => e_exp[t] >= 1
       /\ e_exp[t] <= Count
       /\ e_pc[t] = "done" => e_exp[t] = Count

base(t) == IF e_pc[t] \in {"barrier", "waiting"} THEN e_exp[t] - 1 ELSE e_exp[t]

(* All have the same base, which is none before all are made; the barrier    *)
(* knows who waits.                                                          *)
BaseInv ==
  /\ e_barrier = {t \in Tid : e_pc[t] = "waiting"}
  /\ \A t, u \in Team : e_pc[t] # "none" /\ e_pc[u] # "none" => base(t) = base(u)
  /\ \A t, u \in Team : e_pc[t] # "none" /\ e_pc[u] = "none" => base(t) = 0

ResultInv ==
  \A t \in Tid : \A e \in Nat :
    e_pc[t] # "none" /\ e < e_exp[t] => <<e, t, e_round>> \in e_eresults

RoundsInv == RoundsType /\ GroupInv /\ TeamInv /\ BaseInv /\ ResultInv

LEMMA ExperimentFacts ==
  /\ Count \in Nat
  /\ Count > 0
  /\ \A k \in 1 .. Count : Experiment[k].group \in Nat /\ Experiment[k].reverse \in BOOLEAN
<1> DEFINE R == [group : Nat, reverse : BOOLEAN]
<1>1. /\ Rounds!Alternate \in R /\ Rounds!FreeNull \in R
      /\ \A n \in Nat : Rounds!GroupFree(n) \in R /\ Rounds!GroupReverse(n) \in R
  BY DEF Rounds!Alternate, Rounds!FreeNull, Rounds!GroupFree, Rounds!GroupReverse
<1>2. GROUP1 \in Nat /\ GROUP2 \in Nat
  BY RoundsAssumption
<1> HIDE DEF R
<1>3. Rounds!Fixed \in Seq(R) /\ Rounds!Varied \in Seq(R)
  BY <1>1, <1>2 DEF Rounds!Fixed, Rounds!Varied
<1>4. << Rounds!Alternate, Rounds!FreeNull, Rounds!Alternate >> \in Seq(R)
  BY <1>1
<1>5. << Rounds!Alternate >> \in Seq(R)
  BY <1>1
<1>6. /\ Experiment \in Seq(R)
      /\ Len(Experiment) = ((3 + Len(Rounds!Fixed)) + 1) + Len(Rounds!Varied)
  BY <1>3, <1>4, <1>5, ConcatProperties DEF Experiment, Rounds!Experiments
<1>7. Count \in Nat /\ Count > 0
  BY <1>3, <1>6, LenProperties DEF Count, Rounds!EXPERIMENTS, Experiment
<1>8. \A k \in 1 .. Count : Experiment[k] \in R
  BY <1>6, ElementOfSeq DEF Count, Rounds!EXPERIMENTS, Experiment
<1> QED
  BY <1>7, <1>8 DEF R

LEMMA TeamOf ==
  ASSUME NEW r \in 1 .. Len(THREADS)
  PROVE  /\ THREADS[r] \in Nat \ {0}
         /\ Tid \subseteq Nat
         /\ 0 .. THREADS[r] - 1 \subseteq Tid
<1> DEFINE n == THREADS[r]
           m == THREADS[Len(THREADS)]
<1>1. n \in Nat \ {0} /\ m \in Nat /\ n <= m
  BY RoundsAssumption
<1>2. Tid = 0 .. m - 1
  BY DEF Tid, Rounds!Tid, Rounds!Max
<1> QED
  BY <1>1, <1>2

LEMMA SameCardinality == ASSUME NEW S PROVE Rounds!Cardinality(S) = Cardinality(S)
BY DEF Rounds!Cardinality, Cardinality

LEMMA TeamFacts ==
  ASSUME RoundsType
  PROVE  /\ Tid \subseteq Nat
         /\ Team \subseteq Tid
         /\ 0 \in Team
         /\ IsFiniteSet(Team)
         /\ THREADS[e_round] \in Nat
         /\ Cardinality(Team) = THREADS[e_round]
<1> DEFINE n == THREADS[e_round]
<1>1. /\ n \in Nat \ {0} /\ 0 .. n - 1 \subseteq Tid /\ Tid \subseteq Nat
      /\ Team = 0 .. n - 1
  BY TeamOf DEF RoundsType, Team, Rounds!Team
<1>2. 0 \in Int /\ n - 1 \in Int /\ ~ (0 > n - 1) /\ (n - 1) - 0 + 1 = n
  BY <1>1
<1>3. IsFiniteSet(Team) /\ Cardinality(Team) = n
  BY <1>1, <1>2, FS_Interval
<1> QED
  BY <1>1, <1>3

(* A part of the team with as many members is the team.                      *)
LEMMA WholeTeam ==
  ASSUME RoundsType, NEW S \in SUBSET Team, NEW t \in Team \ S,
         Cardinality(S) + 1 = THREADS[e_round]
  PROVE  S \cup {t} = Team
<1>1. IsFiniteSet(S) /\ Cardinality(S) \in Nat
  BY TeamFacts, FS_Subset, FS_CardinalityType
<1>2. Cardinality(S \cup {t}) = Cardinality(Team)
  BY <1>1, TeamFacts, FS_AddElement
<1> QED
  BY <1>2, TeamFacts, FS_Subset

LEMMA RoundsInit == Rounds!Init => RoundsInv
<1> SUFFICES ASSUME Rounds!Init PROVE RoundsInv
  OBVIOUS
<1>1. RoundsType
  BY RoundsAssumption DEF Rounds!Init, RoundsType, Place, Tid
<1>2. GroupInv /\ TeamInv /\ BaseInv /\ ResultInv
  BY <1>1, TeamFacts, ExperimentFacts
  DEF Rounds!Init, GroupInv, Group, TeamInv, BaseInv, ResultInv, Tid
<1> QED
  BY <1>1, <1>2 DEF RoundsInv

(* A thread keeps its group.                                                 *)
LEMMA WorkerKeepsGroup ==
  ASSUME RoundsInv, NEW t \in Tid, Rounds!worker(t)
  PROVE  RoundsType' /\ GroupInv'
<1> USE DEF RoundsInv, RoundsType, Place
<1>1. RoundsType'
  <2>1. CASE Rounds!Malloc(t)
    BY <2>1, TeamFacts DEF Rounds!Malloc
  <2>2. CASE Rounds!Filled(t)
    <3>1. Experiment[e_exp[t] + 1].group - 1 \in Int
      BY <2>2, ExperimentFacts DEF Rounds!Filled, TeamInv
    <3> QED
      BY <2>2, <3>1 DEF Rounds!Filled, Rounds!Trial, Experiment
  <2>3. CASE Rounds!Free(t)
    BY <2>3 DEF Rounds!Free
  <2>4. CASE Rounds!Result(t)
    BY <2>4 DEF Rounds!Result
  <2>5. CASE Rounds!BarrierWait(t)
    BY <2>5 DEF Rounds!BarrierWait, Tid
  <2>6. CASE Rounds!Leave(t)
    BY <2>6 DEF Rounds!Leave
  <2> QED
    BY <2>1, <2>2, <2>3, <2>4, <2>5, <2>6 DEF Rounds!worker
<1>2. ASSUME NEW u \in Tid, u # t PROVE Group(u)'
  <2>1. e_exp'[u] = e_exp[u] /\ e_g'[u] = e_g[u] /\ e_cps'[u] = e_cps[u]
    BY <1>2 DEF Rounds!worker, Rounds!Malloc, Rounds!Filled, Rounds!Free, Rounds!Result,
                Rounds!BarrierWait, Rounds!Leave
  <2>2. \/ e_pc'[u] = e_pc[u]
        \/ e_pc'[u] = "leave" /\ e_pc[u] = "waiting"
    BY <1>2 DEF Rounds!worker, Rounds!Malloc, Rounds!Filled, Rounds!Free, Rounds!Result,
                Rounds!BarrierWait, Rounds!Leave, BaseInv, Tid
  <2>3. Group(u)
    BY DEF GroupInv
  <2> QED
    BY <2>1, <2>2, <2>3 DEF Group
<1>3. Group(t)'
  <2> DEFINE n == Experiment[e_exp[t] + 1].group
             r == Experiment[e_exp[t] + 1].reverse
  <2>1. e_pc[t] \in {"malloc", "free"} => n \in Nat /\ r \in BOOLEAN
    BY ExperimentFacts DEF TeamInv
  <2>2. Group(t)
    BY DEF GroupInv
  <2>3. CASE Rounds!Malloc(t)
    BY <2>1, <2>2, <2>3 DEF Rounds!Malloc, Rounds!Trial, Experiment, Group
  <2>4. CASE Rounds!Filled(t)
    BY <2>1, <2>2, <2>4 DEF Rounds!Filled, Rounds!Trial, Experiment, Group
  <2>5. CASE Rounds!Free(t)
    BY <2>1, <2>2, <2>5 DEF Rounds!Free, Rounds!Trial, Rounds!More, Experiment, Group
  <2>6. CASE Rounds!Result(t)
    BY <2>1, <2>2, <2>6 DEF Rounds!Result, Rounds!Trial, Rounds!More, Experiment, Group
  <2>7. CASE Rounds!BarrierWait(t)
    BY <2>2, <2>7 DEF Rounds!BarrierWait, Group, Tid
  <2>8. CASE Rounds!Leave(t)
    <3>1. e_exp[t] # Count => n \in Nat
      BY ExperimentFacts DEF TeamInv
    <3> QED
      BY <2>2, <2>8, <3>1 DEF Rounds!Leave, Group, Count
  <2> QED
    BY <2>3, <2>4, <2>5, <2>6, <2>7, <2>8 DEF Rounds!worker
<1> QED
  BY <1>1, <1>2, <1>3 DEF GroupInv

(* What a step of a thread does to its place.                                *)
LEMMA Steps ==
  ASSUME RoundsInv, NEW t \in Tid, Rounds!worker(t)
  PROVE  /\ UNCHANGED <<e_round, e_main>>
         /\ t \in Team
         /\ \/ /\ e_pc[t] \in {"malloc", "free"} /\ e_pc' = [e_pc EXCEPT ![t] = "free"]
               /\ UNCHANGED <<e_exp, e_barrier, e_eresults>>
            \/ /\ e_pc[t] \in {"malloc", "free"} /\ UNCHANGED e_pc
               /\ UNCHANGED <<e_exp, e_barrier, e_eresults>>
            \/ Rounds!Result(t)
            \/ Rounds!BarrierWait(t)
            \/ Rounds!Leave(t)
<1> USE DEF RoundsInv, RoundsType
<1>1. t \in Team
  BY DEF Rounds!worker, Rounds!Malloc, Rounds!Filled, Rounds!Free, Rounds!Result,
         Rounds!BarrierWait, Rounds!Leave, TeamInv
<1>2. CASE Rounds!Malloc(t)
  BY <1>1, <1>2 DEF Rounds!Malloc
<1>3. CASE Rounds!Filled(t)
  BY <1>1, <1>3 DEF Rounds!Filled
<1>4. CASE Rounds!Free(t)
  BY <1>1, <1>4 DEF Rounds!Free
<1>5. CASE Rounds!Result(t) \/ Rounds!BarrierWait(t) \/ Rounds!Leave(t)
  BY <1>1, <1>5 DEF Rounds!Result, Rounds!BarrierWait, Rounds!Leave
<1> QED
  BY <1>2, <1>3, <1>4, <1>5 DEF Rounds!worker

(* The last to come finds the whole team at the barrier.                     *)
LEMMA LastComes ==
  ASSUME RoundsInv, NEW t \in Tid, Rounds!BarrierWait(t),
         Cardinality(e_barrier) + 1 = THREADS[e_round]
  PROVE  \A u \in Team : u = t \/ e_pc[u] = "waiting"
<1>1. e_barrier \subseteq Team /\ t \in Team /\ t \notin e_barrier
  BY DEF RoundsInv, RoundsType, TeamInv, BaseInv, Rounds!BarrierWait
<1>2. e_barrier \cup {t} = Team
  BY <1>1, WholeTeam DEF RoundsInv
<1> QED
  BY <1>2 DEF RoundsInv, BaseInv

LEMMA WorkerKeepsTeam ==
  ASSUME RoundsInv, NEW t \in Tid, Rounds!worker(t)
  PROVE  TeamInv' /\ BaseInv' /\ ResultInv'
<1> USE DEF RoundsInv, RoundsType, Place
<1>1. Team' = Team /\ Tid' = Tid /\ Count' = Count /\ Count \in Nat /\ t \in Team
      /\ UNCHANGED <<e_round, e_main>>
  BY Steps, ExperimentFacts DEF Team, Rounds!Team
<1>2. CASE /\ e_pc[t] \in {"malloc", "free"}
           /\ UNCHANGED <<e_exp, e_barrier, e_eresults>>
           /\ e_pc' = [e_pc EXCEPT ![t] = "free"] \/ UNCHANGED e_pc
  <2>1. \A u \in Tid :
          \/ e_pc'[u] = e_pc[u]
          \/ u = t /\ e_pc[u] \in {"malloc", "free"} /\ e_pc'[u] = "free"
    BY <1>2
  <2>2. TeamInv'
    BY <1>1, <1>2, <2>1, TeamFacts DEF TeamInv
  <2>3. BaseInv'
    <3>1. \A u \in Tid : base(u)' = base(u) /\ (e_pc'[u] = "none" <=> e_pc[u] = "none")
      BY <1>2, <2>1 DEF base
    <3>2. e_barrier' = {u \in Tid : e_pc'[u] = "waiting"}
      BY <1>2, <2>1 DEF BaseInv
    <3> QED
      BY <1>1, <3>1, <3>2, TeamFacts DEF BaseInv
  <2>4. ResultInv'
    BY <1>1, <1>2, <2>1 DEF ResultInv
  <2> QED
    BY <2>2, <2>3, <2>4
<1>3. CASE Rounds!Result(t)
  <2>1. /\ e_pc[t] = "free" /\ e_pc' = [e_pc EXCEPT ![t] = "barrier"]
        /\ e_exp' = [e_exp EXCEPT ![t] = @ + 1]
        /\ e_eresults' = e_eresults \cup {<<e_exp[t], t, e_round>>}
        /\ e_barrier' = e_barrier
    BY <1>3 DEF Rounds!Result
  <2>2. TeamInv'
    BY <1>1, <2>1, TeamFacts DEF TeamInv
  <2>3. BaseInv'
    <3>1. \A u \in Tid : base(u)' = base(u) /\ (e_pc'[u] = "none" <=> e_pc[u] = "none")
      BY <2>1 DEF base
    <3>2. e_barrier' = {u \in Tid : e_pc'[u] = "waiting"}
      BY <2>1 DEF BaseInv
    <3> QED
      BY <1>1, <3>1, <3>2, TeamFacts DEF BaseInv
  <2>4. ResultInv'
    BY <1>1, <2>1 DEF ResultInv
  <2> QED
    BY <2>2, <2>3, <2>4
<1>4. CASE Rounds!BarrierWait(t)
  <2>1. CASE Cardinality(e_barrier) + 1 = THREADS[e_round]
    <3>1. /\ \A u \in Team : u = t \/ e_pc[u] = "waiting"
          /\ e_pc[t] = "barrier"
      BY <1>4, <2>1, LastComes DEF Rounds!BarrierWait
    <3>2. \A u \in Tid : e_pc'[u] = IF u \in Team THEN "leave" ELSE e_pc[u]
      BY <1>4, <2>1, <3>1, <1>1, TeamFacts, SameCardinality
      DEF Rounds!BarrierWait, Rounds!BarrierCount, BaseInv, Tid, TeamInv
    <3>3. e_barrier' = {} /\ UNCHANGED <<e_exp, e_eresults>>
      BY <1>4, <2>1, SameCardinality DEF Rounds!BarrierWait, Rounds!BarrierCount
    <3>4. TeamInv'
      BY <1>1, <3>1, <3>2, <3>3, TeamFacts DEF TeamInv
    <3>5. BaseInv'
      <4>1. e_barrier' = {u \in Tid : e_pc'[u] = "waiting"}
        BY <3>1, <3>2, <3>3 DEF TeamInv
      <4>2. \A u \in Team : base(u)' = base(u) + 1 /\ e_pc[u] # "none"
        BY <3>1, <3>2, <3>3, TeamFacts DEF base
      <4>3. \A u \in Team : e_pc'[u] # "none"
        BY <3>2, TeamFacts
      <4> QED
        BY <1>1, <4>1, <4>2, <4>3 DEF BaseInv
    <3>6. ResultInv'
      BY <1>1, <3>1, <3>2, <3>3, TeamFacts DEF TeamInv, ResultInv
    <3> QED
      BY <3>4, <3>5, <3>6
  <2>2. CASE Cardinality(e_barrier) + 1 # THREADS[e_round]
    <3>1. /\ e_pc[t] = "barrier" /\ e_pc' = [e_pc EXCEPT ![t] = "waiting"]
          /\ e_barrier' = e_barrier \cup {t} /\ UNCHANGED <<e_exp, e_eresults>>
      BY <1>4, <2>2, SameCardinality DEF Rounds!BarrierWait, Rounds!BarrierCount
    <3> QED
      BY <1>1, <3>1 DEF TeamInv, BaseInv, ResultInv, base
  <2> QED
    BY <2>1, <2>2
<1>5. CASE Rounds!Leave(t)
  BY <1>1, <1>5 DEF TeamInv, BaseInv, ResultInv, base, Rounds!Leave, Count
<1> QED
  BY <1>2, <1>3, <1>4, <1>5, Steps

LEMMA MainKeepsRounds ==
  ASSUME RoundsInv, Rounds!Main
  PROVE  RoundsInv'
<1> USE DEF RoundsInv, RoundsType, Place
<1>1. Tid' = Tid /\ Count' = Count /\ Count \in Nat
  BY ExperimentFacts
<1>2. ASSUME NEW t \in Tid, Rounds!Create(t) PROVE RoundsInv'
  <2>1. /\ e_main = "create" /\ t \in Team /\ e_pc[t] = "none"
        /\ e_pc' = [e_pc EXCEPT ![t] = "malloc"]
        /\ e_exp' = [e_exp EXCEPT ![t] = 0]
        /\ e_main' = IF t = 0 THEN "work" ELSE "create"
        /\ UNCHANGED <<e_round, e_g, e_cps, e_barrier, e_eresults>>
    BY <1>2 DEF Rounds!Create, Team
  <2>2. Team' = Team
    BY <2>1 DEF Team, Rounds!Team
  <2>3. t = 0 => \A u \in Team : u # 0 => e_pc[u] # "none"
    BY <1>2 DEF Rounds!Create, Team
  <2>4. RoundsType'
    BY <2>1, <1>1
  <2>5. GroupInv'
    <3>1. ASSUME NEW u \in Tid, u # t PROVE Group(u)'
      BY <2>1, <3>1 DEF GroupInv, Group
    <3>2. Experiment[1].group \in Nat
      BY ExperimentFacts
    <3>3. e_pc'[t] = "malloc" /\ e_exp'[t] = 0 /\ e_g'[t] = 0 /\ e_cps'[t] = {}
      BY <2>1 DEF GroupInv, Group
    <3>4. Group(t)'
      BY <3>2, <3>3 DEF Group
    <3> QED
      BY <3>1, <3>4 DEF GroupInv
  <2>6. TeamInv'
    BY <2>1, <2>2, <2>3, <1>1, TeamFacts, ExperimentFacts DEF TeamInv
  <2>7. BaseInv'
    BY <2>1, <2>2, <1>1, TeamFacts DEF BaseInv, base
  <2>8. ResultInv'
    BY <2>1, <1>1 DEF ResultInv
  <2> QED
    BY <2>4, <2>5, <2>6, <2>7, <2>8
<1>3. CASE Rounds!Join
  <2>1. /\ \A u \in Team : e_pc[u] = "done"
        /\ e_main = "work" /\ e_main' = "average"
        /\ UNCHANGED <<e_round, e_pc, e_exp, e_g, e_cps, e_barrier, e_eresults>>
    BY <1>3 DEF Rounds!Join, Team
  <2>2. Team' = Team
    BY <2>1 DEF Team, Rounds!Team
  <2> QED
    BY <2>1, <2>2, <1>1 DEF GroupInv, Group, TeamInv, BaseInv, base, ResultInv
<1>4. CASE Rounds!NextRound
  <2>1. /\ e_main = "average" /\ e_main' \in {"create", "end"}
        /\ \A u \in Tid : e_pc'[u] = "none"
        /\ e_pc' = [u \in Tid |-> "none"]
        /\ UNCHANGED <<e_exp, e_g, e_cps, e_barrier, e_eresults>>
        /\ e_round' \in 1 .. Len(THREADS)
    BY <1>4, RoundsAssumption DEF Rounds!NextRound, Tid
  <2>2. \A u \in Tid : e_pc[u] \in {"none", "done"}
    BY <2>1 DEF TeamInv
  <2>3. RoundsType'
    BY <2>1
  <2>4. Team' \subseteq Tid /\ 0 \in Tid
    BY <2>1, TeamOf, TeamFacts DEF Team, Rounds!Team
  <2>5. GroupInv'
    BY <2>1, <2>2, <1>1 DEF GroupInv, Group
  <2>6. TeamInv' /\ BaseInv' /\ ResultInv'
    BY <2>1, <2>2, <2>4, <1>1 DEF TeamInv, BaseInv, ResultInv
  <2> QED
    BY <2>3, <2>5, <2>6
<1> QED
  BY <1>2, <1>3, <1>4 DEF Rounds!Main, Tid

LEMMA RoundsNext == RoundsInv /\ AllNext => RoundsInv'
<1> SUFFICES ASSUME RoundsInv, AllNext PROVE RoundsInv'
  OBVIOUS
<1>1. CASE UNCHANGED team
  BY <1>1 DEF team, RoundsInv, RoundsType, GroupInv, Group, TeamInv, BaseInv, base, ResultInv,
              Team, Rounds!Team
<1>2. CASE Rounds!Next
  BY <1>2, WorkerKeepsGroup, WorkerKeepsTeam, MainKeepsRounds DEF Rounds!Next, RoundsInv, Tid
<1> QED
  BY <1>1, <1>2 DEF AllNext

LEMMA RoundsInvariance == AllSpec => []RoundsInv
<1>1. AllInit => RoundsInv
  BY RoundsInit DEF AllInit
<1>2. RoundsInv /\ [AllNext]_all => RoundsInv'
  <2>1. RoundsInv /\ UNCHANGED all => RoundsInv'
    BY DEF all, team, RoundsInv, RoundsType, GroupInv, Group, TeamInv, BaseInv, base, ResultInv,
           Team, Rounds!Team
  <2> QED
    BY <2>1, RoundsNext
<1> QED
  BY <1>1, <1>2, PTL DEF AllSpec

(* latency: threads of a team measure the same experiment, and what one has  *)
(* allocated is freed before it comes to the barrier.                        *)
THEOREM TeamInStep == AllSpec => []RoundsSideBySide
<1>1. RoundsInv => RoundsSideBySide
  <2> SUFFICES ASSUME RoundsInv PROVE RoundsSideBySide
    OBVIOUS
  <2>1. ASSUME NEW t \in Team, NEW u \in Team,
               e_pc[t] \in {"malloc", "free"}, e_pc[u] # "none"
        PROVE  e_exp[u] \in {e_exp[t]} \cup
                 IF e_pc[u] \in {"barrier", "waiting"} THEN {e_exp[t] + 1} ELSE {}
    <3>1. e_exp[u] \in Nat /\ e_exp[t] \in Nat /\ base(t) = base(u)
      BY <2>1, TeamFacts DEF RoundsInv, RoundsType, BaseInv
    <3> QED
      BY <2>1, <3>1 DEF base
  <2>2. \A t \in Tid : e_pc[t] \notin {"malloc", "free"} => e_cps[t] = {}
    BY DEF RoundsInv, GroupInv, Group
  <2> QED
    BY <2>1, <2>2 DEF RoundsSideBySide, Rounds!SideBySide, Team, Tid
<1> QED
  BY <1>1, RoundsInvariance, PTL

(* latency: every result that main averages for a round has been stored in   *)
(* that round, and all the threads are past the barrier it destroys.         *)
THEOREM AllMeasured == AllSpec => []RoundsAveraged
<1>1. RoundsInv => RoundsAveraged
  <2> SUFFICES ASSUME RoundsInv, e_main = "average"
               PROVE  /\ ((0 .. Count - 1) \X Team) \X {e_round} \subseteq
                           {<< <<r[1], r[2]>>, r[3]>> : r \in e_eresults}
                      /\ \A t \in Tid : e_pc[t] \in {"none", "done"}
    BY DEF RoundsAveraged, Rounds!Averaged, Count, Team, Tid
  <2>1. ASSUME NEW e \in 0 .. Count - 1, NEW t \in Team
        PROVE  <<e, t, e_round>> \in e_eresults
    <3>1. t \in Tid /\ e \in Nat /\ e < Count
      BY TeamFacts, ExperimentFacts DEF RoundsInv
    <3>2. e_pc[t] = "done" /\ e_exp[t] = Count
      BY <3>1 DEF RoundsInv, TeamInv
    <3> QED
      BY <3>1, <3>2 DEF RoundsInv, ResultInv
  <2>2. \A t \in Tid : e_pc[t] \in {"none", "done"}
    BY DEF RoundsInv, TeamInv
  <2>3. ASSUME NEW x \in ((0 .. Count - 1) \X Team) \X {e_round}
        PROVE  x \in {<< <<r[1], r[2]>>, r[3]>> : r \in e_eresults}
    <3>1. PICK e \in 0 .. Count - 1, t \in Team : x = << <<e, t>>, e_round>>
      OBVIOUS
    <3> DEFINE r == <<e, t, e_round>>
    <3>2. r \in e_eresults /\ x = << <<r[1], r[2]>>, r[3]>>
      BY <2>1, <3>1
    <3> QED
      BY <3>2
  <2> QED
    BY <2>2, <2>3
<1> QED
  BY <1>1, RoundsInvariance, PTL
===============================================================================
