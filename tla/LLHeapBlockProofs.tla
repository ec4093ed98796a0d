-------------------------- MODULE LLHeapBlockProofs ---------------------------
(***************************************************************************)
(* What the core promises of blocks, for any number of threads, heaps,     *)
(* buckets and blocks, when no thread calls the allocator after its        *)
(* destructor ran: no block is lost or in two places, storage keeps the    *)
(* bucket that it was cut for, and LLHeap implements BlockLedger.          *)
(***************************************************************************)
EXTENDS LLHeapLedger, LLHeapProofs

(* The blocks that next leads to from b: Reach is closed, *)
LEMMA ReachClosed ==
  ASSUME NEW next, NEW b
  PROVE  /\ Reach(next, b) \subseteq Block
         /\ b \in Block => b \in Reach(next, b)
         /\ \A d \in Reach(next, b) : next[d] \in Block => next[d] \in Reach(next, b)
<1>1. Reach(next, b) \subseteq Block
  BY DEF Reach
<1>2. b \in Block => b \in Reach(next, b)
  BY DEF Reach
<1>3. ASSUME NEW d \in Reach(next, b), next[d] \in Block,
             NEW S \in SUBSET Block, {b} \cap Block \subseteq S,
             \A e \in S : next[e] \in Block => next[e] \in S
      PROVE  next[d] \in S
  <2>1. d \in S
    BY <1>3 DEF Reach
  <2> QED BY <1>3, <2>1
<1>4. \A d \in Reach(next, b) : next[d] \in Block => next[d] \in Reach(next, b)
  BY <1>3 DEF Reach
<1> QED BY <1>1, <1>2, <1>4

(* and the least such set. *)
LEMMA ReachLeast ==
  ASSUME NEW next, NEW b, NEW S, b \in Block => b \in S,
         \A d \in S \cap Block : next[d] \in Block => next[d] \in S
  PROVE  Reach(next, b) \subseteq S
<1> DEFINE T == S \cap Block
<1>1. T \in SUBSET Block /\ {b} \cap Block \subseteq T
  OBVIOUS
<1>2. \A d \in T : next[d] \in Block => next[d] \in T
  OBVIOUS
<1> HIDE DEF T
<1>3. Reach(next, b) \subseteq T
  BY <1>1, <1>2 DEF Reach
<1> QED BY <1>3 DEF T

(* No block leads to none. *)
LEMMA ReachNothing ==
  ASSUME NEW next, NEW b, b \notin Block
  PROVE  Reach(next, b) = {}
<1>1. {b} \cap Block \subseteq {} /\ {} \in SUBSET Block
  OBVIOUS
<1> QED BY <1>1 DEF Reach

(* A list is its first block and the list that follows. *)
LEMMA ReachUnfold ==
  ASSUME NEW next, NEW b \in Block
  PROVE  Reach(next, b) = {b} \cup Reach(next, next[b])
<1> DEFINE S == {b} \cup Reach(next, next[b])
<1>1. Reach(next, b) \subseteq S
  <2>1. \A d \in S \cap Block : next[d] \in Block => next[d] \in S
    BY ReachClosed
  <2> QED BY <2>1, ReachLeast
<1>2. Reach(next, next[b]) \subseteq Reach(next, b)
  <2>1. next[b] \in Block => next[b] \in Reach(next, b)
    BY ReachClosed
  <2>2. \A d \in Reach(next, b) \cap Block : next[d] \in Block => next[d] \in Reach(next, b)
    BY ReachClosed
  <2> QED BY <2>1, <2>2, ReachLeast
<1> QED BY <1>1, <1>2, ReachClosed

(* A change of links elsewhere does not change a list. *)
LEMMA ReachFrame ==
  ASSUME NEW next, NEW other, NEW b, \A d \in Reach(next, b) : other[d] = next[d]
  PROVE  Reach(other, b) = Reach(next, b)
<1>1. Reach(other, b) \subseteq Reach(next, b)
  <2>1. b \in Block => b \in Reach(next, b)
    BY ReachClosed
  <2>2. \A d \in Reach(next, b) \cap Block : other[d] \in Block => other[d] \in Reach(next, b)
    BY ReachClosed
  <2> QED BY <2>1, <2>2, ReachLeast
<1>2. Reach(next, b) \subseteq Reach(other, b)
  <2> DEFINE S == Reach(next, b) \cap Reach(other, b)
  <2>1. b \in Block => b \in S
    BY ReachClosed
  <2>2. \A d \in S \cap Block : next[d] \in Block => next[d] \in S
    BY ReachClosed
  <2> HIDE DEF S
  <2>3. Reach(next, b) \subseteq S
    BY <2>1, <2>2, ReachLeast
  <2> QED BY <2>3 DEF S
<1> QED BY <1>1, <1>2

(* Every block of a list but the first is the next of one before it. *)
LEMMA ReachPrevious ==
  ASSUME NEW next, NEW b, NEW c \in Reach(next, b), c # b
  PROVE  \E d \in Reach(next, b) : next[d] = c
<1> DEFINE S == {e \in Reach(next, b) : e = b \/ \E d \in Reach(next, b) : next[d] = e}
<1>1. b \in Block => b \in S
  BY ReachClosed
<1>2. \A d \in S \cap Block : next[d] \in Block => next[d] \in S
  BY ReachClosed
<1>3. Reach(next, b) \subseteq S
  <2> HIDE DEF S
  <2> QED BY <1>1, <1>2, ReachLeast
<1> QED BY <1>3

(* Two lists have no block in common when no block is the next of two and   *)
(* the first block of neither is the next of any.                           *)
LEMMA ReachApart ==
  ASSUME NEW next, NEW b, NEW c, b # c,
         \A d \in Reach(next, b) \cup Reach(next, c) : next[d] \in Block =>
           /\ next[d] # b /\ next[d] # c
           /\ \A e \in Reach(next, b) \cup Reach(next, c) : next[e] = next[d] => e = d
  PROVE  Reach(next, b) \cap Reach(next, c) = {}
<1> DEFINE S == Reach(next, b) \ Reach(next, c)
<1>1. b \in Block => b \in S
  <2> SUFFICES ASSUME b \in Reach(next, c), b \in Block PROVE FALSE
    BY ReachClosed
  <2>1. PICK d \in Reach(next, c) : next[d] = b
    BY ReachPrevious
  <2> QED BY <2>1
<1>2. \A d \in S \cap Block : next[d] \in Block => next[d] \in S
  <2> SUFFICES ASSUME NEW d \in S \cap Block, next[d] \in Block, next[d] \notin S PROVE FALSE
    OBVIOUS
  <2>1. next[d] \in Reach(next, c) /\ next[d] # c
    BY ReachClosed
  <2>2. PICK e \in Reach(next, c) : next[e] = next[d]
    BY <2>1, ReachPrevious
  <2> QED BY <2>2
<1>3. Reach(next, b) \subseteq S
  <2> HIDE DEF S
  <2> QED BY <1>1, <1>2, ReachLeast
<1> QED BY <1>3
-------------------------------------------------------------------------------
USE ConstAssumption
DEF ConstAssumption, Goto, Return, SetFreeList, SetRemoteList, MyFreeList, MyRemoteList, lists,
    storage, master, local, Extended

(* b is on a list of a heap, or on a remote list that a thread has pulled.  *)
OnFreeList(b) == \E q \in FreeHeader : b \in Chain(freeList[q])
OnRemoteList(b) == \E q \in FreeHeader : b \in Chain(remoteList[q])
Pulled(b) == \E t \in Thread : pc[t] = "split" /\ b \in Chain(block[t])

(* A block that is nobody's is on a list, and a heap that was never given   *)
(* out has none, so that getHeap loses nothing when it sets its lists up.   *)
(* The free list a thread replaces by what it has pulled is empty.          *)
KeptInv ==
  /\ \A b \in Block : Listed(b) => OnFreeList(b) \/ OnRemoteList(b) \/ Pulled(b)
  /\ \A q \in FreeHeader : q[1] \in heapStorage => freeList[q] = Null /\ remoteList[q] = Null
  /\ \A b \in Block : cut[b] # Null => cut[b] \in FreeHeader /\ cut[b][1] \notin heapStorage
  /\ \A t \in Thread : pc[t] \in {"remote", "pull", "split"} => MyFreeList(t) = Null

(* The first block of a list. *)
First(b) ==
  \/ \E q \in FreeHeader : b = freeList[q] \/ b = remoteList[q]
  \/ \E t \in Thread : pc[t] = "split" /\ b = block[t]

(* A list consists of listed blocks of the bucket of its first. *)
LEMMA ChainListed ==
  ASSUME BlockInv, NEW b, First(b), NEW c \in Chain(b)
  PROVE  b \in Block /\ c \in Block /\ Listed(c) /\ cut[c] = cut[b]
<1> DEFINE S == {d \in Block : Listed(d) /\ cut[d] = cut[b]}
<1>1. Null \notin Block
  OBVIOUS
<1>2. b \in Block \cup {Null}
  BY DEF First, BlockInv, BlockTypeOK, LocalInv
<1>3. b \in Block
  BY <1>1, <1>2, ReachNothing DEF Chain
<1>4. Listed(b)
  BY <1>1, <1>3 DEF First, BlockInv, ListInv, HeadsListed
<1>5. \A d \in S \cap Block : header[d] \in Block => header[d] \in S
  BY <1>1 DEF BlockInv, ListInv, LinksListed
<1>6. Reach(header, b) \subseteq S
  <2>1. b \in S
    BY <1>3, <1>4
  <2> HIDE DEF S
  <2> QED BY <1>5, <2>1, ReachLeast
<1> QED BY <1>3, <1>6 DEF Chain

(* The lists have no block in common. *)
LEMMA ChainsApart ==
  ASSUME BlockInv, NEW b, NEW c, First(b), First(c), b # c
  PROVE  Chain(b) \cap Chain(c) = {}
<1> DEFINE S == Reach(header, b) \cup Reach(header, c)
<1>1. \A d \in S : d \in Block /\ Listed(d)
  BY ChainListed DEF Chain
<1>2. Null \notin Block
  OBVIOUS
<1>3. ASSUME NEW d \in S, header[d] \in Block
      PROVE  header[d] # b /\ header[d] # c
  <2>1. header[d] # Null /\ Listed(d) /\ d \in Block
    BY <1>1, <1>2, <1>3
  <2> QED BY <2>1 DEF First, BlockInv, ListInv, FirstIsNotNext
<1>4. ASSUME NEW d \in S, header[d] \in Block, NEW e \in S, header[e] = header[d]
      PROVE  e = d
  BY <1>1, <1>2, <1>4 DEF BlockInv, ListInv, OneLink
<1> HIDE DEF S
<1>5. Reach(header, b) \cap Reach(header, c) = {}
  <2>1. \A d \in Reach(header, b) \cup Reach(header, c) : header[d] \in Block =>
           /\ header[d] # b /\ header[d] # c
           /\ \A e \in Reach(header, b) \cup Reach(header, c) : header[e] = header[d] => e = d
    BY <1>3, <1>4 DEF S
  <2> QED BY <2>1, ReachApart
<1> QED BY <1>5 DEF Chain

(* A step that leaves the links of the listed blocks leaves the lists.      *)
LEMMA ChainFrame ==
  ASSUME BlockInv, NEW b, First(b),
         \A c \in Block : Listed(c) => header'[c] = header[c]
  PROVE  Reach(header', b) = Chain(b)
<1>1. \A d \in Reach(header, b) : header'[d] = header[d]
  BY ChainListed DEF Chain
<1> QED BY <1>1, ReachFrame DEF Chain

(* Storage is of the heap and the bucket of its list, or of its home. *)
LEMMA BlockInvOwnership == ASSUME BlockInv PROVE OwnershipKept
<1>1. ASSUME NEW q \in FreeHeader, NEW b \in Chain(freeList[q]) \cup Chain(remoteList[q])
      PROVE  cut[b] = q
  <2>1. CASE b \in Chain(freeList[q])
    <3>1. freeList[q] \in Block /\ cut[b] = cut[freeList[q]]
      BY <2>1, ChainListed DEF First
    <3> QED BY <3>1 DEF BlockInv, ListInv, HeadsListed
  <2>2. CASE b \in Chain(remoteList[q])
    <3>1. remoteList[q] \in Block /\ cut[b] = cut[remoteList[q]]
      BY <2>2, ChainListed DEF First
    <3> QED BY <3>1 DEF BlockInv, ListInv, HeadsListed
  <2> QED BY <2>1, <2>2
<1>2. \A b \in held : header[b] \in FreeHeader => cut[b] = header[b]
  BY DEF BlockInv, HeldInv, HomeOK, FreeHeader
<1> QED BY <1>1, <1>2 DEF OwnershipKept

(* A block is in exactly one place. *)
LEMMA KeptConserved ==
  ASSUME BlockInv, KeptInv
  PROVE  BlocksConserved
<1> SUFFICES ASSUME NEW b \in Block PROVE Claims(b) = 1
  BY DEF BlocksConserved
<1> DEFINE New == {b} \cap fresh
           Mine == {b} \cap held
           Hands == {t \in Thread : Freeing(t, b) \/ Taking(t, b)}
           Free1 == {q \in FreeHeader : b \in Chain(freeList[q])}
           Remote == {q \in FreeHeader : b \in Chain(remoteList[q])}
<1>1. Claims(b) = Cardinality(New) + Cardinality(Mine) + Cardinality(Hands)
                    + Cardinality(Free1) + Cardinality(Remote)
  BY DEF Claims
<1>2. \A t \in Thread : Freeing(t, b) \/ Taking(t, b) =>
        Carried(t, b) \/ (pc[t] = "split" /\ b \in Chain(block[t]))
  BY DEF Freeing, Taking, Carried
<1>3. \A t \in Thread : Carried(t, b) => Freeing(t, b) \/ Taking(t, b)
  BY DEF Freeing, Taking, Carried
<1>4. ~Listed(b) => /\ Free1 = {} /\ Remote = {}
                    /\ \A t \in Thread : ~(pc[t] = "split" /\ b \in Chain(block[t]))
  BY ChainListed DEF First
<1>5. CASE b \in fresh
  <2>1. ~Listed(b) /\ b \notin held /\ \A t \in Thread : ~Carried(t, b)
    BY <1>5 DEF BlockInv, ClaimInv, Listed
  <2>2. New = {b} /\ Mine = {} /\ Hands = {} /\ Free1 = {} /\ Remote = {}
    BY <1>2, <1>4, <1>5, <2>1
  <2>3. /\ Cardinality(New) = 1 /\ Cardinality(Mine) = 0 /\ Cardinality(Hands) = 0
        /\ Cardinality(Free1) = 0 /\ Cardinality(Remote) = 0
    BY <2>2, CountSmall, Zenon
  <2> QED BY <1>1, <2>3
<1>6. CASE b \in held
  <2>1. ~Listed(b) /\ b \notin fresh /\ \A t \in Thread : ~Carried(t, b)
    BY <1>6 DEF BlockInv, ClaimInv, Listed
  <2>2. New = {} /\ Mine = {b} /\ Hands = {} /\ Free1 = {} /\ Remote = {}
    BY <1>2, <1>4, <1>6, <2>1
  <2>3. /\ Cardinality(New) = 0 /\ Cardinality(Mine) = 1 /\ Cardinality(Hands) = 0
        /\ Cardinality(Free1) = 0 /\ Cardinality(Remote) = 0
    BY <2>2, CountSmall, Zenon
  <2> QED BY <1>1, <2>3
<1>7. ASSUME NEW t \in Thread, Carried(t, b) PROVE Claims(b) = 1
  <2>1. ~Listed(b) /\ b \notin fresh /\ b \notin held /\ \A u \in Thread : Carried(u, b) => u = t
    BY <1>7 DEF BlockInv, ClaimInv, Listed
  <2>2. New = {} /\ Mine = {} /\ Hands = {t} /\ Free1 = {} /\ Remote = {}
    BY <1>2, <1>3, <1>4, <1>7, <2>1
  <2>3. /\ Cardinality(New) = 0 /\ Cardinality(Mine) = 0 /\ Cardinality(Hands) = 1
        /\ Cardinality(Free1) = 0 /\ Cardinality(Remote) = 0
    BY <2>2, CountSmall, Zenon
  <2> QED BY <1>1, <2>3
<1>8. CASE Listed(b)
  <2>1. New = {} /\ Mine = {} /\ \A t \in Thread : ~Carried(t, b)
    BY <1>8 DEF Listed
  <2>2. \A c, d : First(c) /\ First(d) /\ b \in Chain(c) /\ b \in Chain(d) => c = d
    BY ChainsApart
  <2>3. CASE OnFreeList(b)
    <3>1. PICK q \in FreeHeader : b \in Chain(freeList[q])
      BY <2>3 DEF OnFreeList
    <3>2. freeList[q] \in Block /\ First(freeList[q])
      BY <3>1, ChainListed DEF First
    <3>3. /\ \A p \in FreeHeader : p # q => freeList[p] # freeList[q]
          /\ \A p \in FreeHeader : remoteList[p] # freeList[q]
          /\ \A t \in Thread : pc[t] = "split" => block[t] # freeList[q]
      BY <3>2 DEF BlockInv, ListInv, OneFirst
    <3>4. Free1 = {q} /\ Remote = {}
      BY <2>2, <3>1, <3>2, <3>3 DEF First
    <3>5. Hands = {}
      BY <1>2, <2>1, <2>2, <3>1, <3>2, <3>3 DEF First
    <3>6. /\ Cardinality(New) = 0 /\ Cardinality(Mine) = 0 /\ Cardinality(Hands) = 0
          /\ Cardinality(Free1) = 1 /\ Cardinality(Remote) = 0
      BY <2>1, <3>4, <3>5, CountSmall, Zenon
    <3> QED BY <1>1, <3>6
  <2>4. CASE OnRemoteList(b)
    <3>1. PICK q \in FreeHeader : b \in Chain(remoteList[q])
      BY <2>4 DEF OnRemoteList
    <3>2. remoteList[q] \in Block /\ First(remoteList[q])
      BY <3>1, ChainListed DEF First
    <3>3. /\ \A p \in FreeHeader : p # q => remoteList[p] # remoteList[q]
          /\ \A p \in FreeHeader : freeList[p] # remoteList[q]
          /\ \A t \in Thread : pc[t] = "split" => block[t] # remoteList[q]
      BY <3>2 DEF BlockInv, ListInv, OneFirst
    <3>4. Free1 = {} /\ Remote = {q}
      BY <2>2, <3>1, <3>2, <3>3 DEF First
    <3>5. Hands = {}
      BY <1>2, <2>1, <2>2, <3>1, <3>2, <3>3 DEF First
    <3>6. /\ Cardinality(New) = 0 /\ Cardinality(Mine) = 0 /\ Cardinality(Hands) = 0
          /\ Cardinality(Free1) = 0 /\ Cardinality(Remote) = 1
      BY <2>1, <3>4, <3>5, CountSmall, Zenon
    <3> QED BY <1>1, <3>6
  <2>5. CASE Pulled(b)
    <3>1. PICK t \in Thread : pc[t] = "split" /\ b \in Chain(block[t])
      BY <2>5 DEF Pulled
    <3>2. block[t] \in Block /\ First(block[t])
      BY <3>1, ChainListed DEF First
    <3>3. /\ \A p \in FreeHeader : freeList[p] # block[t] /\ remoteList[p] # block[t]
          /\ \A u \in Thread : u # t /\ pc[u] = "split" => block[u] # block[t]
      BY <3>1, <3>2 DEF BlockInv, ListInv, OneFirst
    <3>4. Free1 = {} /\ Remote = {}
      BY <2>2, <3>1, <3>2, <3>3 DEF First
    <3>5. Hands = {t}
      BY <1>2, <2>1, <2>2, <3>1, <3>2, <3>3 DEF First, Taking
    <3>6. /\ Cardinality(New) = 0 /\ Cardinality(Mine) = 0 /\ Cardinality(Hands) = 1
          /\ Cardinality(Free1) = 0 /\ Cardinality(Remote) = 0
      BY <2>1, <3>4, <3>5, CountSmall, Zenon
    <3> QED BY <1>1, <3>6
  <2> QED BY <1>8, <2>3, <2>4, <2>5 DEF KeptInv
<1> QED BY <1>5, <1>6, <1>7, <1>8 DEF Listed
(* A step that leaves the lists as they are, and adds no listed block.      *)
Undisturbed ==
  /\ freeList' = freeList /\ remoteList' = remoteList
  /\ \A c \in Block : Listed(c)' => Listed(c)
  /\ \A c \in Block : Listed(c) => header'[c] = header[c]
  /\ \A u \in Thread : pc[u] = "split" => pc'[u] = "split" /\ block'[u] = block[u]

(* Most steps are such. *)
Quiet(t) ==
  \/ ThreadCreate(t) \/ HeapManagerDtor(t) \/ ThreadEnd(t)
  \/ ReuseHeap(t) \/ NewHeap(t)
  \/ ReadFreeList(t) \/ TestRemote(t) \/ Bump(t) \/ ExtendBump(t)
  \/ Waits(t) \/ Fails(t)
  \/ SetHome(t) \/ MapLarge(t)
  \/ ReadHome(t) \/ Link(t) \/ RemoteLink(t) \/ RemoteRetry(t) \/ Unmap(t)
  \/ \E k \in Bucket \cup {Large} : CallMalloc(t, k)
  \/ \E b \in Block : CallFree(t, b)

LEMMA QuietUndisturbed ==
  ASSUME HeapInv, BlockInv, KeptInv, NEW t \in Thread, Quiet(t)
  PROVE  Undisturbed
<1> USE DEF BlockInv
<1>1. CASE ThreadCreate(t)
  <2>1. freeList' = freeList /\ remoteList' = remoteList
    BY <1>1 DEF ThreadCreate
  <2>2. \A c \in Block : Listed(c)' => Listed(c)
    BY <1>1 DEF ThreadCreate, HeapInv, HeapTypeOK, BlockTypeOK, Listed, Carried, LocalInv, ClaimInv
  <2>3. \A c \in Block : Listed(c) => header'[c] = header[c]
    BY <1>1 DEF ThreadCreate, HeapInv, HeapTypeOK, BlockTypeOK, Listed, Carried, LocalInv
  <2>4. \A u \in Thread : pc[u] = "split" => pc'[u] = "split" /\ block'[u] = block[u]
    BY <1>1 DEF ThreadCreate, HeapInv, HeapTypeOK, BlockTypeOK
  <2> QED BY <2>1, <2>2, <2>3, <2>4 DEF Undisturbed
<1>2. CASE HeapManagerDtor(t)
  <2>1. freeList' = freeList /\ remoteList' = remoteList
    BY <1>2 DEF HeapManagerDtor
  <2>2. \A c \in Block : Listed(c)' => Listed(c)
    BY <1>2 DEF HeapManagerDtor, HeapInv, HeapTypeOK, BlockTypeOK, Listed, Carried, LocalInv, ClaimInv
  <2>3. \A c \in Block : Listed(c) => header'[c] = header[c]
    BY <1>2 DEF HeapManagerDtor, HeapInv, HeapTypeOK, BlockTypeOK, Listed, Carried, LocalInv
  <2>4. \A u \in Thread : pc[u] = "split" => pc'[u] = "split" /\ block'[u] = block[u]
    BY <1>2 DEF HeapManagerDtor, HeapInv, HeapTypeOK, BlockTypeOK
  <2> QED BY <2>1, <2>2, <2>3, <2>4 DEF Undisturbed
<1>3. CASE ThreadEnd(t)
  <2>1. freeList' = freeList /\ remoteList' = remoteList
    BY <1>3 DEF ThreadEnd
  <2>2. \A c \in Block : Listed(c)' => Listed(c)
    BY <1>3 DEF ThreadEnd, HeapInv, HeapTypeOK, BlockTypeOK, Listed, Carried, LocalInv, ClaimInv
  <2>3. \A c \in Block : Listed(c) => header'[c] = header[c]
    BY <1>3 DEF ThreadEnd, HeapInv, HeapTypeOK, BlockTypeOK, Listed, Carried, LocalInv
  <2>4. \A u \in Thread : pc[u] = "split" => pc'[u] = "split" /\ block'[u] = block[u]
    BY <1>3 DEF ThreadEnd, HeapInv, HeapTypeOK, BlockTypeOK
  <2> QED BY <2>1, <2>2, <2>3, <2>4 DEF Undisturbed
<1>4. CASE ReuseHeap(t)
  <2>1. freeList' = freeList /\ remoteList' = remoteList
    BY <1>4 DEF ReuseHeap, GotHeap
  <2>2. \A c \in Block : Listed(c)' => Listed(c)
    BY <1>4 DEF ReuseHeap, GotHeap, HeapInv, HeapTypeOK, BlockTypeOK, Listed, Carried, LocalInv, ClaimInv
  <2>3. \A c \in Block : Listed(c) => header'[c] = header[c]
    BY <1>4 DEF ReuseHeap, GotHeap, HeapInv, HeapTypeOK, BlockTypeOK, Listed, Carried, LocalInv
  <2>4. \A u \in Thread : pc[u] = "split" => pc'[u] = "split" /\ block'[u] = block[u]
    BY <1>4 DEF ReuseHeap, GotHeap, HeapInv, HeapTypeOK, BlockTypeOK
  <2> QED BY <2>1, <2>2, <2>3, <2>4 DEF Undisturbed
<1>5. CASE ReadFreeList(t)
  <2>1. freeList' = freeList /\ remoteList' = remoteList
    BY <1>5 DEF ReadFreeList
  <2>2. \A c \in Block : Listed(c)' => Listed(c)
    BY <1>5 DEF ReadFreeList, HeapInv, HeapTypeOK, BlockTypeOK, Listed, Carried, LocalInv, ClaimInv
  <2>3. \A c \in Block : Listed(c) => header'[c] = header[c]
    BY <1>5 DEF ReadFreeList, HeapInv, HeapTypeOK, BlockTypeOK, Listed, Carried, LocalInv
  <2>4. \A u \in Thread : pc[u] = "split" => pc'[u] = "split" /\ block'[u] = block[u]
    BY <1>5 DEF ReadFreeList, HeapInv, HeapTypeOK, BlockTypeOK
  <2> QED BY <2>1, <2>2, <2>3, <2>4 DEF Undisturbed
<1>6. CASE TestRemote(t)
  <2>1. freeList' = freeList /\ remoteList' = remoteList
    BY <1>6 DEF TestRemote
  <2>2. \A c \in Block : Listed(c)' => Listed(c)
    BY <1>6 DEF TestRemote, HeapInv, HeapTypeOK, BlockTypeOK, Listed, Carried, LocalInv, ClaimInv
  <2>3. \A c \in Block : Listed(c) => header'[c] = header[c]
    BY <1>6 DEF TestRemote, HeapInv, HeapTypeOK, BlockTypeOK, Listed, Carried, LocalInv
  <2>4. \A u \in Thread : pc[u] = "split" => pc'[u] = "split" /\ block'[u] = block[u]
    BY <1>6 DEF TestRemote, HeapInv, HeapTypeOK, BlockTypeOK
  <2> QED BY <2>1, <2>2, <2>3, <2>4 DEF Undisturbed
<1>7. CASE Bump(t)
  <2>1. freeList' = freeList /\ remoteList' = remoteList
    BY <1>7 DEF Bump
  <2>2. \A c \in Block : Listed(c)' => Listed(c)
    BY <1>7 DEF Bump, HeapInv, HeapTypeOK, BlockTypeOK, Listed, Carried, LocalInv, ClaimInv
  <2>3. \A c \in Block : Listed(c) => header'[c] = header[c]
    BY <1>7 DEF Bump, HeapInv, HeapTypeOK, BlockTypeOK, Listed, Carried, LocalInv
  <2>4. \A u \in Thread : pc[u] = "split" => pc'[u] = "split" /\ block'[u] = block[u]
    BY <1>7 DEF Bump, HeapInv, HeapTypeOK, BlockTypeOK
  <2> QED BY <2>1, <2>2, <2>3, <2>4 DEF Undisturbed
<1>8. CASE Fails(t)
  <2>1. freeList' = freeList /\ remoteList' = remoteList
    BY <1>8 DEF Fails, ExtendFails, MapFails
  <2>2. \A c \in Block : Listed(c)' => Listed(c)
    BY <1>8 DEF Fails, ExtendFails, MapFails, HeapInv, HeapTypeOK, BlockTypeOK, Listed, Carried, LocalInv, ClaimInv
  <2>3. \A c \in Block : Listed(c) => header'[c] = header[c]
    BY <1>8 DEF Fails, ExtendFails, MapFails, HeapInv, HeapTypeOK, BlockTypeOK, Listed, Carried, LocalInv
  <2>4. \A u \in Thread : pc[u] = "split" => pc'[u] = "split" /\ block'[u] = block[u]
    BY <1>8 DEF Fails, ExtendFails, MapFails, HeapInv, HeapTypeOK, BlockTypeOK
  <2> QED BY <2>1, <2>2, <2>3, <2>4 DEF Undisturbed
<1>9. CASE SetHome(t)
  <2>1. freeList' = freeList /\ remoteList' = remoteList
    BY <1>9 DEF SetHome
  <2>2. \A c \in Block : Listed(c)' => Listed(c)
    BY <1>9 DEF SetHome, HeapInv, HeapTypeOK, BlockTypeOK, Listed, Carried, LocalInv, ClaimInv
  <2>3. \A c \in Block : Listed(c) => header'[c] = header[c]
    BY <1>9 DEF SetHome, HeapInv, HeapTypeOK, BlockTypeOK, Listed, Carried, LocalInv
  <2>4. \A u \in Thread : pc[u] = "split" => pc'[u] = "split" /\ block'[u] = block[u]
    BY <1>9 DEF SetHome, HeapInv, HeapTypeOK, BlockTypeOK
  <2> QED BY <2>1, <2>2, <2>3, <2>4 DEF Undisturbed
<1>10. CASE MapLarge(t)
  <2>1. freeList' = freeList /\ remoteList' = remoteList
    BY <1>10 DEF MapLarge
  <2>2. \A c \in Block : Listed(c)' => Listed(c)
    BY <1>10 DEF MapLarge, HeapInv, HeapTypeOK, BlockTypeOK, Listed, Carried, LocalInv, ClaimInv
  <2>3. \A c \in Block : Listed(c) => header'[c] = header[c]
    BY <1>10 DEF MapLarge, HeapInv, HeapTypeOK, BlockTypeOK, Listed, Carried, LocalInv
  <2>4. \A u \in Thread : pc[u] = "split" => pc'[u] = "split" /\ block'[u] = block[u]
    BY <1>10 DEF MapLarge, HeapInv, HeapTypeOK, BlockTypeOK
  <2> QED BY <2>1, <2>2, <2>3, <2>4 DEF Undisturbed
<1>11. CASE ReadHome(t)
  <2>1. freeList' = freeList /\ remoteList' = remoteList
    BY <1>11 DEF ReadHome
  <2>2. \A c \in Block : Listed(c)' => Listed(c)
    BY <1>11 DEF ReadHome, HeapInv, HeapTypeOK, BlockTypeOK, Listed, Carried, LocalInv, ClaimInv
  <2>3. \A c \in Block : Listed(c) => header'[c] = header[c]
    BY <1>11 DEF ReadHome, HeapInv, HeapTypeOK, BlockTypeOK, Listed, Carried, LocalInv
  <2>4. \A u \in Thread : pc[u] = "split" => pc'[u] = "split" /\ block'[u] = block[u]
    BY <1>11 DEF ReadHome, HeapInv, HeapTypeOK, BlockTypeOK
  <2> QED BY <2>1, <2>2, <2>3, <2>4 DEF Undisturbed
<1>12. CASE Link(t)
  <2>1. freeList' = freeList /\ remoteList' = remoteList
    BY <1>12 DEF Link
  <2>2. \A c \in Block : Listed(c)' => Listed(c)
    BY <1>12 DEF Link, HeapInv, HeapTypeOK, BlockTypeOK, Listed, Carried, LocalInv, ClaimInv
  <2>3. \A c \in Block : Listed(c) => header'[c] = header[c]
    BY <1>12 DEF Link, HeapInv, HeapTypeOK, BlockTypeOK, Listed, Carried, LocalInv
  <2>4. \A u \in Thread : pc[u] = "split" => pc'[u] = "split" /\ block'[u] = block[u]
    BY <1>12 DEF Link, HeapInv, HeapTypeOK, BlockTypeOK
  <2> QED BY <2>1, <2>2, <2>3, <2>4 DEF Undisturbed
<1>13. CASE RemoteLink(t)
  <2>1. freeList' = freeList /\ remoteList' = remoteList
    BY <1>13 DEF RemoteLink
  <2>2. \A c \in Block : Listed(c)' => Listed(c)
    BY <1>13 DEF RemoteLink, HeapInv, HeapTypeOK, BlockTypeOK, Listed, Carried, LocalInv, ClaimInv
  <2>3. \A c \in Block : Listed(c) => header'[c] = header[c]
    BY <1>13 DEF RemoteLink, HeapInv, HeapTypeOK, BlockTypeOK, Listed, Carried, LocalInv
  <2>4. \A u \in Thread : pc[u] = "split" => pc'[u] = "split" /\ block'[u] = block[u]
    BY <1>13 DEF RemoteLink, HeapInv, HeapTypeOK, BlockTypeOK
  <2> QED BY <2>1, <2>2, <2>3, <2>4 DEF Undisturbed
<1>14. CASE RemoteRetry(t)
  <2>1. freeList' = freeList /\ remoteList' = remoteList
    BY <1>14 DEF RemoteRetry
  <2>2. \A c \in Block : Listed(c)' => Listed(c)
    BY <1>14 DEF RemoteRetry, HeapInv, HeapTypeOK, BlockTypeOK, Listed, Carried, LocalInv, ClaimInv
  <2>3. \A c \in Block : Listed(c) => header'[c] = header[c]
    BY <1>14 DEF RemoteRetry, HeapInv, HeapTypeOK, BlockTypeOK, Listed, Carried, LocalInv
  <2>4. \A u \in Thread : pc[u] = "split" => pc'[u] = "split" /\ block'[u] = block[u]
    BY <1>14 DEF RemoteRetry, HeapInv, HeapTypeOK, BlockTypeOK
  <2> QED BY <2>1, <2>2, <2>3, <2>4 DEF Undisturbed
<1>15. CASE Unmap(t)
  <2>1. freeList' = freeList /\ remoteList' = remoteList
    BY <1>15 DEF Unmap
  <2>2. \A c \in Block : Listed(c)' => Listed(c)
    BY <1>15 DEF Unmap, HeapInv, HeapTypeOK, BlockTypeOK, Listed, Carried, LocalInv, ClaimInv
  <2>3. \A c \in Block : Listed(c) => header'[c] = header[c]
    BY <1>15 DEF Unmap, HeapInv, HeapTypeOK, BlockTypeOK, Listed, Carried, LocalInv
  <2>4. \A u \in Thread : pc[u] = "split" => pc'[u] = "split" /\ block'[u] = block[u]
    BY <1>15 DEF Unmap, HeapInv, HeapTypeOK, BlockTypeOK
  <2> QED BY <2>1, <2>2, <2>3, <2>4 DEF Undisturbed
<1>16. CASE \E k \in Bucket \cup {Large} : CallMalloc(t, k)
  <2>1. freeList' = freeList /\ remoteList' = remoteList
    BY <1>16 DEF CallMalloc, MayCall
  <2>2. \A c \in Block : Listed(c)' => Listed(c)
    BY <1>16 DEF CallMalloc, MayCall, HeapInv, HeapTypeOK, BlockTypeOK, Listed, Carried, LocalInv, ClaimInv
  <2>3. \A c \in Block : Listed(c) => header'[c] = header[c]
    BY <1>16 DEF CallMalloc, MayCall, HeapInv, HeapTypeOK, BlockTypeOK, Listed, Carried, LocalInv
  <2>4. \A u \in Thread : pc[u] = "split" => pc'[u] = "split" /\ block'[u] = block[u]
    BY <1>16 DEF CallMalloc, MayCall, HeapInv, HeapTypeOK, BlockTypeOK
  <2> QED BY <2>1, <2>2, <2>3, <2>4 DEF Undisturbed
<1>17. CASE \E b \in Block : CallFree(t, b)
  <2>1. freeList' = freeList /\ remoteList' = remoteList
    BY <1>17 DEF CallFree, MayCall
  <2>2. \A c \in Block : Listed(c)' => Listed(c)
    BY <1>17 DEF CallFree, MayCall, HeapInv, HeapTypeOK, BlockTypeOK, Listed, Carried, LocalInv, ClaimInv
  <2>3. \A c \in Block : Listed(c) => header'[c] = header[c]
    BY <1>17 DEF CallFree, MayCall, HeapInv, HeapTypeOK, BlockTypeOK, Listed, Carried, LocalInv
  <2>4. \A u \in Thread : pc[u] = "split" => pc'[u] = "split" /\ block'[u] = block[u]
    BY <1>17 DEF CallFree, MayCall, HeapInv, HeapTypeOK, BlockTypeOK
  <2> QED BY <2>1, <2>2, <2>3, <2>4 DEF Undisturbed
<1>18. CASE NewHeap(t)
  <2>1. freeList' = freeList /\ remoteList' = remoteList
    BY <1>18 DEF NewHeap, KeptInv, BlockTypeOK
  <2>2. header' = header /\ block' = block /\ fresh' = fresh /\ held' = held
    BY <1>18 DEF NewHeap, GotHeap
  <2>3. pc[t] = "getHeap" /\ pc'[t] \in {"malloc", "free"} /\ (block[t] # Null => pc'[t] = "free")
        /\ \A u \in Thread : u # t => pc'[u] = pc[u]
    BY <1>18 DEF NewHeap, GotHeap, HeapInv, HeapTypeOK
  <2>4. \A c \in Block : Listed(c)' => Listed(c)
    BY <2>2, <2>3 DEF Listed, Carried
  <2> QED BY <2>1, <2>2, <2>3, <2>4 DEF Undisturbed
<1>19. CASE ExtendBump(t)
  <2>1. freeList' = freeList /\ remoteList' = remoteList
    BY <1>19 DEF ExtendBump
  <2>2. \A c \in Block : Listed(c)' => Listed(c)
    BY <1>19 DEF ExtendBump, HeapInv, HeapTypeOK, BlockTypeOK, Listed, Carried, LocalInv, ClaimInv
  <2>3. \A c \in Block : Listed(c) => header'[c] = header[c]
    BY <1>19 DEF ExtendBump, HeapInv, HeapTypeOK, BlockTypeOK, Listed, Carried, LocalInv
  <2>4. \A u \in Thread : pc[u] = "split" => pc'[u] = "split" /\ block'[u] = block[u]
    BY <1>19 DEF ExtendBump, HeapInv, HeapTypeOK, BlockTypeOK
  <2> QED BY <2>1, <2>2, <2>3, <2>4 DEF Undisturbed
<1>20. CASE Waits(t)
  <2>1. /\ UNCHANGED <<lists, header, storage, held, block>>
        /\ \E l \in Label : <<pc[t], l>> \in WaitMoves /\ pc' = [pc EXCEPT ![t] = l]
    BY <1>20, WaitsMove
  <2>2. \A c \in Block : Listed(c)' => Listed(c)
    BY <2>1 DEF WaitMoves, HeapInv, HeapTypeOK, BlockTypeOK, Listed, Carried, LocalInv
  <2>3. \A u \in Thread : pc[u] = "split" => pc'[u] = "split" /\ block'[u] = block[u]
    BY <2>1 DEF WaitMoves, HeapInv, HeapTypeOK
  <2> QED BY <2>1, <2>2, <2>3 DEF Undisturbed
<1> QED BY <1>1, <1>2, <1>3, <1>4, <1>5, <1>6, <1>7, <1>8, <1>9, <1>10, <1>11, <1>12, <1>13, <1>14, <1>15, <1>16, <1>17, <1>18, <1>19, <1>20
    DEF Quiet

(* A block of a list that is still there is still on it.                    *)
LEMMA StillListed ==
  ASSUME HeapInv, BlockInv, KeptInv, Undisturbed
  PROVE  \A b \in Block : Listed(b)' => (OnFreeList(b) \/ OnRemoteList(b) \/ Pulled(b))'
<1>1. \A b : First(b) => Reach(header', b) = Chain(b)
  BY ChainFrame DEF Undisturbed
<1> SUFFICES ASSUME NEW b \in Block, Listed(b)'
             PROVE  (OnFreeList(b) \/ OnRemoteList(b) \/ Pulled(b))'
  OBVIOUS
<1>2. Listed(b)
  BY DEF Undisturbed
<1>3. CASE OnFreeList(b)
  <2>1. PICK q \in FreeHeader : b \in Chain(freeList[q])
    BY <1>3 DEF OnFreeList
  <2>2. b \in Reach(header', freeList'[q])
    BY <1>1, <2>1 DEF First, Undisturbed
  <2> QED BY <2>2 DEF OnFreeList, Chain
<1>4. CASE OnRemoteList(b)
  <2>1. PICK q \in FreeHeader : b \in Chain(remoteList[q])
    BY <1>4 DEF OnRemoteList
  <2>2. b \in Reach(header', remoteList'[q])
    BY <1>1, <2>1 DEF First, Undisturbed
  <2> QED BY <2>2 DEF OnRemoteList, Chain
<1>5. CASE Pulled(b)
  <2>1. PICK u \in Thread : pc[u] = "split" /\ b \in Chain(block[u])
    BY <1>5 DEF Pulled
  <2>2. pc'[u] = "split" /\ b \in Reach(header', block'[u])
    BY <1>1, <2>1 DEF First, Undisturbed
  <2> QED BY <2>2 DEF Pulled, Chain
<1> QED BY <1>2, <1>3, <1>4, <1>5 DEF KeptInv
(* A list whose first block is taken goes on behind it, and every other     *)
(* list is as it was.  What was taken is not listed any more.               *)
LEMMA TakenKept ==
  ASSUME BlockInv, KeptInv, NEW x \in Block, First(x), header' = header, ~Listed(x)',
         \A b \in Block : Listed(b)' => Listed(b),
         \A y : First(y) /\ y # x /\ y # Null => First(y)',
         header[x] # Null => First(header[x])'
  PROVE  \A b \in Block : Listed(b)' => \E y : First(y)' /\ b \in Reach(header', y)
<1> SUFFICES ASSUME NEW b \in Block, Listed(b)'
             PROVE  \E y : First(y)' /\ b \in Reach(header', y)
  OBVIOUS
<1>1. PICK y : First(y) /\ b \in Reach(header, y)
  BY DEF KeptInv, OnFreeList, OnRemoteList, Pulled, First, Chain
<1>2. y \in Block /\ y # Null /\ b # x
  BY <1>1, ChainListed DEF Chain
<1>3. CASE y # x
  BY <1>1, <1>2, <1>3
<1>4. CASE y = x
  <2>1. b \in Reach(header, header[x])
    BY <1>1, <1>2, <1>4, ReachUnfold
  <2>2. header[x] # Null
    BY <2>1, ReachNothing
  <2> QED BY <2>1, <2>2
<1> QED BY <1>3, <1>4

(* A block pushed on a list comes before the blocks that were on it.        *)
LEMMA PushedKept ==
  ASSUME BlockInv, KeptInv, NEW x \in Block, NEW z,
         First(x)', header'[x] = z, First(z) \/ z = Null,
         \A b \in Block : Listed(b)' => Listed(b) \/ b = x,
         \A c \in Block : Listed(c) => header'[c] = header[c],
         \A y : First(y) /\ y # z /\ y # Null => First(y)'
  PROVE  \A b \in Block : Listed(b)' => \E y : First(y)' /\ b \in Reach(header', y)
<1> SUFFICES ASSUME NEW b \in Block, Listed(b)'
             PROVE  \E y : First(y)' /\ b \in Reach(header', y)
  OBVIOUS
<1>1. Reach(header', x) = {x} \cup Reach(header', z)
  BY ReachUnfold
<1>2. CASE b = x
  BY <1>1, <1>2
<1>3. CASE b # x
  <2>1. PICK y : First(y) /\ b \in Chain(y)
    BY <1>3 DEF KeptInv, OnFreeList, OnRemoteList, Pulled, First
  <2>2. y # Null /\ b \in Reach(header', y)
    BY <2>1, ChainListed, ChainFrame
  <2> QED BY <1>1, <2>1, <2>2
<1> QED BY <1>2, <1>3

(* To be on a list is to follow a first block. *)
LEMMA FollowsFirst ==
  ASSUME NEW b, \E y : First(y)' /\ b \in Reach(header', y)
  PROVE  (OnFreeList(b) \/ OnRemoteList(b) \/ Pulled(b))'
BY DEF First, OnFreeList, OnRemoteList, Pulled, Chain

(* The other steps keep the listed blocks on a list. *)
LEMMA PopKept ==
  ASSUME HeapInv, BlockInv, BlockInv', KeptInv, NEW t \in Thread, Pop(t)
  PROVE  \A b \in Block : Listed(b)' => (OnFreeList(b) \/ OnRemoteList(b) \/ Pulled(b))'
<1> USE DEF BlockInv
<1>0. PICK x \in Block, q \in FreeHeader : x = block[t] /\ q = freeHead[t]
  BY DEF Pop, LocalInv
<1>1. /\ x = block[t] /\ freeList[q] = x
      /\ header' = header /\ block' = block /\ remoteList' = remoteList
      /\ freeList' = [freeList EXCEPT ![q] = header[x]]
      /\ fresh' = fresh /\ held' = held
      /\ pc[t] = "pop" /\ pc' = [pc EXCEPT ![t] = "home"]
  BY <1>0 DEF Pop, LocalInv, ReadsHold
<1>2. First(x)
  BY <1>1 DEF First
<1>3. ~Listed(x)'
  BY <1>1 DEF Listed, Carried, HeapInv, HeapTypeOK
<1>4. \A b \in Block : Listed(b)' => Listed(b)
  BY <1>1 DEF Listed, Carried, HeapInv, HeapTypeOK
<1>5. \A y : First(y) /\ y # x /\ y # Null => First(y)'
  BY <1>1 DEF First, BlockTypeOK, HeapInv, HeapTypeOK
<1>6. First(header[x])'
  BY <1>1 DEF First, BlockTypeOK
<1>7. \A b \in Block : Listed(b)' => \E y : First(y)' /\ b \in Reach(header', y)
  BY <1>1, <1>2, <1>3, <1>4, <1>5, <1>6, TakenKept
<1> QED BY <1>7, FollowsFirst

LEMMA SplitKept ==
  ASSUME HeapInv, BlockInv, BlockInv', KeptInv, NEW t \in Thread, Split(t)
  PROVE  \A b \in Block : Listed(b)' => (OnFreeList(b) \/ OnRemoteList(b) \/ Pulled(b))'
<1> USE DEF BlockInv
<1>0. PICK x \in Block, q \in FreeHeader : x = block[t] /\ q = freeHead[t]
  BY DEF Split, LocalInv
<1>1. /\ x = block[t] /\ freeList[q] = Null
      /\ header' = header /\ block' = block /\ remoteList' = remoteList
      /\ freeList' = [freeList EXCEPT ![q] = header[x]]
      /\ fresh' = fresh /\ held' = held
      /\ pc[t] = "split" /\ pc' = [pc EXCEPT ![t] = "home"]
  BY <1>0 DEF Split, LocalInv, KeptInv
<1>2. First(x)
  BY <1>1 DEF First
<1>3. ~Listed(x)'
  BY <1>1 DEF Listed, Carried, HeapInv, HeapTypeOK
<1>4. \A b \in Block : Listed(b)' => Listed(b)
  BY <1>1 DEF Listed, Carried, HeapInv, HeapTypeOK
<1>5. \A y : First(y) /\ y # x /\ y # Null => First(y)'
  BY <1>1 DEF First, BlockTypeOK, HeapInv, HeapTypeOK
<1>6. First(header[x])'
  BY <1>1 DEF First, BlockTypeOK
<1>7. \A b \in Block : Listed(b)' => \E y : First(y)' /\ b \in Reach(header', y)
  BY <1>1, <1>2, <1>3, <1>4, <1>5, <1>6, TakenKept
<1> QED BY <1>7, FollowsFirst

LEMMA PullKept ==
  ASSUME HeapInv, BlockInv, BlockInv', KeptInv, NEW t \in Thread, Pull(t)
  PROVE  \A b \in Block : Listed(b)' => (OnFreeList(b) \/ OnRemoteList(b) \/ Pulled(b))'
<1> USE DEF BlockInv
<1> DEFINE q == freeHead[t]
<1>1. /\ q \in FreeHeader
      /\ header' = header /\ freeList' = freeList
      /\ block' = [block EXCEPT ![t] = remoteList[q]]
      /\ remoteList' = [remoteList EXCEPT ![q] = Null]
      /\ fresh' = fresh /\ held' = held
      /\ pc[t] = "pull" /\ pc' = [pc EXCEPT ![t] = "split"]
  BY DEF Pull, LocalInv
<1>2. \A b \in Block : Listed(b)' => Listed(b)
  BY <1>1 DEF Listed, Carried, HeapInv, HeapTypeOK, BlockTypeOK
<1>3. \A y : First(y) /\ y # Null => First(y)'
  <2> SUFFICES ASSUME NEW y, First(y), y # Null PROVE First(y)'
    OBVIOUS
  <2>1. CASE \E p \in FreeHeader : y = freeList[p] \/ (p # q /\ y = remoteList[p])
    BY <1>1, <2>1 DEF First, BlockTypeOK
  <2>2. CASE y = remoteList[q]
    BY <1>1, <2>2 DEF First, BlockTypeOK, HeapInv, HeapTypeOK
  <2>3. CASE \E u \in Thread : pc[u] = "split" /\ y = block[u]
    BY <1>1, <2>3 DEF First, BlockTypeOK, HeapInv, HeapTypeOK
  <2> QED BY <2>1, <2>2, <2>3 DEF First
<1> SUFFICES ASSUME NEW b \in Block, Listed(b)'
             PROVE  \E y : First(y)' /\ b \in Reach(header', y)
  BY FollowsFirst
<1>4. PICK y : First(y) /\ b \in Chain(y)
  BY <1>2 DEF KeptInv, OnFreeList, OnRemoteList, Pulled, First
<1>5. y # Null
  BY <1>4, ChainListed
<1> QED BY <1>1, <1>3, <1>4, <1>5 DEF Chain

LEMMA PushKept ==
  ASSUME HeapInv, BlockInv, BlockInv', KeptInv, NEW t \in Thread, Push(t)
  PROVE  \A b \in Block : Listed(b)' => (OnFreeList(b) \/ OnRemoteList(b) \/ Pulled(b))'
<1> USE DEF BlockInv
<1>0. PICK x \in Block, q \in FreeHeader : x = block[t] /\ q = freeHead[t]
  BY DEF Push, LocalInv
<1>1. /\ x = block[t] /\ header[x] = freeList[q]
      /\ header' = header /\ remoteList' = remoteList
      /\ block' = [block EXCEPT ![t] = Null]
      /\ freeList' = [freeList EXCEPT ![q] = x]
      /\ fresh' = fresh /\ held' = held
      /\ pc[t] = "push" /\ pc' = [pc EXCEPT ![t] = "idle"]
  BY <1>0 DEF Push, LocalInv, ReadsHold
<1>2. First(x)'
  BY <1>1 DEF First, BlockTypeOK
<1>3. First(freeList[q])
  BY <1>1 DEF First
<1>4. \A b \in Block : Listed(b)' => Listed(b) \/ b = x
  BY <1>1 DEF Listed, Carried, HeapInv, HeapTypeOK, BlockTypeOK
<1>5. \A y : First(y) /\ y # freeList[q] /\ y # Null => First(y)'
  BY <1>1 DEF First, BlockTypeOK, HeapInv, HeapTypeOK
<1>7. \A b \in Block : Listed(b)' => \E y : First(y)' /\ b \in Reach(header', y)
  BY <1>1, <1>2, <1>3, <1>4, <1>5, PushedKept
<1> QED BY <1>7, FollowsFirst

LEMMA RemotePushKept ==
  ASSUME HeapInv, BlockInv, BlockInv', KeptInv, NEW t \in Thread, RemotePush(t)
  PROVE  \A b \in Block : Listed(b)' => (OnFreeList(b) \/ OnRemoteList(b) \/ Pulled(b))'
<1> USE DEF BlockInv
<1>0. PICK x \in Block, q \in FreeHeader : x = block[t] /\ q = freeHead[t]
  BY DEF RemotePush, LocalInv
<1>1. /\ x = block[t] /\ header[x] = remoteList[q]
      /\ header' = header /\ freeList' = freeList
      /\ block' = [block EXCEPT ![t] = Null]
      /\ remoteList' = [remoteList EXCEPT ![q] = x]
      /\ fresh' = fresh /\ held' = held
      /\ pc[t] = "cas" /\ pc' = [pc EXCEPT ![t] = "idle"]
  BY <1>0 DEF RemotePush, LocalInv
<1>2. First(x)'
  BY <1>1 DEF First, BlockTypeOK
<1>3. First(remoteList[q])
  BY <1>1 DEF First
<1>4. \A b \in Block : Listed(b)' => Listed(b) \/ b = x
  BY <1>1 DEF Listed, Carried, HeapInv, HeapTypeOK, BlockTypeOK
<1>5. \A y : First(y) /\ y # remoteList[q] /\ y # Null => First(y)'
  BY <1>1 DEF First, BlockTypeOK, HeapInv, HeapTypeOK
<1>7. \A b \in Block : Listed(b)' => \E y : First(y)' /\ b \in Reach(header', y)
  BY <1>1, <1>2, <1>3, <1>4, <1>5, PushedKept
<1> QED BY <1>7, FollowsFirst

LEMMA ExtendFragmentKept ==
  ASSUME HeapInv, BlockInv, BlockInv', KeptInv, NEW t \in Thread, ExtendFragment(t)
  PROVE  \A b \in Block : Listed(b)' => (OnFreeList(b) \/ OnRemoteList(b) \/ Pulled(b))'
<1> USE DEF BlockInv
<1>1. PICK a, x \in fresh, j \in Bucket :
        /\ a # x
        /\ fresh' = fresh \ {a, x}
        /\ block' = [block EXCEPT ![t] = a]
        /\ header' = [header EXCEPT ![x] = freeList[<<heapManager[t], j>>]]
        /\ freeList' = [freeList EXCEPT ![<<heapManager[t], j>>] = x]
  BY DEF ExtendFragment
<1> DEFINE q == <<heapManager[t], j>>
<1>2. /\ q \in FreeHeader /\ a \in Block /\ x \in Block
      /\ header' = [header EXCEPT ![x] = freeList[q]]
      /\ freeList' = [freeList EXCEPT ![q] = x]
      /\ remoteList' = remoteList /\ held' = held
      /\ pc[t] = "map" /\ pc' = [pc EXCEPT ![t] = "home"]
  BY <1>1 DEF ExtendFragment, LocalInv, FreeHeader, BlockTypeOK
<1> HIDE DEF q
<1>3. First(x)' /\ First(freeList[q]) /\ header'[x] = freeList[q]
  BY <1>2 DEF First, BlockTypeOK
<1>4. \A b \in Block : Listed(b)' => Listed(b) \/ b = x
  BY <1>1, <1>2 DEF Listed, Carried, HeapInv, HeapTypeOK, BlockTypeOK
<1>5. \A y : First(y) /\ y # freeList[q] /\ y # Null => First(y)'
  <2> SUFFICES ASSUME NEW y, First(y), y # freeList[q], y # Null PROVE First(y)'
    OBVIOUS
  <2>1. CASE \E p \in FreeHeader : y = remoteList[p] \/ (p # q /\ y = freeList[p])
    BY <1>2, <2>1 DEF First, BlockTypeOK
  <2>2. CASE \E u \in Thread : pc[u] = "split" /\ y = block[u]
    BY <1>1, <1>2, <2>2 DEF First, BlockTypeOK, HeapInv, HeapTypeOK
  <2> QED BY <2>1, <2>2 DEF First
<1>6. \A c \in Block : Listed(c) => header'[c] = header[c]
  BY <1>1, <1>2 DEF Listed, BlockTypeOK
<1>7. \A b \in Block : Listed(b)' => \E y : First(y)' /\ b \in Reach(header', y)
  BY <1>2, <1>3, <1>4, <1>5, <1>6, PushedKept
<1> QED BY <1>7, FollowsFirst

(* The steps that are not quiet. *)
Moving(t) ==
  Pop(t) \/ Pull(t) \/ Split(t) \/ ExtendFragment(t) \/ Push(t) \/ RemotePush(t)

(* The heap of a thread inside the allocator is not in the superblock.      *)
LEMMA HeapInUse ==
  ASSUME HeapInv, NEW t \in Thread, pc[t] # "idle"
  PROVE  heapManager[t] \notin heapStorage
BY DEF HeapInv

(* No list and no block belongs to a heap that was never given out.         *)
LEMMA StorageKept ==
  ASSUME HeapInv, BlockInv, KeptInv, NEW t \in Thread, Quiet(t) \/ Moving(t)
  PROVE  /\ \A q \in FreeHeader : q[1] \in heapStorage' => freeList'[q] = Null /\ remoteList'[q] = Null
         /\ \A b \in Block : cut'[b] # Null => cut'[b] \in FreeHeader /\ cut'[b][1] \notin heapStorage'
<1> USE DEF BlockInv
<1>1. CASE Quiet(t)
  <2>1. freeList' = freeList /\ remoteList' = remoteList
    BY <1>1, QuietUndisturbed DEF Undisturbed
  <2>2. heapStorage' \subseteq heapStorage
    <3>1. Waits(t) => heapStorage' = heapStorage
      BY WaitsMove DEF heaps
    <3>2. Fails(t) => heapStorage' = heapStorage
      BY DEF Fails, ExtendFails, MapFails
    <3>3. CASE ~Waits(t) /\ ~Fails(t)
      BY <1>1, <3>3 DEF Quiet, ThreadCreate, HeapManagerDtor, ThreadEnd, ReuseHeap, NewHeap,
         ReadFreeList, TestRemote, Bump, ExtendBump, SetHome, MapLarge, ReadHome, Link,
         RemoteLink, RemoteRetry, Unmap, CallMalloc, CallFree
    <3> QED BY <3>1, <3>2, <3>3
  <2>3. \A b \in Block : cut'[b] \in {cut[b], freeHead[t]} /\ (cut'[b] = cut[b] \/ pc[t] \in {"bump", "map"})
    <3>1. CASE Bump(t) \/ ExtendBump(t)
      BY <3>1 DEF Bump, ExtendBump, BlockTypeOK
    <3>2. CASE Waits(t) \/ Fails(t)
      BY <3>2, WaitsMove DEF Fails, ExtendFails, MapFails
    <3>3. CASE ~Bump(t) /\ ~ExtendBump(t) /\ ~Waits(t) /\ ~Fails(t)
      BY <1>1, <3>3 DEF Quiet, ThreadCreate, HeapManagerDtor, ThreadEnd, ReuseHeap, NewHeap, GotHeap,
         ReadFreeList, TestRemote, SetHome, MapLarge, ReadHome, Link, RemoteLink,
         RemoteRetry, Unmap, CallMalloc, CallFree
    <3> QED BY <3>1, <3>2, <3>3
  <2>4. pc[t] \in {"bump", "map"} => freeHead[t] \in FreeHeader /\ freeHead[t][1] \notin heapStorage
    BY HeapInUse DEF LocalInv
  <2> QED BY <2>1, <2>2, <2>3, <2>4 DEF KeptInv
<1>2. CASE Pop(t) \/ Split(t) \/ Push(t)
  <2>1. /\ heapStorage' = heapStorage /\ cut' = cut /\ remoteList' = remoteList
        /\ freeHead[t] \in FreeHeader /\ freeHead[t][1] \notin heapStorage
        /\ \A q \in FreeHeader : q # freeHead[t] => freeList'[q] = freeList[q]
    BY <1>2, HeapInUse DEF Pop, Split, Push, LocalInv, BlockTypeOK
  <2> QED BY <2>1 DEF KeptInv
<1>3. CASE Pull(t)
  <2>1. /\ heapStorage' = heapStorage /\ cut' = cut /\ freeList' = freeList
        /\ \A q \in FreeHeader : remoteList'[q] \in {remoteList[q], Null}
    BY <1>3 DEF Pull, BlockTypeOK
  <2> QED BY <2>1 DEF KeptInv
<1>4. CASE RemotePush(t)
  <2>1. /\ freeHead[t] \in FreeHeader /\ block[t] \in Block /\ cut[block[t]] = freeHead[t]
        /\ freeHead[t] # Null
    BY <1>4 DEF RemotePush, LocalInv, FreeHeader
  <2>2. /\ heapStorage' = heapStorage /\ cut' = cut /\ freeList' = freeList
        /\ freeHead[t][1] \notin heapStorage
        /\ \A q \in FreeHeader : q # freeHead[t] => remoteList'[q] = remoteList[q]
    BY <1>4, <2>1 DEF RemotePush, KeptInv, BlockTypeOK
  <2> QED BY <2>1, <2>2 DEF KeptInv
<1>5. CASE ExtendFragment(t)
  <2>1. PICK a, x \in fresh, j \in Bucket :
          /\ cut' = [cut EXCEPT ![a] = freeHead[t], ![x] = <<heapManager[t], j>>]
          /\ freeList' = [freeList EXCEPT ![<<heapManager[t], j>>] = x]
    BY <1>5 DEF ExtendFragment
  <2> DEFINE q == <<heapManager[t], j>>
  <2>2. /\ q \in FreeHeader /\ q[1] \notin heapStorage
        /\ freeHead[t] \in FreeHeader /\ freeHead[t][1] \notin heapStorage
        /\ heapStorage' = heapStorage /\ remoteList' = remoteList
    BY <1>5, HeapInUse DEF ExtendFragment, LocalInv, FreeHeader
  <2>3. /\ \A b \in Block : cut'[b] \in {cut[b], freeHead[t], q}
        /\ \A p \in FreeHeader : p # q => freeList'[p] = freeList[p]
    BY <2>1 DEF BlockTypeOK
  <2> HIDE DEF q
  <2> QED BY <2>2, <2>3 DEF KeptInv
<1> QED BY <1>1, <1>2, <1>3, <1>4, <1>5 DEF Moving

(* A free list found empty stays empty until what was pulled replaces it.   *)
LEMMA EmptyKept ==
  ASSUME HeapInv, BlockInv, KeptInv, NEW t \in Thread, Quiet(t) \/ Moving(t)
  PROVE  \A u \in Thread : pc'[u] \in {"remote", "pull", "split"} => freeList'[freeHead'[u]] = Null
<1> USE DEF BlockInv
<1>1. CASE Quiet(t)
  <2>1. freeList' = freeList
    BY <1>1, QuietUndisturbed DEF Undisturbed
  <2>2. \A u \in Thread : pc'[u] \in {"remote", "pull", "split"} =>
          \/ pc[u] \in {"remote", "pull", "split"} /\ freeHead'[u] = freeHead[u]
          \/ freeList[freeHead'[u]] = Null
    <3>1. pc \in [Thread -> Label] /\ freeHead \in [Thread -> FreeHeader \cup {Null}]
      BY DEF HeapInv, HeapTypeOK, BlockTypeOK
    <3>2. CASE ReadFreeList(t) \/ TestRemote(t)
      BY <3>1, <3>2 DEF ReadFreeList, TestRemote
    <3>3. CASE Waits(t)
      BY <3>1, <3>3, WaitsMove DEF WaitMoves
    <3>4. CASE Fails(t)
      BY <3>1, <3>4 DEF Fails, ExtendFails, MapFails
    <3>5. CASE ~(ReadFreeList(t) \/ TestRemote(t)) /\ ~Waits(t) /\ ~Fails(t)
      BY <1>1, <3>1, <3>5 DEF Quiet, ThreadCreate, HeapManagerDtor, ThreadEnd, ReuseHeap, NewHeap,
         GotHeap, Bump, ExtendBump, SetHome, MapLarge, ReadHome, Link, RemoteLink, RemoteRetry,
         Unmap, CallMalloc, CallFree
    <3> QED BY <3>2, <3>3, <3>4, <3>5
  <2> QED BY <2>1, <2>2 DEF KeptInv
<1>2. CASE Moving(t)
  <2>1. /\ pc[t] \notin {"idle", "boot", "getHeap", "dtor"} /\ pc'[t] \notin {"remote", "pull"}
        /\ pc'[t] = "split" => Pull(t)
        /\ \A u \in Thread : u # t => pc'[u] = pc[u] /\ freeHead'[u] = freeHead[u]
    BY <1>2 DEF Moving, Pop, Pull, Split, ExtendFragment, Push, RemotePush, HeapInv, HeapTypeOK,
       BlockTypeOK
  <2>2. Pull(t) \/ RemotePush(t) => freeList' = freeList /\ freeHead'[t] \in {freeHead[t], Null}
    BY DEF Pull, RemotePush, BlockTypeOK
  <2>3. Pull(t) => freeHead' = freeHead /\ pc[t] = "pull"
    BY DEF Pull
  <2>4. \A u \in Thread : u # t /\ pc[u] \in {"remote", "pull", "split"} =>
          freeList'[freeHead[u]] = freeList[freeHead[u]]
    <3> SUFFICES ASSUME NEW u \in Thread, u # t, pc[u] \in {"remote", "pull", "split"}
                 PROVE  freeList'[freeHead[u]] = freeList[freeHead[u]]
      OBVIOUS
    <3>1. freeHead[u] \in FreeHeader /\ freeHead[u][1] = heapManager[u]
      BY DEF LocalInv
    <3>2. CASE Pop(t) \/ Split(t) \/ Push(t)
      <4>1. freeHead[t] \in FreeHeader /\ freeHead[t][1] = heapManager[t]
        BY <3>2 DEF Pop, Split, Push, LocalInv
      <4>2. freeHead[t] # freeHead[u]
        BY <2>1, <3>1, <4>1, OwnLists DEF FreeHeader
      <4> QED BY <3>1, <3>2, <4>1, <4>2 DEF Pop, Split, Push, BlockTypeOK
    <3>3. CASE ExtendFragment(t)
      <4>1. PICK x \in fresh, j \in Bucket : freeList' = [freeList EXCEPT ![<<heapManager[t], j>>] = x]
        BY <3>3 DEF ExtendFragment
      <4>2. freeHead[t] \in FreeHeader /\ freeHead[t][1] = heapManager[t]
        BY <3>3 DEF ExtendFragment, LocalInv
      <4>3. <<heapManager[t], j>> # freeHead[u]
        BY <2>1, <3>1, <4>2, OwnLists DEF FreeHeader
      <4> QED BY <3>1, <4>1, <4>3 DEF BlockTypeOK
    <3> QED BY <1>2, <2>2, <3>2, <3>3 DEF Moving
  <2> QED BY <2>1, <2>2, <2>3, <2>4 DEF KeptInv
<1> QED BY <1>1, <1>2

(* Every step keeps the blocks. *)
LEMMA KeptStep ==
  ASSUME HeapInv, BlockInv, BlockInv', KeptInv, [Next]_vars
  PROVE  KeptInv'
<1>1. CASE UNCHANGED vars
  BY <1>1 DEF vars, KeptInv, Listed, Carried, OnFreeList, OnRemoteList, Pulled, Chain
<1>2. ASSUME Next PROVE KeptInv'
  <2>0. PICK t \in Thread :
          \/ ReuseHeap(t) \/ NewHeap(t) \/ HeapManagerDtor(t)
          \/ Waits(t) \/ Fails(t) \/ Works(t)
          \/ ThreadCreate(t) \/ ThreadEnd(t)
          \/ \E k \in Bucket \cup {Large} : CallMalloc(t, k)
          \/ \E b \in Block : CallFree(t, b)
    BY <1>2, NextKinds
  <2>1. Quiet(t) \/ Moving(t)
    BY <2>0 DEF Works, Free, Quiet, Moving
  <2>2. \A b \in Block : Listed(b)' => (OnFreeList(b) \/ OnRemoteList(b) \/ Pulled(b))'
    <3>1. CASE Quiet(t)
      BY <3>1, QuietUndisturbed, StillListed
    <3>2. CASE Moving(t)
      BY <3>2, PopKept, PullKept, SplitKept, ExtendFragmentKept, PushKept, RemotePushKept DEF Moving
    <3> QED BY <2>1, <3>1, <3>2
  <2> QED BY <2>1, <2>2, StorageKept, EmptyKept DEF KeptInv
<1> QED BY <1>1, <1>2

(* No block is lost and none is in two places, whatever threads free, pull  *)
(* and allocate at the same time, with whatever failures: it is fresh, or   *)
(* the program's, or with one thread, or once on one list.                  *)
THEOREM NoBlockLost == ~PostDtorCalls /\ Spec => []BlocksConserved
<1> SUFFICES ASSUME ~PostDtorCalls PROVE Spec => []BlocksConserved
  OBVIOUS
<1>1. Init => KeptInv
  BY DEF Init, KeptInv, Listed, FreeHeader
<1>2. HeapInv /\ BlockInv /\ BlockInv' /\ KeptInv /\ [Next]_vars => KeptInv'
  BY KeptStep
<1>3. BlockInv /\ KeptInv => BlocksConserved
  BY KeptConserved
<1> QED BY <1>1, <1>2, <1>3, CoreInvariant, PTL DEF Spec

(* Storage goes back to the heap and the bucket it was cut for, whichever   *)
(* thread frees it and however it gets back there.                          *)
THEOREM OwnershipStays == ~PostDtorCalls /\ Spec => []OwnershipKept
<1> SUFFICES ASSUME ~PostDtorCalls PROVE Spec => []OwnershipKept
  OBVIOUS
<1>1. BlockInv => OwnershipKept
  BY BlockInvOwnership
<1> QED BY <1>1, CoreInvariant, PTL
-------------------------------------------------------------------------------
(* Freeing is one way of carrying. *)
LEMMA FreeingIsCarried ==
  \A t \in Thread : \A b \in Block :
    /\ Freeing(t, b) => Carried(t, b)
    /\ (Freeing(t, b) => Carried(t, b))'
BY DEF Freeing, Carried

(* The owner of a block in a state where the blocks are kept apart, *)
LEMMA OwnerIs ==
  ASSUME ClaimInv
  PROVE  /\ Owner = [b \in Block |-> Owner[b]]
         /\ \A b \in Block :
              /\ b \in held => Owner[b] = Program
              /\ \A t \in Thread : Freeing(t, b) => Owner[b] = t /\ b \notin held
              /\ b \notin held /\ (\A t \in Thread : ~Freeing(t, b)) => Owner[b] = Allocator
<1>1. Owner = [b \in Block |-> Owner[b]]
  BY DEF Owner
<1>2. ASSUME NEW b \in Block, NEW t \in Thread, Freeing(t, b)
      PROVE  Owner[b] = t /\ b \notin held
  <2>1. b \notin held
    BY <1>2, FreeingIsCarried DEF ClaimInv
  <2>2. \A u \in Thread : Freeing(u, b) => u = t
    BY <1>2, FreeingIsCarried DEF ClaimInv
  <2>3. (CHOOSE u \in Thread : Freeing(u, b)) = t
    BY <1>2, <2>2
  <2> QED BY <1>2, <2>1, <2>3 DEF Owner
<1> QED BY <1>1, <1>2 DEF Owner

(* and in the next state. *)
LEMMA OwnerWillBe ==
  ASSUME ClaimInv'
  PROVE  /\ Owner' = [b \in Block |-> Owner'[b]]
         /\ \A b \in Block :
              /\ b \in held' => Owner'[b] = Program
              /\ \A t \in Thread : Freeing(t, b)' => Owner'[b] = t /\ b \notin held'
              /\ b \notin held' /\ (\A t \in Thread : ~Freeing(t, b)') => Owner'[b] = Allocator
<1>1. Owner' = [b \in Block |-> Owner'[b]]
  BY DEF Owner
<1>2. ASSUME NEW b \in Block, NEW t \in Thread, Freeing(t, b)'
      PROVE  Owner'[b] = t /\ b \notin held'
  <2>1. b \notin held'
    BY <1>2, FreeingIsCarried DEF ClaimInv
  <2>2. \A u \in Thread : Freeing(u, b)' => u = t
    BY <1>2, FreeingIsCarried DEF ClaimInv
  <2>3. (CHOOSE u \in Thread : Freeing(u, b)') = t
    BY <1>2, <2>2
  <2> QED BY <1>2, <2>1, <2>3 DEF Owner
<1> QED BY <1>1, <1>2 DEF Owner

(* The owner of a block changes only with held and Freeing. *)
LEMMA SameOwner ==
  ASSUME ClaimInv, ClaimInv', NEW b \in Block, b \in held' <=> b \in held,
         \A t \in Thread : Freeing(t, b)' <=> Freeing(t, b)
  PROVE  Owner'[b] = Owner[b]
BY OwnerIs, OwnerWillBe

(* A step that changes neither is a stutter. *)
LEMMA Stutter ==
  ASSUME ClaimInv, ClaimInv', held' = held,
         \A b \in Block : \A t \in Thread : Freeing(t, b)' <=> Freeing(t, b)
  PROVE  Owner' = Owner
<1>1. \A b \in Block : Owner'[b] = Owner[b]
  BY SameOwner
<1> QED BY <1>1, OwnerIs, OwnerWillBe

(* A step that changes them for one block changes the owner of that block. *)
LEMMA OneOwner ==
  ASSUME ClaimInv, ClaimInv', NEW c \in Block, NEW o, Owner'[c] = o,
         \A b \in Block \ {c} : b \in held' <=> b \in held,
         \A b \in Block \ {c} : \A t \in Thread : Freeing(t, b)' <=> Freeing(t, b)
  PROVE  Owner' = [Owner EXCEPT ![c] = o]
<1>1. \A b \in Block \ {c} : Owner'[b] = Owner[b]
  BY SameOwner
<1> QED BY <1>1, OwnerIs, OwnerWillBe
-------------------------------------------------------------------------------
(* malloc returns b. *)
LEMMA HandStep ==
  ASSUME HeapInv, BlockInv, BlockInv', NEW t \in Thread, SetHome(t) \/ MapLarge(t)
  PROVE  \E b \in Block : Ledger!Hand(b)
<1>1. ClaimInv /\ ClaimInv'
  BY DEF BlockInv
<1>2. PICK b \in Block :
        /\ b \notin held /\ held' = held \cup {b}
        /\ \A u \in Thread : ~Freeing(u, b) /\ ~Freeing(u, b)'
        /\ \A c \in Block \ {b} : \A u \in Thread : Freeing(u, c)' <=> Freeing(u, c)
  <2>1. CASE SetHome(t)
    <3>1. block[t] \in Block /\ Carried(t, block[t])
      BY <2>1 DEF SetHome, BlockInv, LocalInv, Carried
    <3>2. block[t] \notin held /\ \A u \in Thread : u # t => ~Carried(u, block[t])
      BY <3>1, <1>1 DEF ClaimInv
    <3>3. /\ pc' = [pc EXCEPT ![t] = "idle"]
          /\ block' = [block EXCEPT ![t] = Null]
          /\ held' = held \cup {block[t]}
          /\ pc[t] = "home"
      BY <2>1 DEF SetHome
    <3>4. pc \in [Thread -> Label] /\ block \in [Thread -> Block \cup {Null}]
      BY DEF HeapInv, HeapTypeOK, BlockInv, BlockTypeOK
    <3> QED BY <3>1, <3>2, <3>3, <3>4, FreeingIsCarried DEF Freeing
  <2>2. CASE MapLarge(t)
    <3>1. PICK b \in fresh : held' = held \cup {b}
      BY <2>2 DEF MapLarge
    <3>2. b \in Block /\ b \notin held /\ \A u \in Thread : ~Carried(u, b)
      BY <3>1, <1>1 DEF BlockInv, BlockTypeOK, ClaimInv
    <3>3. /\ pc' = [pc EXCEPT ![t] = "idle"]
          /\ block' = [block EXCEPT ![t] = Null]
          /\ pc[t] = "malloc"
      BY <2>2 DEF MapLarge
    <3>4. pc \in [Thread -> Label] /\ block \in [Thread -> Block \cup {Null}]
      BY DEF HeapInv, HeapTypeOK, BlockInv, BlockTypeOK
    <3> QED BY <3>1, <3>2, <3>3, <3>4, FreeingIsCarried DEF Freeing
  <2> QED BY <2>1, <2>2
<1>3. Owner[b] = Allocator
  BY <1>1, <1>2, OwnerIs
<1>4. Owner'[b] = Program
  BY <1>1, <1>2, OwnerWillBe
<1>5. Owner' = [Owner EXCEPT ![b] = Program]
  BY <1>1, <1>2, <1>4, OneOwner
<1> QED BY <1>3, <1>5 DEF Ledger!Hand

(* free(b) is called. *)
LEMMA ReleaseStep ==
  ASSUME HeapInv, BlockInv, BlockInv', NEW t \in Thread, NEW b \in Block, CallFree(t, b)
  PROVE  Ledger!Release(t, b)
<1>1. ClaimInv /\ ClaimInv'
  BY DEF BlockInv
<1>2. /\ pc[t] = "idle" /\ b \in held /\ held' = held \ {b}
      /\ pc' \in [Thread -> Label] /\ pc'[t] \in {"boot", "free"}
      /\ \A u \in Thread : u # t => pc'[u] = pc[u]
      /\ block' = [block EXCEPT ![t] = b]
      /\ block \in [Thread -> Block \cup {Null}]
  BY DEF CallFree, MayCall, HeapInv, HeapTypeOK, Label, BlockInv, BlockTypeOK
<1>3. Freeing(t, b)' /\ \A u \in Thread : ~Freeing(u, b)
  <2>1. Freeing(t, b)'
    BY <1>2 DEF Freeing
  <2>2. \A u \in Thread : ~Freeing(u, b)
    BY <1>1, <1>2, FreeingIsCarried DEF ClaimInv
  <2> QED BY <2>1, <2>2
<1>4. \A c \in Block \ {b} : \A u \in Thread : Freeing(u, c)' <=> Freeing(u, c)
  BY <1>2 DEF Freeing
<1>5. \A c \in Block : Owner[c] # t
  <2>1. \A c \in Block : ~Freeing(t, c)
    BY <1>2 DEF Freeing
  <2>2. \A c \in Block : \A u \in Thread : Freeing(u, c) => Owner[c] = u
    BY <1>1, OwnerIs
  <2> QED BY <1>1, <2>1, <2>2, OwnerIs, OwnerAssumption DEF OwnerAssumption
<1>6. Owner[b] = Program
  BY <1>1, <1>2, OwnerIs
<1>7. Owner'[b] = t
  BY <1>1, <1>3, OwnerWillBe
<1>8. Owner' = [Owner EXCEPT ![b] = t]
  BY <1>1, <1>2, <1>4, <1>7, OneOwner
<1> QED BY <1>5, <1>6, <1>8 DEF Ledger!Release

(* free(b) has put b back. *)
LEMMA AcceptStep ==
  ASSUME HeapInv, BlockInv, BlockInv', NEW t \in Thread,
         Push(t) \/ RemotePush(t) \/ Unmap(t)
  PROVE  \E b \in Block : Ledger!Accept(t, b)
<1>1. ClaimInv /\ ClaimInv'
  BY DEF BlockInv
<1>2. /\ held' = held /\ pc[t] \in {"push", "cas", "free"}
      /\ pc' = [pc EXCEPT ![t] = "idle"]
      /\ block' = [block EXCEPT ![t] = Null]
  BY DEF Push, RemotePush, Unmap
<1>3. pc \in [Thread -> Label] /\ block \in [Thread -> Block \cup {Null}]
  BY DEF HeapInv, HeapTypeOK, BlockInv, BlockTypeOK
<1>4. PICK b \in Block : b = block[t] /\ Freeing(t, b)
  BY <1>2 DEF BlockInv, LocalInv, Freeing
<1>5. b \notin held /\ \A u \in Thread : ~Freeing(u, b)'
  <2>1. b \notin held /\ \A u \in Thread : u # t => ~Freeing(u, b)
    BY <1>1, <1>4, FreeingIsCarried DEF ClaimInv
  <2> QED BY <1>2, <1>3, <2>1 DEF Freeing
<1>6. \A c \in Block \ {b} : \A u \in Thread : Freeing(u, c)' <=> Freeing(u, c)
  BY <1>2, <1>3, <1>4 DEF Freeing
<1>7. Owner[b] = t
  BY <1>1, <1>4, OwnerIs
<1>8. Owner'[b] = Allocator
  BY <1>1, <1>2, <1>5, OwnerWillBe
<1>9. Owner' = [Owner EXCEPT ![b] = Allocator]
  BY <1>1, <1>2, <1>6, <1>8, OneOwner
<1> QED BY <1>7, <1>9 DEF Ledger!Accept

(* The other steps are not seen by the program. *)
Silent(t) ==
  \/ ThreadCreate(t) \/ HeapManagerDtor(t) \/ ThreadEnd(t)
  \/ ReuseHeap(t) \/ NewHeap(t)
  \/ ReadFreeList(t) \/ Pop(t) \/ TestRemote(t) \/ Pull(t) \/ Split(t)
  \/ Bump(t) \/ ExtendBump(t) \/ ExtendFragment(t) \/ Waits(t) \/ Fails(t)
  \/ ReadHome(t) \/ Link(t) \/ RemoteLink(t) \/ RemoteRetry(t)
  \/ \E k \in Bucket \cup {Large} : CallMalloc(t, k)

LEMMA SilentStep ==
  ASSUME HeapInv, BlockInv, BlockInv', NEW t \in Thread, Silent(t)
  PROVE  Owner' = Owner
<1>1. ClaimInv /\ ClaimInv'
  BY DEF BlockInv
<1>2. held' = held
  <2>1. Waits(t) \/ Fails(t) => held' = held
    BY WaitsMove DEF Fails, ExtendFails, MapFails
  <2>2. CASE ~Waits(t) /\ ~Fails(t)
    BY <2>2 DEF Silent, ThreadCreate, HeapManagerDtor, ThreadEnd, ReuseHeap, NewHeap, GotHeap,
       ReadFreeList, Pop, TestRemote, Pull, Split, Bump, ExtendBump, ExtendFragment, ReadHome,
       Link, RemoteLink, RemoteRetry, CallMalloc
  <2> QED BY <2>1, <2>2
<1>3. \A b \in Block : \A u \in Thread : Freeing(u, b)' <=> Freeing(u, b)
  <2>1. pc \in [Thread -> Label] /\ block \in [Thread -> Block \cup {Null}]
    BY DEF HeapInv, HeapTypeOK, BlockInv, BlockTypeOK
  <2>2. CASE ThreadCreate(t) \/ ThreadEnd(t) \/ RemoteRetry(t)
    BY <2>2 DEF ThreadCreate, ThreadEnd, RemoteRetry, Freeing
  <2>3. CASE ReuseHeap(t) \/ NewHeap(t)
    BY <2>1, <2>3, ConstAssumption
    DEF ReuseHeap, NewHeap, GotHeap, Freeing, ConstAssumption
  <2>4. CASE ReadFreeList(t) \/ Pop(t) \/ TestRemote(t) \/ Pull(t) \/ Split(t)
    BY <2>1, <2>4 DEF ReadFreeList, Pop, TestRemote, Pull, Split, Freeing
  <2>5. CASE Bump(t) \/ ExtendBump(t) \/ ExtendFragment(t)
    BY <2>1, <2>5 DEF Bump, ExtendBump, ExtendFragment, Freeing
  <2>8. CASE Fails(t)
    BY <2>1, <2>8 DEF Fails, ExtendFails, MapFails, BlockInv, LocalInv, Freeing
  <2>9. CASE HeapManagerDtor(t)
    BY <2>1, <2>9 DEF HeapManagerDtor, Freeing
  <2>10. CASE Waits(t)
    <3>1. /\ block' = block
          /\ \E l \in Label : <<pc[t], l>> \in WaitMoves /\ pc' = [pc EXCEPT ![t] = l]
      BY <2>10, WaitsMove
    <3>2. pc[t] = "idle" => block[t] = Null
      BY DEF BlockInv, LocalInv
    <3> QED BY <2>1, <3>1, <3>2, ConstAssumption DEF WaitMoves, Freeing, ConstAssumption
  <2>6. CASE ReadHome(t) \/ Link(t) \/ RemoteLink(t)
    BY <2>1, <2>6 DEF ReadHome, Link, RemoteLink, Freeing
  <2>7. CASE \E k \in Bucket \cup {Large} : CallMalloc(t, k)
    <3>1. block[t] = Null /\ pc[t] = "idle" /\ block' = block
      BY <2>7 DEF CallMalloc, MayCall, BlockInv, LocalInv
    <3>2. \A u \in Thread : u # t => pc'[u] = pc[u]
      BY <2>1, <2>7 DEF CallMalloc
    <3> QED BY <3>1, <3>2, ConstAssumption DEF Freeing, ConstAssumption
  <2> QED BY <2>2, <2>3, <2>4, <2>5, <2>6, <2>7, <2>8, <2>9, <2>10 DEF Silent
<1> QED BY <1>1, <1>2, <1>3, Stutter

(* Every step of the allocator is a step of the ledger or a stutter. *)
LEMMA LedgerStep ==
  ASSUME HeapInv, BlockInv, BlockInv', [Next]_vars
  PROVE  [Ledger!Next]_Owner
<1>1. CASE UNCHANGED vars
  <2>1. Owner' = Owner
    BY <1>1 DEF vars, Owner, Freeing
  <2> QED BY <2>1
<1>2. ASSUME Next PROVE [Ledger!Next]_Owner
  <2>0. PICK t \in Thread :
          \/ ReuseHeap(t) \/ NewHeap(t) \/ HeapManagerDtor(t)
          \/ Waits(t) \/ Fails(t) \/ Works(t)
          \/ ThreadCreate(t) \/ ThreadEnd(t)
          \/ \E k \in Bucket \cup {Large} : CallMalloc(t, k)
          \/ \E b \in Block : CallFree(t, b)
    BY <1>2, NextKinds
  <2>1. \/ Silent(t)
        \/ SetHome(t) \/ MapLarge(t)
        \/ Push(t) \/ RemotePush(t) \/ Unmap(t)
        \/ \E b \in Block : CallFree(t, b)
    BY <2>0 DEF Works, Free, Silent
  <2>2. CASE Silent(t)
    BY <2>2, SilentStep
  <2>3. CASE SetHome(t) \/ MapLarge(t)
    BY <2>3, HandStep DEF Ledger!Next
  <2>4. CASE Push(t) \/ RemotePush(t) \/ Unmap(t)
    BY <2>4, AcceptStep DEF Ledger!Next
  <2>5. CASE \E b \in Block : CallFree(t, b)
    BY <2>5, ReleaseStep DEF Ledger!Next
  <2> QED BY <2>1, <2>2, <2>3, <2>4, <2>5
<1> QED BY <1>1, <1>2

(* malloc never hands out a block that the program holds or that a thread   *)
(* is freeing, whatever the interleaving of local and remote frees, pulls   *)
(* of remote lists, and threads that end and start.                         *)
THEOREM Refinement == ~PostDtorCalls /\ Spec => KeepsLedger
<1> SUFFICES ASSUME ~PostDtorCalls PROVE Spec => KeepsLedger
  OBVIOUS
<1>1. Init => Ledger!Init
  BY DEF Init, Ledger!Init, Owner, Freeing
<1>2. HeapInv /\ BlockInv /\ (HeapInv /\ BlockInv)' /\ [Next]_vars => [Ledger!Next]_Owner
  BY LedgerStep
<1> QED BY <1>1, <1>2, CoreInvariant, PTL DEF Spec, KeepsLedger, Ledger!Spec
===============================================================================
