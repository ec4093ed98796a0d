----------------------------- MODULE MasterProofs -----------------------------
(***************************************************************************)
(* What Master promises, for any number of threads, heaps of a superblock, *)
(* calls, reports and starts: no heap is lost, the lock is not waited for  *)
(* by its holder, the counters agree, and what is added up over the list   *)
(* of heaps is what happened.                                              *)
(***************************************************************************)
EXTENDS Master, FiniteSetTheorems, NaturalsInduction, WellFoundedInduction, TLAPS

(* A set of naturals with 0 and with the successor of each member has all. *)
LEMMA Induct ==
  ASSUME NEW T, 0 \in T, \A n \in Nat : n \in T => n + 1 \in T
  PROVE  \A n \in Nat : n \in T
<1> DEFINE U == Nat \ T
           R == OpToRel(<, Nat)
<1>1. IsWellFoundedOn(R, Nat)
  BY NatLessThanWellFounded
<1>2. SUFFICES ASSUME U # {} PROVE FALSE
  OBVIOUS
<1> HIDE DEF R
<1>3. PICK m \in U : \A y \in U : <<y, m>> \notin R
  BY <1>1, <1>2, WFMin
<1>4. \A y \in U : ~ (y < m)
  BY <1>3 DEF R, OpToRel
<1>5. m # 0 /\ m - 1 \in Nat /\ m - 1 < m
  OBVIOUS
<1>6. m - 1 \in T
  BY <1>4, <1>5
<1>7. m - 1 + 1 = m
  OBVIOUS
<1> QED BY <1>5, <1>6, <1>7

-------------------------------------------------------------------------------
(* Sums over a list.                                                        *)

(* The equation of the sums of the last heaps of a list. *)
Sums(S, f, list) ==
  S = [n \in 0 .. Len(list) |-> IF n = 0 THEN 0 ELSE S[n - 1] + f[list[Len(list) - n + 1]]]

(* It has a solution: one for the last m heaps is extended by the one before. *)
LEMMA SumsExist ==
  ASSUME NEW f, NEW list, Len(list) \in Nat
  PROVE  \E S : Sums(S, f, list)
<1> DEFINE L == Len(list)
           Upto(S, m) == S = [n \in 0 .. m |-> IF n = 0 THEN 0 ELSE S[n - 1] + f[list[L - n + 1]]]
           T == {m \in Nat : \E S : Upto(S, m)}
<1>1. 0 \in T
  <2> DEFINE Z == [n \in 0 .. 0 |-> 0]
  <2>1. Upto(Z, 0)
    OBVIOUS
  <2> QED BY <2>1
<1>2. ASSUME NEW m \in Nat, m \in T PROVE m + 1 \in T
  <2>1. PICK S : Upto(S, m)
    BY <1>2
  <2> DEFINE R == [n \in 0 .. m + 1 |-> IF n = m + 1 THEN S[m] + f[list[L - (m + 1) + 1]] ELSE S[n]]
  <2>2. \A n \in 0 .. m + 1 : R[n] = IF n = 0 THEN 0 ELSE R[n - 1] + f[list[L - n + 1]]
    <3> TAKE n \in 0 .. m + 1
    <3>1. CASE n = m + 1
      <4>1. m \in 0 .. m + 1 /\ m # m + 1 /\ n # 0 /\ n - 1 = m
        BY <3>1
      <4>2. R[m] = S[m]
        BY <4>1
      <4> QED BY <3>1, <4>1, <4>2
    <3>2. CASE n # m + 1 /\ n # 0
      <4>1. n \in 0 .. m /\ n - 1 \in 0 .. m + 1 /\ n - 1 # m + 1
        BY <3>2
      <4>2. S[n] = S[n - 1] + f[list[L - n + 1]]
        BY <2>1, <3>2, <4>1
      <4> QED BY <3>2, <4>1, <4>2
    <3>3. CASE n = 0
      BY <2>1, <3>3
    <3> QED BY <3>1, <3>2, <3>3
  <2>3. Upto(R, m + 1)
    <3> DEFINE Q == [n \in 0 .. m + 1 |-> IF n = 0 THEN 0 ELSE R[n - 1] + f[list[L - n + 1]]]
    <3>1. R = [n \in 0 .. m + 1 |-> R[n]]
      OBVIOUS
    <3> HIDE DEF R
    <3>2. Q = R
      BY <2>2, <3>1
    <3> QED BY <3>2
  <2>4. \E Q : Upto(Q, m + 1)
    BY <2>3
  <2> HIDE DEF Upto, R
  <2> QED BY <2>4
<1> HIDE DEF T
<1>3. L \in T
  BY <1>1, <1>2, Induct
<1> QED BY <1>3 DEF T, Sums

LEMMA SumIsSums ==
  ASSUME NEW f, NEW list, Len(list) \in Nat
  PROVE  \E S : Sums(S, f, list) /\ SumOf(f, list) = S[Len(list)]
<1> DEFINE S == CHOOSE S : Sums(S, f, list)
<1>1. Sums(S, f, list)
  BY SumsExist
<1>2. SumOf(f, list) = S[Len(list)]
  BY DEF SumOf, Sums
<1> QED BY <1>1, <1>2

(* A sum over nothing is zero, *)
LEMMA SumNothing ==
  ASSUME NEW f
  PROVE  SumOf(f, <<>>) = 0
<1>1. PICK S : Sums(S, f, <<>>) /\ SumOf(f, <<>>) = S[Len(<<>>)]
  BY SumIsSums
<1> QED BY <1>1 DEF Sums

(* and a sum is its first term and the sum of the others. *)
LEMMA SumFirst ==
  ASSUME NEW f, NEW X, NEW list \in Seq(X), list # <<>>
  PROVE  SumOf(f, list) = SumOf(f, Tail(list)) + f[Head(list)]
<1> DEFINE L == Len(list)
           rest == Tail(list)
<1>1. L \in Nat \ {0} /\ rest \in Seq(X) /\ Len(rest) = L - 1 /\ L - 1 \in Nat
  OBVIOUS
<1>2. \A i \in 1 .. L - 1 : rest[i] = list[i + 1]
  OBVIOUS
<1>3. PICK S : Sums(S, f, list) /\ SumOf(f, list) = S[L]
  BY <1>1, SumIsSums
<1>4. PICK R : Sums(R, f, rest) /\ SumOf(f, rest) = R[L - 1]
  BY <1>1, SumIsSums
<1> DEFINE T == {n \in Nat : n <= L - 1 => R[n] = S[n]}
<1>5. 0 \in T
  BY <1>1, <1>3, <1>4 DEF Sums
<1>6. ASSUME NEW n \in Nat, n \in T PROVE n + 1 \in T
  <2>1. CASE n + 1 <= L - 1
    <3>1. /\ n + 1 \in 0 .. L - 1 /\ n + 1 \in 0 .. L /\ n + 1 # 0 /\ n + 1 - 1 = n
          /\ L - 1 - (n + 1) + 1 \in 1 .. L - 1
          /\ L - 1 - (n + 1) + 1 + 1 = L - (n + 1) + 1
      BY <1>1, <2>1
    <3>2. S[n + 1] = S[n] + f[list[L - (n + 1) + 1]]
      BY <1>3, <3>1 DEF Sums
    <3>3. R[n + 1] = R[n] + f[rest[L - 1 - (n + 1) + 1]]
      BY <1>1, <1>4, <3>1 DEF Sums
    <3>4. rest[L - 1 - (n + 1) + 1] = list[L - (n + 1) + 1]
      BY <1>2, <3>1
    <3>5. R[n] = S[n]
      BY <1>1, <1>6, <2>1
    <3> QED BY <3>2, <3>3, <3>4, <3>5
  <2> QED BY <2>1
<1> HIDE DEF T
<1>7. L - 1 \in T
  BY <1>1, <1>5, <1>6, Induct
<1>8. R[L - 1] = S[L - 1]
  BY <1>1, <1>7 DEF T
<1>9. S[L] = S[L - 1] + f[list[L - L + 1]]
  BY <1>1, <1>3 DEF Sums
<1>10. list[L - L + 1] = Head(list)
  BY <1>1
<1> QED BY <1>3, <1>4, <1>8, <1>9, <1>10

(* What holds of the empty list and of a list when it holds of its tail     *)
(* holds of all lists.                                                      *)
LEMMA ListInduct ==
  ASSUME NEW X, NEW T, <<>> \in T,
         \A list \in Seq(X) : list # <<>> /\ Tail(list) \in T => list \in T
  PROVE  \A list \in Seq(X) : list \in T
<1> DEFINE U == {n \in Nat : \A list \in Seq(X) : Len(list) = n => list \in T}
<1>1. 0 \in U
  <2>1. \A list \in Seq(X) : Len(list) = 0 => list = <<>>
    OBVIOUS
  <2> QED BY <2>1
<1>2. ASSUME NEW n \in Nat, n \in U PROVE n + 1 \in U
  <2>1. SUFFICES ASSUME NEW list \in Seq(X), Len(list) = n + 1 PROVE list \in T
    OBVIOUS
  <2>2. list # <<>> /\ Tail(list) \in Seq(X) /\ Len(Tail(list)) = n
    BY <2>1
  <2> QED BY <1>2, <2>2
<1> HIDE DEF U
<1>3. \A n \in Nat : n \in U
  BY <1>1, <1>2, Induct
<1>4. \A list \in Seq(X) : Len(list) \in Nat
  OBVIOUS
<1> QED BY <1>3, <1>4 DEF U

(* A sum of integers is one, *)
LEMMA SumInt ==
  ASSUME NEW X, NEW list \in Seq(X), NEW f, \A x \in X : f[x] \in Int
  PROVE  SumOf(f, list) \in Int
<1> DEFINE T == {l \in Seq(X) : SumOf(f, l) \in Int}
<1>1. <<>> \in T
  BY SumNothing
<1>2. ASSUME NEW l \in Seq(X), l # <<>>, Tail(l) \in T PROVE l \in T
  <2>1. Head(l) \in X
    BY <1>2
  <2> QED BY <1>2, <2>1, SumFirst
<1> HIDE DEF T
<1>3. \A l \in Seq(X) : l \in T
  BY <1>1, <1>2, ListInduct
<1> QED BY <1>3 DEF T

(* it depends on the terms only, *)
LEMMA SumSame ==
  ASSUME NEW X, NEW list \in Seq(X), NEW f, NEW g, \A x \in X : f[x] = g[x]
  PROVE  SumOf(f, list) = SumOf(g, list)
<1> DEFINE T == {l \in Seq(X) : SumOf(f, l) = SumOf(g, l)}
<1>1. <<>> \in T
  BY SumNothing
<1>2. ASSUME NEW l \in Seq(X), l # <<>>, Tail(l) \in T PROVE l \in T
  <2>1. Head(l) \in X
    BY <1>2
  <2> QED BY <1>2, <2>1, SumFirst
<1> HIDE DEF T
<1>3. \A l \in Seq(X) : l \in T
  BY <1>1, <1>2, ListInduct
<1> QED BY <1>3 DEF T

(* The heaps of a list, *)
LEMMA InList ==
  ASSUME NEW X, NEW list \in Seq(X)
  PROVE  /\ \A y : y \in ToSet(list) <=> \E i \in 1 .. Len(list) : list[i] = y
         /\ ToSet(list) \subseteq X
         /\ list \in Seq(ToSet(list))
<1>1. /\ DOMAIN list = 1 .. Len(list) /\ Len(list) \in Nat
      /\ list = [i \in 1 .. Len(list) |-> list[i]] /\ \A i \in 1 .. Len(list) : list[i] \in X
  OBVIOUS
<1>2. \A y : y \in ToSet(list) <=> \E i \in 1 .. Len(list) : list[i] = y
  BY <1>1 DEF ToSet
<1>3. list \in [1 .. Len(list) -> ToSet(list)]
  BY <1>1, <1>2
<1> QED BY <1>1, <1>2, <1>3

(* and of its tail, *)
LEMMA TailOf ==
  ASSUME NEW X, NEW list \in Seq(X), list # <<>>
  PROVE  /\ Head(list) \in X /\ Tail(list) \in Seq(X)
         /\ ToSet(list) = {Head(list)} \cup ToSet(Tail(list))
         /\ IsInjective(list) =>
              IsInjective(Tail(list)) /\ Head(list) \notin ToSet(Tail(list))
<1>1. /\ Head(list) \in X /\ Tail(list) \in Seq(X) /\ Head(list) = list[1]
      /\ Len(list) \in Nat \ {0} /\ DOMAIN list = 1 .. Len(list)
      /\ DOMAIN Tail(list) = 1 .. Len(list) - 1
      /\ \A i \in 1 .. Len(list) - 1 : Tail(list)[i] = list[i + 1]
  OBVIOUS
<1>2. \A i \in 1 .. Len(list) : i # 1 => i - 1 \in 1 .. Len(list) - 1 /\ i - 1 + 1 = i
  BY <1>1
<1>3. \A i \in 1 .. Len(list) - 1 : i + 1 \in 1 .. Len(list) /\ i + 1 # 1
  BY <1>1
<1>4. ToSet(list) = {Head(list)} \cup ToSet(Tail(list))
  <2>1. \A i \in 1 .. Len(list) : i # 1 => list[i] = Tail(list)[i - 1]
    BY <1>1, <1>2
  <2>2. 1 \in 1 .. Len(list) /\ Len(Tail(list)) = Len(list) - 1
    BY <1>1
  <2> DEFINE rest == Tail(list)
  <2>3. rest \in Seq(X) /\ Len(rest) = Len(list) - 1
    BY <1>1, <2>2
  <2> HIDE DEF rest
  <2>4. \A y : y \in ToSet(rest) <=> \E i \in 1 .. Len(list) - 1 : rest[i] = y
    BY <2>3, InList
  <2>5. ASSUME NEW y \in ToSet(list) PROVE y \in {Head(list)} \cup ToSet(rest)
    <3>1. PICK i \in 1 .. Len(list) : list[i] = y
      BY InList
    <3>2. CASE i # 1
      BY <1>2, <2>1, <2>4, <3>1, <3>2 DEF rest
    <3> QED BY <1>1, <3>1, <3>2
  <2>6. ASSUME NEW y \in ToSet(rest) PROVE y \in ToSet(list)
    <3>1. PICK i \in 1 .. Len(list) - 1 : rest[i] = y
      BY <2>4
    <3> QED BY <1>1, <1>3, <3>1, InList DEF rest
  <2>7. Head(list) \in ToSet(list)
    BY <1>1, <2>2, InList
  <2> QED BY <2>5, <2>6, <2>7 DEF rest
<1>5. ASSUME IsInjective(list)
      PROVE  IsInjective(Tail(list)) /\ Head(list) \notin ToSet(Tail(list))
  <2>1. \A i, j \in 1 .. Len(list) : list[i] = list[j] => i = j
    BY <1>1, <1>5 DEF IsInjective
  <2>2. \A i, j \in 1 .. Len(list) - 1 : i + 1 = j + 1 => i = j
    BY <1>1
  <2>3. IsInjective(Tail(list))
    BY <1>1, <1>3, <2>1, <2>2 DEF IsInjective
  <2>4. 1 \in 1 .. Len(list)
    BY <1>1
  <2> QED BY <1>1, <1>3, <2>1, <2>3, <2>4 DEF ToSet
<1> QED BY <1>1, <1>4, <1>5

(* and of a list with one more in front. *)
LEMMA Pushed ==
  ASSUME NEW X, NEW x \in X, NEW list \in Seq(X)
  PROVE  LET more == <<x>> \o list IN
         /\ more \in Seq(X) /\ more # <<>> /\ Head(more) = x /\ Tail(more) = list
         /\ Len(more) = Len(list) + 1
         /\ ToSet(more) = {x} \cup ToSet(list)
         /\ IsInjective(list) /\ x \notin ToSet(list) => IsInjective(more)
<1> DEFINE more == <<x>> \o list
<1>1. /\ more \in Seq(X) /\ Len(more) = Len(list) + 1 /\ Len(list) \in Nat
      /\ DOMAIN list = 1 .. Len(list) /\ DOMAIN more = 1 .. Len(list) + 1
      /\ more[1] = x /\ \A i \in 1 .. Len(list) : more[i + 1] = list[i]
  OBVIOUS
<1>2. more # <<>> /\ Head(more) = x
  BY <1>1
<1>3. Tail(more) = list
  OBVIOUS
<1> HIDE DEF more
<1>4. ToSet(more) = {x} \cup ToSet(list)
  BY <1>1, <1>2, <1>3, TailOf
<1>5. ASSUME IsInjective(list), x \notin ToSet(list) PROVE IsInjective(more)
  <2>1. \A i \in 1 .. Len(list) + 1 : i # 1 => i - 1 \in 1 .. Len(list) /\ i - 1 + 1 = i
    BY <1>1
  <2>2. \A i \in 1 .. Len(list) + 1 : i # 1 => more[i] = list[i - 1] /\ more[i] # x
    <3> TAKE i \in 1 .. Len(list) + 1
    <3> HAVE i # 1
    <3>1. more[i] = list[i - 1]
      BY <1>1, <2>1
    <3> QED BY <1>5, <2>1, <3>1, InList
  <2>3. SUFFICES ASSUME NEW i \in 1 .. Len(list) + 1, NEW j \in 1 .. Len(list) + 1,
                        more[i] = more[j]
                 PROVE  i = j
    BY <1>1 DEF IsInjective
  <2>4. CASE i = 1 \/ j = 1
    BY <1>1, <2>2, <2>3, <2>4
  <2>5. CASE i # 1 /\ j # 1
    <3>1. i - 1 = j - 1
      BY <1>1, <1>5, <2>1, <2>2, <2>3, <2>5 DEF IsInjective
    <3> QED BY <3>1
  <2> QED BY <2>4, <2>5
<1> QED BY <1>1, <1>2, <1>3, <1>4, <1>5 DEF more

(* A sum over different heaps, when the term of h changes. *)
LEMMA SumChange ==
  ASSUME NEW X, NEW list \in Seq(X), IsInjective(list), NEW h \in ToSet(list), NEW f, NEW g,
         \A x \in X : f[x] \in Int /\ g[x] \in Int,
         \A x \in X \ {h} : f[x] = g[x]
  PROVE  SumOf(g, list) = SumOf(f, list) - f[h] + g[h]
<1> DEFINE Changed(l) == SumOf(g, l) = SumOf(f, l) - f[h] + g[h]
           T == {l \in Seq(X) : IsInjective(l) /\ h \in ToSet(l) => Changed(l)}
<1>1. <<>> \in T
  <2>1. ToSet(<<>>) = {}
    BY DEF ToSet
  <2> QED BY <2>1
<1>2. ASSUME NEW l \in Seq(X), l # <<>>, Tail(l) \in T PROVE l \in T
  <2>1. SUFFICES ASSUME IsInjective(l), h \in ToSet(l) PROVE Changed(l)
    OBVIOUS
  <2>2. /\ Head(l) \in X /\ Tail(l) \in Seq(X)
        /\ ToSet(l) = {Head(l)} \cup ToSet(Tail(l))
        /\ IsInjective(Tail(l)) /\ Head(l) \notin ToSet(Tail(l))
    BY <1>2, <2>1, TailOf
  <2>3. /\ SumOf(f, l) = SumOf(f, Tail(l)) + f[Head(l)]
        /\ SumOf(g, l) = SumOf(g, Tail(l)) + g[Head(l)]
    BY <1>2, SumFirst
  <2>4. SumOf(f, Tail(l)) \in Int
    BY <2>2, SumInt
  <2>5. h \in X
    BY <2>1, <1>2, InList
  <2>6. CASE Head(l) = h
    <3> DEFINE rest == Tail(l)
               Y == ToSet(rest)
    <3>1. rest \in Seq(Y) /\ Y \subseteq X
      BY <2>2, InList
    <3>2. \A x \in Y : f[x] = g[x]
      BY <2>2, <2>6, <3>1
    <3> HIDE DEF rest, Y
    <3>3. SumOf(f, rest) = SumOf(g, rest)
      BY <3>1, <3>2, SumSame
    <3> QED BY <2>3, <2>4, <2>5, <2>6, <3>3 DEF rest
  <2>7. CASE Head(l) # h
    <3>1. g[Head(l)] = f[Head(l)] /\ h \in ToSet(Tail(l))
      BY <2>1, <2>2, <2>7
    <3>2. Changed(Tail(l))
      BY <1>2, <2>2, <3>1
    <3> HIDE DEF T
    <3> QED BY <2>2, <2>3, <2>4, <2>5, <3>1, <3>2
  <2> QED BY <2>6, <2>7
<1> HIDE DEF T
<1>3. \A l \in Seq(X) : l \in T
  BY <1>1, <1>2, ListInduct
<1> QED BY <1>3 DEF T
-------------------------------------------------------------------------------
(* The inductive invariant.                                                 *)

Place == Nat \X Nat

Label == {"idle", "boot", "register", "startup", "count", "retain", "collect", "clear",
          "shutdown"}

(* Every variable stays in its range; the lists are sequences. *)
RangeInv ==
  /\ TypeOK
  /\ superblocks \in Nat
  /\ heapManagersList \in Seq(Place)
  /\ freeHeapManagersList \in Seq(Place)
  /\ cursor \in Seq(Place) /\ walk \in Seq(Place) /\ total \in Int
  /\ loaded \in [Thread -> Nat]
  /\ before \in Int /\ counted \in Int /\ forgotten \in Int
  /\ disturbed \in BOOLEAN /\ stirred \in BOOLEAN
  /\ early \subseteq Thread

(* The holder of mgrLock is the thread that is in a section under it. *)
LockInv == \A t \in Thread : mgrLock = t <=> pc[t] \in {"register", "retain", "collect", "clear"}

(* What a thread knows of its heap where it is, and which threads the       *)
(* destructor will be called for.                                           *)
ThreadInv ==
  \A t \in Thread :
    /\ pc[t] # "idle" => life[t] = "running"
    /\ pc[t] = "boot" => heapManager[t] = None
    /\ pc[t] \in {"register", "startup", "count", "retain"} => heapManager[t] # None
    /\ pc[t] = "retain" => t # Main
    /\ pc[t] \in {"collect", "clear"} => heapMasterBootFlag # 0
    /\ pc[t] = "shutdown" => t = Main /\ heapMasterBootFlag = 2
    /\ pc[t] = "startup" => t = Main /\ heapMasterBootFlag = 1
    /\ pc[t] = "register" /\ t \notin early => heapMasterBootFlag = 2
    /\ life[t] = "none" => heapManager[t] = None
    /\ t \in registered => heapManager[t] # None
    /\ heapManager[t] # None /\ pc[t] # "register" => t \in early \cup registered \cup {Main}
    /\ heapManager[t] # None /\ life[t] = "ended" => t \in early \cup {Main}

(* Before the first boot there is nothing. *)
BootInv ==
  /\ heapMasterBootFlag = 0 =>
       /\ heapManagersList = <<>>
       /\ threadsStarted = 0 /\ heapNew = 0 /\ heapReused = 0
  /\ heapMasterBootFlag # 2 => forgotten = 0

(* The heaps are those of earlier superblocks, and of the last one those    *)
(* before storage.                                                          *)
SuperblockInv ==
  /\ \A h \in Heaps : h[1] \in 1 .. superblocks /\ h[2] \in 0 .. Dimension - 1
  /\ IF storage = None
     THEN heapManagersList = <<>>
     ELSE \E i \in 1 .. Dimension :
            /\ superblocks > 0
            /\ storage = <<superblocks, i>>
            /\ storageEnd = <<superblocks, Dimension>>
            /\ \A h \in Heaps : h[1] = superblocks => h[2] < i

(* A heap is in the list once, with one thread, or once on the stack; while *)
(* the destructor of its thread adds its counts, it is with both.           *)
PlacedInv ==
  /\ IsInjective(heapManagersList) /\ IsInjective(freeHeapManagersList)
  /\ \A h \in Heaps :
       h \in ToSet(freeHeapManagersList)
         <=> \A t \in Thread : heapManager[t] = h => pc[t] = "retain"
  /\ \A t, u \in Thread : heapManager[t] # None /\ heapManager[t] = heapManager[u] => t = u

(* A heap on the stack has no counts, once they are added, *)
IdleInv ==
  \A h \in ToSet(freeHeapManagersList) :
    (\A t \in Thread : heapManager[t] # h) => calls[h] = 0

(* what a thread loaded is still in its heap, *)
LoadedInv == disturbed \/ \A t \in Thread : pc[t] = "count" => loaded[t] = calls[heapManager[t]]

(* what a destructor loaded is in heapMaster.stats, with what has been      *)
(* counted since, which it will store over,                                 *)
RetainInv ==
  /\ \A t \in Thread : pc[t] = "retain" =>
       /\ loaded[t] <= masterCalls /\ masterCalls - loaded[t] <= lost
       /\ disturbed \/ loaded[t] + Total(calls) = counted - lost
  /\ (\A t \in Thread : pc[t] # "retain") =>
       disturbed \/ masterCalls + Total(calls) = counted - lost

(* and a walk that collects has what it added and the heaps it has not yet  *)
(* visited.                                                                 *)
WalkInv ==
  /\ IsInjective(cursor)
  /\ (\E t \in Thread : pc[t] = "collect") /\ ~disturbed =>
       /\ before - lost <= sum + SumOf(calls, cursor)
       /\ sum + SumOf(calls, cursor) <= counted - lost

StatsInv == IdleInv /\ LoadedInv /\ WalkInv /\ RetainInv

HeapInv == RangeInv /\ LockInv /\ ThreadInv /\ SuperblockInv /\ PlacedInv

(* The heaps change only when one is added. *)
LEMMA HeapsSame ==
  ASSUME UNCHANGED heapManagersList
  PROVE  Heaps' = Heaps
BY DEF Heaps

(* A new heap is one that no superblock gave before. *)
LEMMA NextHeapNew ==
  ASSUME RangeInv, SuperblockInv
  PROVE  /\ NextHeap \in Place /\ NextHeap \notin Heaps /\ NextHeap # None
         /\ NewHeap => SuperblockInv' /\ superblocks' \in Nat
<1>0. superblocks \in Nat /\ Dimension \in Nat \ {0} /\ None \notin Place
  BY MasterAssumption DEF RangeInv, Place
<1>1. heapManagersList = <<>> => Heaps = {}
  BY DEF Heaps, ToSet
<1>4. ASSUME NewHeap, NextHeap \in Place PROVE Heaps' = Heaps \cup {NextHeap}
  <2>1. heapManagersList' = <<NextHeap>> \o heapManagersList /\ heapManagersList \in Seq(Place)
    BY <1>4 DEF NewHeap, RangeInv
  <2> QED BY <1>4, <2>1, Pushed DEF Heaps
<1>2. CASE SuperblockUsed
  <2>1. NextHeap = <<superblocks + 1, 0>>
    BY <1>2 DEF NextHeap
  <2>2. NextHeap \notin Heaps
    BY <1>0, <2>1 DEF SuperblockInv
  <2>3. ASSUME NewHeap PROVE SuperblockInv' /\ superblocks' \in Nat
    <3>1. /\ superblocks' = superblocks + 1 /\ storageEnd' = <<superblocks + 1, Dimension>>
          /\ storage' = <<superblocks + 1, 1>>
      BY <1>2, <2>1, <2>3 DEF NewHeap
    <3>2. NextHeap \in Place
      BY <1>0, <2>1 DEF Place
    <3>3. Heaps' = Heaps \cup {NextHeap}
      BY <1>4, <2>3, <3>2
    <3>4. storage' # None
      BY <1>0, <3>1 DEF Place
    <3>5. \A h \in Heaps' : h[1] \in 1 .. superblocks' /\ h[2] \in 0 .. Dimension - 1
      BY <1>0, <2>1, <3>1, <3>3 DEF SuperblockInv
    <3>6. \A h \in Heaps' : h[1] = superblocks' => h[2] < 1
      BY <1>0, <2>1, <3>1, <3>3 DEF SuperblockInv
    <3>7. 1 \in 1 .. Dimension
      BY <1>0
    <3> QED BY <1>0, <3>1, <3>4, <3>5, <3>6, <3>7 DEF SuperblockInv
  <2> QED BY <1>0, <2>1, <2>2, <2>3 DEF Place
<1>3. CASE ~ SuperblockUsed
  <2>1. PICK i \in 1 .. Dimension :
          /\ superblocks > 0
          /\ storage = <<superblocks, i>> /\ storageEnd = <<superblocks, Dimension>>
          /\ \A h \in Heaps : h[1] = superblocks => h[2] < i
    BY <1>3 DEF SuperblockInv, SuperblockUsed
  <2>2. i \in 1 .. Dimension - 1 /\ NextHeap = <<superblocks, i>>
    <3>1. NextHeap = storage /\ storage # storageEnd
      BY <1>3 DEF NextHeap, SuperblockUsed
    <3>2. i # Dimension
      BY <2>1, <3>1
    <3> QED BY <1>0, <2>1, <3>1, <3>2
  <2>3. NextHeap \notin Heaps
    BY <1>0, <2>1, <2>2
  <2>4. ASSUME NewHeap PROVE SuperblockInv' /\ superblocks' \in Nat
    <3>1. /\ superblocks' = superblocks /\ storageEnd' = storageEnd
          /\ storage' = <<superblocks, i + 1>>
      BY <1>3, <2>2, <2>4 DEF NewHeap
    <3>2. NextHeap \in Place
      BY <1>0, <2>2 DEF Place
    <3>3. Heaps' = Heaps \cup {NextHeap}
      BY <1>4, <2>4, <3>2
    <3>4. storage' # None
      BY <1>0, <2>2, <3>1 DEF Place
    <3>5. \A h \in Heaps' : h[1] \in 1 .. superblocks' /\ h[2] \in 0 .. Dimension - 1
      BY <1>0, <2>1, <2>2, <3>1, <3>3 DEF SuperblockInv
    <3>6. \A h \in Heaps' : h[1] = superblocks' => h[2] < i + 1
      BY <1>0, <2>1, <2>2, <3>1, <3>3 DEF SuperblockInv
    <3>7. i + 1 \in 1 .. Dimension
      BY <1>0, <2>2
    <3> QED BY <1>0, <2>1, <3>1, <3>4, <3>5, <3>6, <3>7 DEF SuperblockInv
  <2> QED BY <1>0, <2>2, <2>3, <2>4 DEF Place
<1> QED BY <1>2, <1>3

(* What getHeap does to the lists. *)
LEMMA HeapGiven ==
  ASSUME RangeInv, SuperblockInv, ReuseHeap \/ NewHeap
  PROVE  /\ GivenHeap \in Place /\ GivenHeap \in Heaps' /\ GivenHeap # None
         /\ Heaps' = Heaps \cup {GivenHeap}
         /\ \/ /\ ReuseHeap
               /\ freeHeapManagersList # <<>> /\ GivenHeap \in Heaps
               /\ freeHeapManagersList' = Tail(freeHeapManagersList)
               /\ GivenHeap = Head(freeHeapManagersList)
            \/ /\ NewHeap
               /\ freeHeapManagersList = <<>> /\ GivenHeap = NextHeap
               /\ UNCHANGED freeHeapManagersList
               /\ heapManagersList' = <<NextHeap>> \o heapManagersList
<1>0. None \notin Place /\ heapManagersList \in Seq(Place) /\ freeHeapManagersList \in Seq(Place)
  BY MasterAssumption DEF RangeInv, Place
<1>1. CASE ReuseHeap
  <2>1. GivenHeap = Head(freeHeapManagersList)
    BY <1>1 DEF ReuseHeap, GivenHeap
  <2>2. ToSet(freeHeapManagersList) \subseteq Heaps /\ freeHeapManagersList # <<>>
    BY <1>1 DEF RangeInv, TypeOK, ReuseHeap
  <2>3. GivenHeap \in Place /\ GivenHeap \in Heaps
    BY <1>0, <2>1, <2>2, TailOf
  <2>4. Heaps' = Heaps
    BY <1>1 DEF ReuseHeap, Heaps
  <2> QED BY <1>0, <1>1, <2>1, <2>2, <2>3, <2>4 DEF ReuseHeap
<1>2. CASE NewHeap
  <2>1. NextHeap \in Place
    BY NextHeapNew
  <2>2. GivenHeap = NextHeap
    BY <1>2 DEF NewHeap, GivenHeap
  <2>3. heapManagersList' = <<NextHeap>> \o heapManagersList
    BY <1>2 DEF NewHeap
  <2>4. Heaps' = Heaps \cup {NextHeap}
    BY <1>0, <2>1, <2>3, Pushed DEF Heaps
  <2> QED BY <1>0, <1>2, <2>1, <2>2, <2>3, <2>4 DEF NewHeap
<1> QED BY <1>1, <1>2

(* Nothing but getHeap changes the list of heaps or takes from a superblock. *)
Elsewhere(t) ==
  \/ Boots(t) \/ MasterCtor(t) \/ Register(t)
  \/ Create(t) \/ EndUnregistered(t) \/ Dtor(t) \/ Retain(t) \/ Recycle(t)
  \/ Load(t) \/ StoreMalloc(t) \/ StoreFree(t) \/ FreeNull(t)
  \/ Collect(t) \/ CollectHeap(t) \/ Clear(t) \/ ClearHeap(t) \/ EndWalk(t)
  \/ StartupKey \/ StartupDone \/ Shutdown \/ ShutdownHeap \/ ShutdownDone

LEMMA StepKinds ==
  ASSUME [Next]_vars
  PROVE  (\E t \in Thread : GetHeap(t) \/ Elsewhere(t)) \/ UNCHANGED vars
BY MasterAssumption DEF Next, Step, Elsewhere

LEMMA ListKept ==
  ASSUME NEW t \in Thread, Elsewhere(t)
  PROVE  /\ UNCHANGED <<heapManagersList, superblocks, storage, storageEnd>>
         /\ Heaps' = Heaps
BY DEF Elsewhere, heaps, report, Heaps,
  Boots, MasterCtor, Register, Create, EndUnregistered, Dtor, Retain, Recycle, Load, StoreMalloc,
  StoreFree, Store, FreeNull, Collect, StartWalk, CollectHeap, Clear, ClearHeap, EndWalk,
  StartupKey, StartupDone, Shutdown, ShutdownHeap, ShutdownDone

(* Every variable stays in its range, in every step. *)
LEMMA RangeStep ==
  ASSUME RangeInv, SuperblockInv, ThreadInv, [Next]_vars
  PROVE  RangeInv'
<1>0. None \notin Thread /\ Main \in Thread
  BY MasterAssumption
<1> USE DEF At, Goto, Label, boot, heaps, counts, stats, report, unfreed, final
<1>1. ASSUME NEW t \in Thread, Boots(t) PROVE RangeInv'
  <2>1. Heaps' = Heaps
    BY <1>1, HeapsSame DEF Boots
  <2> QED BY <1>0, <1>1, <2>1 DEF Boots, RangeInv, TypeOK, ThreadInv
<1>2. ASSUME NEW t \in Thread, MasterCtor(t) PROVE RangeInv'
  <2>1. Heaps' = Heaps
    BY <1>2, HeapsSame DEF MasterCtor
  <2> QED BY <1>0, <1>2, <2>1 DEF MasterCtor, RangeInv, TypeOK, ThreadInv
<1>3. ASSUME NEW t \in Thread, Register(t) PROVE RangeInv'
  <2>1. Heaps' = Heaps
    BY <1>3, HeapsSame DEF Register
  <2>2. heapManager[t] # None
    BY <1>3 DEF Register, ThreadInv
  <2>3. /\ pc' = [pc EXCEPT ![t] = "idle"] /\ mgrLock' = None
        /\ registered' = registered \/ registered' = registered \cup {t}
    BY <1>3, <2>2 DEF Register
  <2> QED BY <1>0, <1>3, <2>1, <2>3 DEF Register, RangeInv, TypeOK
<1>4. ASSUME NEW t \in Thread, Create(t) PROVE RangeInv'
  <2>1. Heaps' = Heaps
    BY <1>4, HeapsSame DEF Create
  <2> QED BY <1>0, <1>4, <2>1 DEF Create, RangeInv, TypeOK, ThreadInv
<1>5. ASSUME NEW t \in Thread, EndUnregistered(t) PROVE RangeInv'
  <2>1. Heaps' = Heaps
    BY <1>5, HeapsSame DEF EndUnregistered
  <2> QED BY <1>0, <1>5, <2>1 DEF EndUnregistered, RangeInv, TypeOK, ThreadInv
<1>6. ASSUME NEW t \in Thread, Dtor(t) PROVE RangeInv'
  <2>1. Heaps' = Heaps
    BY <1>6, HeapsSame DEF Dtor
  <2> DEFINE h == heapManager[t]
  <2>2. h \in Heaps /\ h # None
    BY <1>6 DEF Dtor, ThreadInv, RangeInv, TypeOK
  <2>3. h \in Place
    BY <2>2, InList DEF RangeInv, Heaps
  <2>4. /\ freeHeapManagersList' \in Seq(Place)
        /\ ToSet(freeHeapManagersList') = {h} \cup ToSet(freeHeapManagersList)
    BY <1>6, <2>3, Pushed DEF Dtor, RangeInv
  <2>5. loaded' \in [Thread -> Nat] /\ pc' \in [Thread -> Label] /\ mgrLock' \in Thread
    BY <1>6 DEF Dtor, RangeInv, TypeOK
  <2> QED BY <1>6, <2>1, <2>2, <2>4, <2>5 DEF Dtor, RangeInv, TypeOK
<1>20. ASSUME NEW t \in Thread, Retain(t) PROVE RangeInv'
  <2>1. Heaps' = Heaps
    BY <1>20, HeapsSame DEF Retain
  <2> DEFINE h == heapManager[t]
  <2>2. h \in Heaps /\ h # None
    BY <1>20 DEF Retain, ThreadInv, RangeInv, TypeOK
  <2>3. calls' \in [Heaps -> Nat] /\ masterCalls' \in Nat /\ threadsExited' \in Nat
    BY <1>20, <2>2 DEF Retain, RangeInv, TypeOK
  <2>4. heapManager' \in [Thread -> Heaps \cup {None}]
    BY <1>20 DEF Retain, RangeInv, TypeOK
  <2>5. loaded' \in [Thread -> Nat] /\ pc' \in [Thread -> Label]
    BY <1>20 DEF Retain, RangeInv, TypeOK
  <2>6. /\ life' \in [Thread -> {"none", "running", "ended"}]
        /\ registered' \subseteq Thread
    BY <1>20 DEF Retain, RangeInv, TypeOK
  <2> QED BY <1>20, <2>1, <2>3, <2>4, <2>5, <2>6 DEF Retain, RangeInv, TypeOK
<1>7. ASSUME NEW t \in Thread, Recycle(t) PROVE RangeInv'
  <2>1. Heaps' = Heaps
    BY <1>7, HeapsSame DEF Recycle
  <2> QED BY <1>0, <1>7, <2>1 DEF Recycle, RangeInv, TypeOK, ThreadInv
<1>8. ASSUME NEW t \in Thread, Load(t) PROVE RangeInv'
  <2>1. Heaps' = Heaps
    BY <1>8, HeapsSame DEF Load
  <2> QED BY <1>0, <1>8, <2>1 DEF Load, RangeInv, TypeOK, ThreadInv
<1>9. ASSUME NEW t \in Thread, StoreMalloc(t) \/ StoreFree(t) PROVE RangeInv'
  <2>0. Store(t)
    BY <1>9 DEF StoreMalloc, StoreFree
  <2>1. Heaps' = Heaps
    BY <2>0, HeapsSame DEF Store
  <2>5. loaded[t] + 1 \in Nat /\ calls' = [calls EXCEPT ![heapManager[t]] = loaded[t] + 1]
    BY <2>0 DEF Store, RangeInv
  <2>2. calls' \in [Heaps -> Nat]
    BY <2>5 DEF RangeInv, TypeOK
  <2>3. allocUnfreed' \in [Heaps -> Int] /\ live' \in Nat /\ failed' \in Nat
    BY <1>9 DEF StoreMalloc, StoreFree, RangeInv, TypeOK
  <2>4. /\ loaded' \in [Thread -> Nat] /\ counted' \in Int
        /\ pc' \in [Thread -> Label] /\ stirred' \in BOOLEAN
    BY <2>0 DEF Store, RangeInv, TypeOK
  <2> QED BY <2>0, <2>1, <2>2, <2>3, <2>4 DEF Store, RangeInv, TypeOK
<1>21. ASSUME NEW t \in Thread, FreeNull(t) PROVE RangeInv'
  <2>1. Heaps' = Heaps
    BY <1>21, HeapsSame DEF FreeNull
  <2>2. masterCalls' \in Nat /\ counted' \in Int /\ lost' \in Nat
    BY <1>21 DEF FreeNull, RangeInv, TypeOK
  <2> QED BY <1>21, <2>1, <2>2 DEF FreeNull, RangeInv, TypeOK
<1>10. ASSUME NEW t \in Thread, Collect(t) PROVE RangeInv'
  <2>1. Heaps' = Heaps
    BY <1>10, HeapsSame DEF Collect, StartWalk
  <2>2. cursor' = heapManagersList
    BY <1>10 DEF Collect, StartWalk
  <2>3. ToSet(cursor') = Heaps /\ cursor' \in Seq(Place)
    BY <2>2 DEF Heaps, RangeInv
  <2> QED BY <1>10, <2>1, <2>3 DEF Collect, StartWalk, RangeInv, TypeOK
<1>11. ASSUME NEW t \in Thread, CollectHeap(t) PROVE RangeInv'
  <2>1. Heaps' = Heaps
    BY <1>11, HeapsSame DEF CollectHeap
  <2>2. cursor # <<>> /\ cursor \in Seq(Place) /\ ToSet(cursor) \subseteq Heaps
    BY <1>11 DEF CollectHeap, RangeInv, TypeOK
  <2>3. /\ Head(cursor) \in Heaps /\ Tail(cursor) \in Seq(Place)
        /\ ToSet(Tail(cursor)) \subseteq Heaps
    BY <2>2, TailOf
  <2> QED BY <1>11, <2>1, <2>3 DEF CollectHeap, RangeInv, TypeOK
<1>12. ASSUME NEW t \in Thread, Clear(t) PROVE RangeInv'
  <2>1. Heaps' = Heaps
    BY <1>12, HeapsSame DEF Clear, StartWalk
  <2>2. cursor' = heapManagersList
    BY <1>12 DEF Clear, StartWalk
  <2>3. ToSet(cursor') = Heaps /\ cursor' \in Seq(Place)
    BY <2>2 DEF Heaps, RangeInv
  <2> QED BY <1>12, <2>1, <2>3 DEF Clear, StartWalk, RangeInv, TypeOK
<1>13. ASSUME NEW t \in Thread, ClearHeap(t) PROVE RangeInv'
  <2>1. Heaps' = Heaps
    BY <1>13, HeapsSame DEF ClearHeap
  <2>2. cursor # <<>> /\ cursor \in Seq(Place) /\ ToSet(cursor) \subseteq Heaps
    BY <1>13 DEF ClearHeap, RangeInv, TypeOK
  <2>3. /\ Head(cursor) \in Heaps /\ Tail(cursor) \in Seq(Place)
        /\ ToSet(Tail(cursor)) \subseteq Heaps
    BY <2>2, TailOf
  <2>4. calls' \in [Heaps -> Nat] /\ counted' \in Int /\ disturbed' \in BOOLEAN
    BY <1>13, <2>3 DEF ClearHeap, RangeInv, TypeOK
  <2> QED BY <1>13, <2>1, <2>3, <2>4 DEF ClearHeap, RangeInv, TypeOK
<1>14. ASSUME NEW t \in Thread, EndWalk(t) PROVE RangeInv'
  <2>1. Heaps' = Heaps
    BY <1>14, HeapsSame DEF EndWalk
  <2> QED BY <1>0, <1>14, <2>1 DEF EndWalk, RangeInv, TypeOK, ThreadInv
<1>15. ASSUME StartupKey PROVE RangeInv'
  <2>1. Heaps' = Heaps
    BY <1>15, HeapsSame DEF StartupKey
  <2> QED BY <1>0, <1>15, <2>1 DEF StartupKey, RangeInv, TypeOK, ThreadInv
<1>16. ASSUME StartupDone PROVE RangeInv'
  <2>1. Heaps' = Heaps
    BY <1>16, HeapsSame DEF StartupDone
  <2>2. heapManager[Main] \in Heaps
    BY <1>0, <1>16 DEF StartupDone, RangeInv, TypeOK, ThreadInv
  <2>3. allocUnfreed' \in [Heaps -> Int] /\ forgotten' \in Int
    BY <1>16, <2>2 DEF StartupDone, RangeInv, TypeOK
  <2> QED BY <1>0, <1>16, <2>1, <2>3 DEF StartupDone, RangeInv, TypeOK
<1>17. ASSUME Shutdown PROVE RangeInv'
  <2>1. Heaps' = Heaps
    BY <1>17, HeapsSame DEF Shutdown
  <2>2. walk' = heapManagersList
    BY <1>17 DEF Shutdown
  <2>3. ToSet(walk') = Heaps /\ walk' \in Seq(Place)
    BY <2>2 DEF Heaps, RangeInv
  <2>4. pc' \in [Thread -> Label]
    BY <1>17 DEF Shutdown, RangeInv, TypeOK
  <2> QED BY <1>17, <2>1, <2>3, <2>4 DEF Shutdown, RangeInv, TypeOK
<1>22. ASSUME ShutdownHeap PROVE RangeInv'
  <2>1. Heaps' = Heaps
    BY <1>22, HeapsSame DEF ShutdownHeap
  <2>2. walk # <<>> /\ walk \in Seq(Place) /\ ToSet(walk) \subseteq Heaps
    BY <1>22 DEF ShutdownHeap, RangeInv, TypeOK
  <2>3. /\ Head(walk) \in Heaps /\ Tail(walk) \in Seq(Place)
        /\ ToSet(Tail(walk)) \subseteq Heaps
    BY <2>2, TailOf
  <2>4. total' \in Int
    BY <1>22, <2>3 DEF ShutdownHeap, RangeInv, TypeOK
  <2> QED BY <1>22, <2>1, <2>3, <2>4 DEF ShutdownHeap, RangeInv, TypeOK
<1>23. ASSUME ShutdownDone PROVE RangeInv'
  <2>1. Heaps' = Heaps
    BY <1>23, HeapsSame DEF ShutdownDone
  <2> QED BY <1>23, <2>1 DEF ShutdownDone, RangeInv, TypeOK
<1>18. ASSUME NEW t \in Thread, GetHeap(t) PROVE RangeInv'
  <2>1. ReuseHeap \/ NewHeap
    BY <1>18 DEF GetHeap
  <2>2. /\ GivenHeap \in Place /\ GivenHeap \in Heaps'
        /\ Heaps' = Heaps \cup {GivenHeap}
    BY <2>1, HeapGiven
  <2>3. calls' \in [Heaps' -> Nat]
    BY <1>18, <2>2 DEF GetHeap, With, RangeInv, TypeOK
  <2>4. heapManager' \in [Thread -> Heaps' \cup {None}]
    BY <1>18, <2>2 DEF GetHeap, RangeInv, TypeOK
  <2>5. /\ pc' \in [Thread -> Label]
        /\ mgrLock' \in Thread /\ threadsStarted' \in Nat /\ early' \subseteq Thread
    BY <1>18 DEF GetHeap, RangeInv, TypeOK
  <2>6. CASE ReuseHeap
    <3>1. /\ freeHeapManagersList # <<>> /\ GivenHeap \in Heaps
          /\ freeHeapManagersList' = Tail(freeHeapManagersList)
      BY <2>6, HeapGiven DEF ReuseHeap
    <3>2. /\ freeHeapManagersList' \in Seq(Place)
          /\ ToSet(freeHeapManagersList') \subseteq ToSet(freeHeapManagersList)
      BY <3>1, TailOf DEF RangeInv
    <3>3. Heaps' = Heaps
      BY <2>2, <3>1
    <3>4. UNCHANGED <<superblocks, heapManagersList, allocUnfreed, heapNew>> /\ heapReused' \in Nat
      BY <2>6 DEF ReuseHeap, RangeInv, TypeOK
    <3> QED BY <1>18, <2>3, <2>4, <2>5, <3>2, <3>3, <3>4 DEF GetHeap, RangeInv, TypeOK
  <2>7. CASE NewHeap
    <3>1. /\ NextHeap \in Place /\ UNCHANGED freeHeapManagersList
          /\ heapManagersList' = <<NextHeap>> \o heapManagersList
          /\ superblocks' \in Nat
      BY <2>7, NextHeapNew DEF NewHeap
    <3>2. heapManagersList' \in Seq(Place)
      BY <3>1, Pushed DEF RangeInv
    <3>3. GivenHeap = NextHeap
      BY <2>7 DEF NewHeap, GivenHeap
    <3>4. allocUnfreed' = With(allocUnfreed, GivenHeap, 0)
      BY <2>7, <3>3 DEF NewHeap
    <3>5. allocUnfreed' \in [Heaps' -> Int]
      BY <2>2, <3>4 DEF With, RangeInv, TypeOK
    <3>6. UNCHANGED heapReused /\ heapNew' \in Nat
      BY <2>7 DEF NewHeap, RangeInv, TypeOK
    <3>7. /\ ToSet(freeHeapManagersList') \subseteq Heaps' /\ ToSet(cursor') \subseteq Heaps'
          /\ ToSet(walk') \subseteq Heaps'
      BY <1>18, <2>2, <3>1 DEF GetHeap, RangeInv, TypeOK
    <3> QED BY <1>18, <2>3, <2>4, <2>5, <3>1, <3>2, <3>5, <3>6, <3>7 DEF GetHeap, RangeInv, TypeOK
  <2> QED BY <2>1, <2>6, <2>7
<1>19. CASE UNCHANGED vars
  BY <1>19, HeapsSame DEF vars, RangeInv, TypeOK
<1> QED BY <1>1, <1>2, <1>3, <1>4, <1>5, <1>6, <1>7, <1>8, <1>9, <1>10, <1>11, <1>12, <1>13, <1>14,
           <1>15, <1>16, <1>17, <1>18, <1>19, <1>20, <1>21, <1>22, <1>23, StepKinds DEF Elsewhere

(* The lock and what threads know of their heaps, in every step. *)
LEMMA ThreadStep ==
  ASSUME RangeInv, SuperblockInv, LockInv, ThreadInv, [Next]_vars
  PROVE  LockInv' /\ ThreadInv'
<1>0. None \notin Thread /\ Main \in Thread
  BY MasterAssumption
<1>a. pc \in [Thread -> Label]
  BY DEF RangeInv, TypeOK, Label
<1>b. life \in [Thread -> {"none", "running", "ended"}]
  BY DEF RangeInv, TypeOK
<1>c. heapManager \in [Thread -> Heaps \cup {None}]
  BY DEF RangeInv, TypeOK
<1>d. mgrLock \in Thread \cup {None} /\ registered \subseteq Thread
  BY DEF RangeInv, TypeOK
<1> USE DEF At, Goto, Label, boot, heaps, counts, stats, report, unfreed, final
<1>1. ASSUME NEW t \in Thread, Boots(t) PROVE LockInv' /\ ThreadInv'
  BY <1>0, <1>a, <1>b, <1>c, <1>d, <1>1 DEF Boots, LockInv, ThreadInv
<1>2. ASSUME NEW t \in Thread, MasterCtor(t) PROVE LockInv' /\ ThreadInv'
  BY <1>0, <1>a, <1>b, <1>c, <1>d, <1>2 DEF MasterCtor, LockInv, ThreadInv
<1>3. ASSUME NEW t \in Thread, Register(t) PROVE LockInv' /\ ThreadInv'
  BY <1>0, <1>a, <1>b, <1>c, <1>d, <1>3 DEF Register, LockInv, ThreadInv
<1>4. ASSUME NEW t \in Thread, Create(t) PROVE LockInv' /\ ThreadInv'
  BY <1>0, <1>a, <1>b, <1>c, <1>d, <1>4 DEF Create, LockInv, ThreadInv
<1>5. ASSUME NEW t \in Thread, EndUnregistered(t) PROVE LockInv' /\ ThreadInv'
  BY <1>0, <1>a, <1>b, <1>c, <1>d, <1>5 DEF EndUnregistered, LockInv, ThreadInv
<1>6. ASSUME NEW t \in Thread, Dtor(t) PROVE LockInv' /\ ThreadInv'
  BY <1>0, <1>a, <1>b, <1>c, <1>d, <1>6 DEF Dtor, LockInv, ThreadInv
<1>7. ASSUME NEW t \in Thread, Recycle(t) PROVE LockInv' /\ ThreadInv'
  BY <1>0, <1>a, <1>b, <1>c, <1>d, <1>7 DEF Recycle, LockInv, ThreadInv
<1>8. ASSUME NEW t \in Thread, Load(t) PROVE LockInv' /\ ThreadInv'
  BY <1>0, <1>a, <1>b, <1>c, <1>d, <1>8 DEF Load, LockInv, ThreadInv
<1>9. ASSUME NEW t \in Thread, Store(t) PROVE LockInv' /\ ThreadInv'
  BY <1>0, <1>a, <1>b, <1>c, <1>d, <1>9 DEF Store, LockInv, ThreadInv
<1>20. ASSUME NEW t \in Thread, Retain(t) PROVE LockInv' /\ ThreadInv'
  BY <1>0, <1>a, <1>b, <1>c, <1>d, <1>20 DEF Retain, LockInv, ThreadInv
<1>21. ASSUME NEW t \in Thread, FreeNull(t) PROVE LockInv' /\ ThreadInv'
  BY <1>0, <1>a, <1>b, <1>c, <1>d, <1>21 DEF FreeNull, LockInv, ThreadInv
<1>22. ASSUME ShutdownHeap PROVE LockInv' /\ ThreadInv'
  BY <1>22 DEF ShutdownHeap, LockInv, ThreadInv
<1>23. ASSUME ShutdownDone PROVE LockInv' /\ ThreadInv'
  BY <1>23 DEF ShutdownDone, LockInv, ThreadInv
<1>10. ASSUME NEW t \in Thread, Collect(t) PROVE LockInv' /\ ThreadInv'
  BY <1>0, <1>a, <1>b, <1>c, <1>d, <1>10 DEF Collect, StartWalk, LockInv, ThreadInv
<1>11. ASSUME NEW t \in Thread, CollectHeap(t) PROVE LockInv' /\ ThreadInv'
  BY <1>0, <1>a, <1>b, <1>c, <1>d, <1>11 DEF CollectHeap, LockInv, ThreadInv
<1>12. ASSUME NEW t \in Thread, Clear(t) PROVE LockInv' /\ ThreadInv'
  BY <1>0, <1>a, <1>b, <1>c, <1>d, <1>12 DEF Clear, StartWalk, LockInv, ThreadInv
<1>13. ASSUME NEW t \in Thread, ClearHeap(t) PROVE LockInv' /\ ThreadInv'
  BY <1>0, <1>a, <1>b, <1>c, <1>d, <1>13 DEF ClearHeap, LockInv, ThreadInv
<1>14. ASSUME NEW t \in Thread, EndWalk(t) PROVE LockInv' /\ ThreadInv'
  BY <1>0, <1>a, <1>b, <1>c, <1>d, <1>14 DEF EndWalk, LockInv, ThreadInv
<1>15. ASSUME StartupKey PROVE LockInv' /\ ThreadInv'
  BY <1>0, <1>a, <1>b, <1>c, <1>d, <1>15 DEF StartupKey, LockInv, ThreadInv
<1>16. ASSUME StartupDone PROVE LockInv' /\ ThreadInv'
  BY <1>0, <1>a, <1>b, <1>c, <1>d, <1>16 DEF StartupDone, LockInv, ThreadInv
<1>17. ASSUME Shutdown PROVE LockInv' /\ ThreadInv'
  BY <1>0, <1>a, <1>b, <1>c, <1>d, <1>17 DEF Shutdown, LockInv, ThreadInv
<1>18. ASSUME NEW t \in Thread, GetHeap(t) PROVE LockInv' /\ ThreadInv'
  <2>1. GivenHeap # None
    BY <1>18, HeapGiven DEF GetHeap
  <2> QED BY <1>0, <1>a, <1>b, <1>c, <1>d, <1>18, <2>1 DEF GetHeap, LockInv, ThreadInv, RangeInv
<1>19. CASE UNCHANGED vars
  BY <1>19 DEF vars, LockInv, ThreadInv
<1> QED BY <1>1, <1>2, <1>3, <1>4, <1>5, <1>6, <1>7, <1>8, <1>9, <1>10, <1>11, <1>12, <1>13, <1>14,
           <1>15, <1>16, <1>17, <1>18, <1>19, <1>20, <1>21, <1>22, <1>23, StepKinds
        DEF Elsewhere, StoreMalloc, StoreFree

(* Elsewhere the heaps of threads, the stack and who is with a heap on it   *)
(* change only at the end of threads.                                       *)
LEMMA PlacesKept ==
  ASSUME NEW t \in Thread, Elsewhere(t), pc \in [Thread -> Label]
  PROVE  \/ Dtor(t) \/ Retain(t)
         \/ /\ UNCHANGED <<heapManager, freeHeapManagersList>>
            /\ \A u \in Thread : pc[u] = "retain" <=> pc'[u] = "retain"
BY MasterAssumption DEF Elsewhere, heaps, report, final, stats, At, Goto, Boots, MasterCtor,
  Register, Create, EndUnregistered, Recycle, Load, StoreMalloc, StoreFree, Store, FreeNull,
  Collect, StartWalk, CollectHeap, Clear, ClearHeap, EndWalk, StartupKey, StartupDone, Shutdown,
  ShutdownHeap, ShutdownDone

(* Each heap is in one place, in every step. *)
LEMMA PlacedStep ==
  ASSUME RangeInv, SuperblockInv, LockInv, ThreadInv, PlacedInv, [Next]_vars
  PROVE  SuperblockInv' /\ PlacedInv'
<1>0. /\ None \notin Place /\ heapManager \in [Thread -> Heaps \cup {None}] /\ pc \in [Thread -> Label]
      /\ heapManagersList \in Seq(Place) /\ freeHeapManagersList \in Seq(Place)
      /\ ToSet(freeHeapManagersList) \subseteq Heaps
  BY MasterAssumption DEF Place, RangeInv, TypeOK, Label
<1>c. None \notin Heaps
  BY <1>0, InList DEF Heaps
<1>a. \A k \in Heaps :
        k \in ToSet(freeHeapManagersList)
          <=> \A u \in Thread : heapManager[u] = k => pc[u] = "retain"
  BY DEF PlacedInv
<1>b. \A u, v \in Thread : heapManager[u] # None /\ heapManager[u] = heapManager[v] => u = v
  BY DEF PlacedInv
<1>1. ASSUME NEW t \in Thread, GetHeap(t) PROVE SuperblockInv' /\ PlacedInv'
  <2>1. /\ heapManager' = [heapManager EXCEPT ![t] = GivenHeap]
        /\ ReuseHeap \/ NewHeap
        /\ heapManager[t] = None
        /\ mgrLock = None /\ pc' = [pc EXCEPT ![t] = "register"]
    BY <1>1 DEF GetHeap, At, Goto, ThreadInv
  <2>6. \A u \in Thread : pc[u] # "retain" /\ pc'[u] # "retain"
    BY <1>0, <2>1, MasterAssumption DEF LockInv
  <2>2. /\ GivenHeap # None /\ Heaps' = Heaps \cup {GivenHeap}
    BY <2>1, HeapGiven
  <2>5. \A u \in Thread : heapManager'[u] = IF u = t THEN GivenHeap ELSE heapManager[u]
    BY <1>0, <2>1
  <2>3. CASE ReuseHeap
    <3>1. SuperblockInv'
      BY <2>3, HeapsSame DEF ReuseHeap, SuperblockInv
    <3>2. /\ freeHeapManagersList # <<>> /\ GivenHeap \in Heaps
          /\ freeHeapManagersList' = Tail(freeHeapManagersList)
          /\ GivenHeap = Head(freeHeapManagersList)
      BY <2>3, HeapGiven DEF ReuseHeap
    <3>3. /\ ToSet(freeHeapManagersList) = {GivenHeap} \cup ToSet(freeHeapManagersList')
          /\ IsInjective(freeHeapManagersList') /\ GivenHeap \notin ToSet(freeHeapManagersList')
      BY <1>0, <3>2, TailOf DEF PlacedInv
    <3>4. IsInjective(heapManagersList')
      BY <2>3 DEF ReuseHeap, PlacedInv
    <3>5. \A u \in Thread : heapManager[u] # GivenHeap
      BY <2>6, <3>2, <3>3 DEF PlacedInv
    <3>6. ASSUME NEW k \in Heaps'
          PROVE  k \in ToSet(freeHeapManagersList')
                   <=> \A u \in Thread : heapManager'[u] = k => pc'[u] = "retain"
      <4>1. CASE k = GivenHeap
        BY <2>5, <2>6, <3>3, <4>1
      <4>2. CASE k # GivenHeap
        BY <1>a, <1>c, <2>1, <2>2, <2>5, <2>6, <3>2, <3>3, <4>2
      <4> QED BY <4>1, <4>2
    <3>7. \A u, v \in Thread : heapManager'[u] # None /\ heapManager'[u] = heapManager'[v] => u = v
      BY <1>b, <2>1, <2>2, <2>5, <3>5
    <3> QED BY <3>1, <3>3, <3>4, <3>6, <3>7 DEF PlacedInv
  <2>4. CASE NewHeap
    <3>1. SuperblockInv' /\ NextHeap \in Place /\ NextHeap \notin Heaps
      BY <2>4, NextHeapNew
    <3>2. /\ GivenHeap = NextHeap /\ UNCHANGED freeHeapManagersList
          /\ heapManagersList' = <<NextHeap>> \o heapManagersList
      BY <2>4 DEF NewHeap, GivenHeap
    <3>3. IsInjective(heapManagersList')
      BY <1>0, <3>1, <3>2, Pushed DEF PlacedInv, Heaps
    <3>4. \A u \in Thread : heapManager[u] # GivenHeap
      BY <1>0, <2>2, <3>1, <3>2
    <3>5. GivenHeap \notin ToSet(freeHeapManagersList')
      BY <1>0, <3>1, <3>2
    <3>6. ASSUME NEW k \in Heaps'
          PROVE  k \in ToSet(freeHeapManagersList')
                   <=> \A u \in Thread : heapManager'[u] = k => pc'[u] = "retain"
      <4>1. CASE k = GivenHeap
        BY <2>5, <2>6, <3>5, <4>1
      <4>2. CASE k # GivenHeap
        BY <1>a, <1>c, <2>1, <2>2, <2>5, <2>6, <3>2, <4>2
      <4> QED BY <4>1, <4>2
    <3>7. \A u, v \in Thread : heapManager'[u] # None /\ heapManager'[u] = heapManager'[v] => u = v
      BY <1>b, <2>1, <2>2, <2>5, <3>4
    <3>8. IsInjective(freeHeapManagersList')
      BY <3>2 DEF PlacedInv
    <3> QED BY <3>1, <3>3, <3>6, <3>7, <3>8 DEF PlacedInv
  <2> QED BY <2>1, <2>3, <2>4
<1>2. ASSUME NEW t \in Thread, Elsewhere(t) PROVE SuperblockInv' /\ PlacedInv'
  <2>1. /\ UNCHANGED <<heapManagersList, superblocks, storage, storageEnd>> /\ Heaps' = Heaps
    BY <1>2, ListKept
  <2>2. SuperblockInv'
    BY <2>1 DEF SuperblockInv
  <2>3. CASE Dtor(t)
    <3> DEFINE h == heapManager[t]
    <3>1. h \in Heaps /\ h # None /\ pc[t] = "idle"
      BY <1>0, <2>3 DEF Dtor, At, ThreadInv
    <3>2. h \in Place /\ h \notin ToSet(freeHeapManagersList)
      BY <1>0, <1>a, <3>1, InList DEF Heaps
    <3>3. /\ UNCHANGED heapManager /\ pc' = [pc EXCEPT ![t] = "retain"]
          /\ freeHeapManagersList' = <<h>> \o freeHeapManagersList
      BY <2>3 DEF Dtor, Goto
    <3>4. /\ ToSet(freeHeapManagersList') = {h} \cup ToSet(freeHeapManagersList)
          /\ IsInjective(freeHeapManagersList')
      BY <1>0, <3>2, <3>3, Pushed DEF PlacedInv
    <3>5. \A u \in Thread : heapManager[u] = h => u = t
      BY <1>b, <3>1
    <3>9. \A u \in Thread : pc'[u] = IF u = t THEN "retain" ELSE pc[u]
      BY <1>0, <3>3
    <3>6. ASSUME NEW k \in Heaps'
          PROVE  k \in ToSet(freeHeapManagersList')
                   <=> \A u \in Thread : heapManager'[u] = k => pc'[u] = "retain"
      <4>1. CASE k = h
        BY <3>3, <3>4, <3>5, <3>9, <4>1
      <4>2. CASE k # h
        BY <1>a, <2>1, <3>3, <3>4, <3>9, <4>2
      <4> QED BY <4>1, <4>2
    <3>7. \A u, v \in Thread : heapManager'[u] # None /\ heapManager'[u] = heapManager'[v] => u = v
      BY <1>b, <3>3
    <3>8. IsInjective(heapManagersList')
      BY <2>1 DEF PlacedInv
    <3> QED BY <2>2, <3>4, <3>6, <3>7, <3>8 DEF PlacedInv
  <2>5. CASE Retain(t)
    <3> DEFINE h == heapManager[t]
    <3>1. h \in Heaps /\ h # None /\ pc[t] = "retain"
      BY <1>0, <2>5 DEF Retain, At, ThreadInv
    <3>2. \A u \in Thread : heapManager[u] = h => u = t
      BY <1>b, <3>1
    <3>3. /\ heapManager' = [heapManager EXCEPT ![t] = None] /\ pc' = [pc EXCEPT ![t] = "idle"]
          /\ UNCHANGED freeHeapManagersList
      BY <2>5 DEF Retain, Goto, heaps
    <3>4. h \in ToSet(freeHeapManagersList)
      BY <1>a, <3>1, <3>2
    <3>9. \A u \in Thread : /\ heapManager'[u] = IF u = t THEN None ELSE heapManager[u]
                            /\ pc'[u] = IF u = t THEN "idle" ELSE pc[u]
      BY <1>0, <3>3
    <3>6. ASSUME NEW k \in Heaps'
          PROVE  k \in ToSet(freeHeapManagersList')
                   <=> \A u \in Thread : heapManager'[u] = k => pc'[u] = "retain"
      <4>1. CASE k = h
        BY <1>c, <2>1, <3>2, <3>3, <3>4, <3>9, <4>1
      <4>2. CASE k # h
        BY <1>a, <1>c, <2>1, <3>3, <3>9, <4>2
      <4> QED BY <4>1, <4>2
    <3>7. \A u, v \in Thread : heapManager'[u] # None /\ heapManager'[u] = heapManager'[v] => u = v
      BY <1>b, <3>9
    <3>8. IsInjective(heapManagersList') /\ IsInjective(freeHeapManagersList')
      BY <2>1, <3>3 DEF PlacedInv
    <3> QED BY <2>2, <3>6, <3>7, <3>8 DEF PlacedInv
  <2>4. CASE /\ UNCHANGED <<heapManager, freeHeapManagersList>>
             /\ \A u \in Thread : pc[u] = "retain" <=> pc'[u] = "retain"
    <3>1. \A k \in Heaps' : k \in ToSet(freeHeapManagersList')
            <=> \A u \in Thread : heapManager'[u] = k => pc'[u] = "retain"
      BY <1>a, <2>1, <2>4
    <3> QED BY <1>b, <2>1, <2>2, <2>4, <3>1 DEF PlacedInv
  <2> QED BY <1>0, <1>2, <2>3, <2>4, <2>5, PlacesKept
<1>3. CASE UNCHANGED vars
  BY <1>3, HeapsSame DEF vars, heaps, SuperblockInv, PlacedInv
<1> QED BY <1>1, <1>2, <1>3, StepKinds

(* The heaps and threads of the initial state. *)
LEMMA HeapInit ==
  ASSUME Init
  PROVE  HeapInv
<1>0. None \notin Thread /\ Main \in Thread
  BY MasterAssumption
<1>1. Heaps = {} /\ ToSet(<<>>) = {} /\ IsInjective(<<>>) /\ DOMAIN <<>> = {}
  BY DEF Init, Heaps, ToSet, IsInjective
<1>2. RangeInv
  <2>1. calls \in [Heaps -> Nat] /\ allocUnfreed \in [Heaps -> Int]
    BY <1>1 DEF Init
  <2>2. /\ heapMasterBootFlag = 0 /\ keyMade = FALSE /\ registered = {}
        /\ life = [t \in Thread |-> IF t = Main THEN "running" ELSE "none"]
        /\ pc = [t \in Thread |-> "idle"]
        /\ heapManager = [t \in Thread |-> None]
        /\ mgrLock = None /\ freeHeapManagersList = <<>> /\ cursor = <<>> /\ walk = <<>>
    BY DEF Init
  <2>3. /\ ToSet(freeHeapManagersList) \subseteq Heaps /\ ToSet(cursor) \subseteq Heaps
        /\ ToSet(walk) \subseteq Heaps
    BY <1>1, <2>2
  <2>4. /\ masterCalls = 0 /\ sum = 0 /\ live = 0 /\ failed = 0 /\ lost = 0
        /\ threadsStarted = 0 /\ threadsExited = 0 /\ heapNew = 0 /\ heapReused = 0
    BY DEF Init
  <2>5. TypeOK
    <3>1. /\ life \in [Thread -> {"none", "running", "ended"}]
          /\ pc \in [Thread -> Label]
          /\ heapManager \in [Thread -> Heaps \cup {None}]
      BY <2>2 DEF Label
    <3>2. heapMasterBootFlag \in 0 .. 2
      BY <2>2
    <3>3. keyMade \in BOOLEAN
      BY DEF Init
    <3>4. registered \subseteq Thread
      BY DEF Init
    <3> QED BY <2>1, <2>2, <2>3, <2>4, <3>1, <3>2, <3>3, <3>4 DEF TypeOK, Label
  <2>6. /\ superblocks = 0 /\ heapManagersList = <<>> /\ loaded = [t \in Thread |-> 0]
        /\ before = 0 /\ counted = 0 /\ forgotten = 0 /\ disturbed = FALSE /\ early = {}
        /\ total = 0
    BY DEF Init
  <2>7. <<>> \in Seq(Place)
    OBVIOUS
  <2>8. disturbed \in BOOLEAN /\ stirred \in BOOLEAN
    BY DEF Init
  <2>9. loaded \in [Thread -> Nat] /\ early \subseteq Thread
    BY <2>6
  <2> QED BY <2>2, <2>5, <2>6, <2>7, <2>8, <2>9 DEF RangeInv
<1>3. LockInv /\ ThreadInv
  BY <1>0 DEF Init, LockInv, ThreadInv
<1>4. SuperblockInv /\ PlacedInv
  BY <1>1 DEF Init, SuperblockInv, PlacedInv
<1> QED BY <1>2, <1>3, <1>4 DEF HeapInv

(* Threads, lists and superblocks keep together, whatever threads come and  *)
(* go.                                                                      *)
THEOREM HeapsInvariant == Spec => []HeapInv
<1>1. HeapInv /\ [Next]_vars => HeapInv'
  BY RangeStep, ThreadStep, PlacedStep DEF HeapInv
<1> QED BY HeapInit, <1>1, PTL DEF Spec

(* Every variable stays in its range. *)
THEOREM TypeCorrect == Spec => []TypeOK
<1>1. HeapInv => TypeOK
  BY DEF HeapInv, RangeInv
<1> QED BY <1>1, HeapsInvariant, PTL

(* A thread never waits for mgrLock while it holds it, also when the thread *)
(* library allocates during SETSPECIFIC.                                    *)
THEOREM LockOnce == Spec => []NoSelfLock
<1>1. HeapInv => NoSelfLock
  BY DEF HeapInv, LockInv, NoSelfLock
<1> QED BY <1>1, HeapsInvariant, PTL

(* No heap is taken past the end of a superblock, given twice, or dropped:  *)
(* each is with one thread or on the stack.                                 *)
THEOREM HeapsPlaced == Spec => []HeapsAccounted
<1>1. HeapInv => HeapsAccounted
  <2>1. SUFFICES ASSUME HeapInv PROVE HeapsAccounted
    OBVIOUS
  <2>2. /\ heapManager \in [Thread -> Heaps \cup {None}]
        /\ Heaps \subseteq Place
    BY <2>1, InList DEF HeapInv, RangeInv, TypeOK, Heaps
  <2>3. Heaps \subseteq (1 .. superblocks) \X (0 .. Dimension - 1)
    BY <2>1, <2>2 DEF HeapInv, SuperblockInv, Place
  <2>4. \A t \in Thread : heapManager[t] # None =>
          /\ pc[t] # "retain" => heapManager[t] \notin ToSet(freeHeapManagersList)
          /\ \A u \in Thread \ {t} : heapManager[u] # heapManager[t]
          /\ life[t] = "ended" => t \in early \cup {Main}
    BY <2>1, <2>2 DEF HeapInv, PlacedInv, ThreadInv
  <2> QED BY <2>1, <2>3, <2>4 DEF HeapInv, PlacedInv, HeapsAccounted
<1> QED BY <1>1, HeapsInvariant, PTL
-------------------------------------------------------------------------------
(* The counters of threads and heaps.                                       *)

(* Before the first boot there is nothing, in every step. *)
LEMMA BootStep ==
  ASSUME HeapInv, BootInv, [Next]_vars
  PROVE  BootInv'
<1>0. /\ heapMasterBootFlag \in 0 .. 2 /\ heapManager \in [Thread -> Heaps \cup {None}]
      /\ heapManagersList = <<>> => Heaps = {}
  BY DEF HeapInv, RangeInv, TypeOK, Heaps, ToSet
<1> USE DEF boot, heaps, counts, stats, report, unfreed
<1>1. ASSUME NEW t \in Thread, GetHeap(t) PROVE BootInv'
  BY <1>1 DEF GetHeap, BootInv
<1>3. ASSUME NEW t \in Thread, Elsewhere(t) PROVE BootInv'
  BY <1>3, ListKept DEF Elsewhere, BootInv, Boots, MasterCtor, Register, Create, EndUnregistered,
    Dtor, Retain, Recycle, Load, StoreMalloc, StoreFree, Store, FreeNull, Collect, StartWalk,
    CollectHeap, Clear, ClearHeap, EndWalk, StartupKey, StartupDone, Shutdown, ShutdownHeap,
    ShutdownDone
<1>4. CASE UNCHANGED vars
  BY <1>4 DEF vars, BootInv
<1> QED BY <1>1, <1>3, <1>4, StepKinds

(* The counters agree with what there is, in every step. *)
LEMMA CountersStep ==
  ASSUME HeapInv, BootInv, CountersAgree, [Next]_vars
  PROVE  CountersAgree'
<1> DEFINE Booted == {t \in Thread : heapManager[t] # None}
<1>0. /\ heapManager \in [Thread -> Heaps \cup {None}]
      /\ heapNew \in Nat /\ heapReused \in Nat /\ threadsStarted \in Nat /\ threadsExited \in Nat
      /\ heapManagersList \in Seq(Place)
  BY DEF HeapInv, RangeInv, TypeOK
<1>1. IsFiniteSet(Booted) /\ Cardinality(Booted) \in Nat
  BY MasterAssumption, FS_Subset, FS_CardinalityType
<1> USE DEF boot, heaps, counts, stats, report, unfreed
<1>2. ASSUME NEW t \in Thread, GetHeap(t) PROVE CountersAgree'
  <2>1. /\ heapMasterBootFlag # 0 /\ heapManager[t] = None /\ UNCHANGED threadsExited
        /\ threadsStarted' = threadsStarted + 1
        /\ heapManager' = [heapManager EXCEPT ![t] = GivenHeap]
        /\ ReuseHeap \/ NewHeap
    BY <1>2 DEF GetHeap, At, HeapInv, ThreadInv
  <2>2. GivenHeap # None
    BY <2>1, HeapGiven DEF HeapInv
  <2>3. Booted' = Booted \cup {t} /\ t \notin Booted
    BY <1>0, <2>1, <2>2
  <2>4. Cardinality(Booted') = Cardinality(Booted) + 1
    BY <1>1, <2>3, FS_AddElement
  <2>5. heapNew' = Len(heapManagersList') /\ heapNew' + heapReused' = heapNew + heapReused + 1
    <3>1. CASE ReuseHeap
      BY <1>0, <2>1, <3>1 DEF ReuseHeap, CountersAgree
    <3>2. CASE NewHeap
      <4>1. /\ heapManagersList' = <<NextHeap>> \o heapManagersList /\ NextHeap \in Place
            /\ heapNew' = heapNew + 1 /\ heapReused' = heapReused
        BY <3>2, NextHeapNew DEF NewHeap, HeapInv
      <4>2. Len(heapManagersList') = Len(heapManagersList) + 1
        BY <1>0, <4>1, Pushed
      <4> QED BY <1>0, <2>1, <4>1, <4>2 DEF CountersAgree
    <3> QED BY <2>1, <3>1, <3>2
  <2> HIDE DEF Booted
  <2>6. /\ threadsStarted = heapNew + heapReused
        /\ threadsStarted = threadsExited - 1 + Cardinality(Booted)
    BY <2>1 DEF CountersAgree, Booted
  <2>7. threadsStarted' = heapNew' + heapReused'
    BY <1>0, <2>1, <2>5, <2>6
  <2>8. threadsStarted' = threadsExited' - 1 + Cardinality(Booted')
    BY <1>0, <1>1, <2>1, <2>4, <2>6
  <2> QED BY <2>5, <2>7, <2>8 DEF CountersAgree, Booted
<1>3. ASSUME NEW t \in Thread, Retain(t) PROVE CountersAgree'
  <2>1. /\ heapManager[t] # None /\ UNCHANGED <<threadsStarted, heapNew, heapReused, heapManagersList>>
        /\ threadsExited' = threadsExited + 1 /\ UNCHANGED heapMasterBootFlag
        /\ heapManager' = [heapManager EXCEPT ![t] = None]
    BY <1>3 DEF Retain, At, HeapInv, ThreadInv
  <2>2. Booted' = Booted \ {t} /\ t \in Booted
    BY <1>0, <2>1
  <2>3. Cardinality(Booted') = Cardinality(Booted) - 1
    BY <1>1, <2>2, FS_RemoveElement
  <2> HIDE DEF Booted
  <2>4. heapMasterBootFlag # 0 =>
          threadsStarted' = threadsExited' - 1 + Cardinality(Booted')
    BY <1>0, <1>1, <2>1, <2>3 DEF CountersAgree, Booted
  <2> QED BY <2>1, <2>4 DEF CountersAgree, Booted
<1>4. ASSUME NEW t \in Thread, MasterCtor(t) PROVE CountersAgree'
  <2>1. /\ heapManagersList = <<>> /\ threadsStarted' = 0 /\ heapNew' = 0 /\ heapReused' = 0
        /\ threadsExited' = 1 /\ UNCHANGED <<heapManagersList, heapManager>>
    BY <1>4 DEF MasterCtor, BootInv
  <2>2. Heaps = {}
    BY <2>1 DEF Heaps, ToSet
  <2>3. Booted' = {}
    BY <1>0, <2>1, <2>2
  <2>4. Cardinality(Booted') = 0
    BY <2>3, FS_EmptySet
  <2> HIDE DEF Booted
  <2> QED BY <2>1, <2>4 DEF CountersAgree, Booted
<1>5. ASSUME NEW t \in Thread, Elsewhere(t), ~ Retain(t), ~ MasterCtor(t) PROVE CountersAgree'
  <2>1. UNCHANGED <<heapManager, threadsStarted, threadsExited, heapNew, heapReused>>
    BY <1>5 DEF Elsewhere, Boots, Register, Create, EndUnregistered, Dtor, Recycle, Load,
      StoreMalloc, StoreFree, Store, FreeNull,
      Collect, StartWalk, CollectHeap, Clear, ClearHeap, EndWalk, StartupKey, StartupDone,
      Shutdown, ShutdownHeap, ShutdownDone
  <2>2. UNCHANGED heapMasterBootFlag \/ heapMasterBootFlag # 0
    BY <1>5, MasterAssumption DEF Elsewhere, Boots, Register, Create,
      EndUnregistered, Dtor, Recycle, Load, StoreMalloc, StoreFree, Store, FreeNull,
      Collect, StartWalk, CollectHeap, Clear, ClearHeap, EndWalk, StartupKey, StartupDone,
      Shutdown, ShutdownHeap, ShutdownDone,
      HeapInv, ThreadInv, At
  <2> QED BY <1>5, <2>1, <2>2, ListKept DEF CountersAgree
<1>6. CASE UNCHANGED vars
  BY <1>6 DEF vars, CountersAgree
<1> QED BY <1>2, <1>3, <1>4, <1>5, <1>6, StepKinds

CountInv == HeapInv /\ BootInv /\ CountersAgree

LEMMA CountInvariant == Spec => []CountInv
<1>1. Init => CountInv
  BY HeapInit DEF Init, CountInv, BootInv, CountersAgree
<1>2. CountInv /\ [Next]_vars => CountInv'
  BY RangeStep, ThreadStep, PlacedStep, BootStep, CountersStep DEF CountInv, HeapInv
<1> QED BY <1>1, <1>2, PTL DEF Spec

(* Heaps made, reused and given back, and threads started and ended, are    *)
(* counted right.                                                           *)
THEOREM CountersRight == Spec => []CountersAgree
<1>1. CountInv => CountersAgree
  BY DEF CountInv
<1> QED BY <1>1, CountInvariant, PTL
-------------------------------------------------------------------------------
(* The sums.                                                                *)

(* The counts of the heaps add up to the storage not freed and the requests *)
(* that failed.                                                             *)
UnfreedInv == Total(allocUnfreed) = live + failed - forgotten

(* They do so in every step. *)
LEMMA UnfreedStep ==
  ASSUME HeapInv, BootInv, UnfreedInv, [Next]_vars
  PROVE  UnfreedInv'
<1>0. /\ heapManager \in [Thread -> Heaps \cup {None}] /\ Main \in Thread
      /\ heapManagersList \in Seq(Place) /\ IsInjective(heapManagersList)
      /\ allocUnfreed \in [Heaps -> Int] /\ live \in Nat /\ failed \in Nat /\ forgotten \in Int
  BY MasterAssumption DEF HeapInv, RangeInv, TypeOK, PlacedInv
<1>1. heapManagersList \in Seq(Heaps)
  BY <1>0, InList DEF Heaps
<1>2. SumOf(allocUnfreed, heapManagersList) = live + failed - forgotten
  BY DEF UnfreedInv, Total
<1>3. ASSUME NEW h \in Heaps, NEW n \in Int
      PROVE  SumOf([allocUnfreed EXCEPT ![h] = n], heapManagersList)
               = live + failed - forgotten - allocUnfreed[h] + n
  <2> DEFINE g == [allocUnfreed EXCEPT ![h] = n]
  <2>1. /\ \A x \in Heaps : allocUnfreed[x] \in Int /\ g[x] \in Int
        /\ \A x \in Heaps \ {h} : allocUnfreed[x] = g[x]
        /\ g[h] = n
    BY <1>0, <1>3
  <2> HIDE DEF g
  <2>2. h \in ToSet(heapManagersList)
    BY DEF Heaps
  <2>3. SumOf(g, heapManagersList) = SumOf(allocUnfreed, heapManagersList) - allocUnfreed[h] + g[h]
    BY <1>0, <1>1, <2>1, <2>2, SumChange
  <2> QED BY <1>0, <1>2, <1>3, <2>1, <2>3 DEF g
<1> USE DEF boot, heaps, counts, stats, report, unfreed
<1>4. ASSUME NEW t \in Thread, GetHeap(t) PROVE UnfreedInv'
  <2>1. UNCHANGED <<live, failed, forgotten>> /\ (ReuseHeap \/ NewHeap)
    BY <1>4 DEF GetHeap
  <2>2. CASE ReuseHeap
    BY <1>2, <2>1, <2>2 DEF ReuseHeap, UnfreedInv, Total
  <2>3. CASE NewHeap
    <3>1. /\ heapManagersList' = <<NextHeap>> \o heapManagersList
          /\ NextHeap \in Place /\ NextHeap \notin Heaps
          /\ allocUnfreed' = With(allocUnfreed, NextHeap, 0)
      BY <2>3, NextHeapNew DEF NewHeap, HeapInv
    <3>2. /\ heapManagersList' \in Seq(Place) /\ heapManagersList' # <<>>
          /\ Head(heapManagersList') = NextHeap /\ Tail(heapManagersList') = heapManagersList
      BY <1>0, <3>1, Pushed
    <3>3. SumOf(allocUnfreed', heapManagersList')
            = SumOf(allocUnfreed', heapManagersList) + allocUnfreed'[NextHeap]
      BY <3>2, SumFirst
    <3>4. allocUnfreed'[NextHeap] = 0 /\ \A x \in Heaps : allocUnfreed[x] = allocUnfreed'[x]
      BY <1>0, <3>1 DEF With
    <3>5. SumOf(allocUnfreed', heapManagersList) = SumOf(allocUnfreed, heapManagersList)
      BY <1>1, <3>4, SumSame
    <3> QED BY <1>0, <1>2, <2>1, <3>3, <3>4, <3>5 DEF UnfreedInv, Total
  <2> QED BY <2>1, <2>2, <2>3
<1>5. ASSUME NEW t \in Thread, StoreMalloc(t) \/ StoreFree(t) PROVE UnfreedInv'
  <2>0. Store(t)
    BY <1>5 DEF StoreMalloc, StoreFree
  <2> DEFINE h == heapManager[t]
  <2>1. h \in Heaps /\ allocUnfreed[h] \in Int
    BY <1>0, <2>0 DEF Store, At, HeapInv, ThreadInv
  <2>2. UNCHANGED <<heapManagersList, forgotten>>
    BY <2>0 DEF Store
  <2>3. ASSUME NEW d \in {1, -1}, allocUnfreed' = [allocUnfreed EXCEPT ![h] = allocUnfreed[h] + d]
        PROVE  Total(allocUnfreed)' = live + failed - forgotten + d
    <3>1. allocUnfreed[h] + d \in Int
      BY <2>1, <2>3
    <3> HIDE DEF h
    <3>2. SumOf(allocUnfreed', heapManagersList)
            = live + failed - forgotten - allocUnfreed[h] + (allocUnfreed[h] + d)
      BY <1>3, <2>1, <2>3, <3>1
    <3>3. SumOf(allocUnfreed', heapManagersList) = live + failed - forgotten + d
      BY <1>0, <2>1, <2>3, <3>2
    <3> QED BY <2>2, <3>3 DEF Total
  <2>4. \/ /\ allocUnfreed' = [allocUnfreed EXCEPT ![h] = allocUnfreed[h] + 1]
           /\ live' = live + 1 /\ failed' = failed
        \/ /\ allocUnfreed' = [allocUnfreed EXCEPT ![h] = allocUnfreed[h] + 1]
           /\ failed' = failed + 1 /\ live' = live
        \/ /\ allocUnfreed' = [allocUnfreed EXCEPT ![h] = allocUnfreed[h] + (-1)]
           /\ live' = live - 1 /\ failed' = failed
    BY <1>5, <2>1 DEF StoreMalloc, StoreFree
  <2> HIDE DEF h
  <2>5. \/ /\ Total(allocUnfreed)' = live + failed - forgotten + 1
           /\ live' = live + 1 /\ failed' = failed
        \/ /\ Total(allocUnfreed)' = live + failed - forgotten + 1
           /\ failed' = failed + 1 /\ live' = live
        \/ /\ Total(allocUnfreed)' = live + failed - forgotten + (-1)
           /\ live' = live - 1 /\ failed' = failed
    BY <2>3, <2>4
  <2>6. Total(allocUnfreed)' = live' + failed' - forgotten'
    BY <1>0, <2>2, <2>5
  <2> QED BY <2>6 DEF UnfreedInv
<1>6. ASSUME StartupDone PROVE UnfreedInv'
  <2> DEFINE h == heapManager[Main]
  <2>1. h \in Heaps /\ allocUnfreed[h] \in Int /\ forgotten = 0
    BY <1>0, <1>6 DEF StartupDone, At, HeapInv, ThreadInv, BootInv
  <2>2. /\ allocUnfreed' = [allocUnfreed EXCEPT ![h] = 0] /\ forgotten' = allocUnfreed[h]
        /\ UNCHANGED <<heapManagersList, live, failed>>
    BY <1>6 DEF StartupDone
  <2> HIDE DEF h
  <2>3. SumOf(allocUnfreed', heapManagersList)
          = live + failed - forgotten - allocUnfreed[h] + 0
    <3>1. 0 \in Int /\ allocUnfreed' = [allocUnfreed EXCEPT ![h] = 0]
      BY <2>2
    <3> QED BY <1>3, <2>1, <3>1
  <2> QED BY <1>0, <2>1, <2>2, <2>3 DEF UnfreedInv, Total
<1>7. ASSUME NEW t \in Thread, Elsewhere(t), ~ StoreMalloc(t), ~ StoreFree(t), ~ StartupDone
      PROVE  UnfreedInv'
  <2>1. UNCHANGED <<allocUnfreed, live, failed, forgotten>>
    BY <1>7 DEF Elsewhere, Boots, MasterCtor, Register, Create, EndUnregistered, Dtor, Retain,
      Recycle, Load, FreeNull, Collect, StartWalk, CollectHeap, Clear, ClearHeap, EndWalk,
      StartupKey, Shutdown, ShutdownHeap, ShutdownDone
  <2> QED BY <1>7, <2>1, ListKept DEF UnfreedInv, Total
<1>8. CASE UNCHANGED vars
  BY <1>8 DEF vars, UnfreedInv, Total
<1> QED BY <1>4, <1>5, <1>6, <1>7, <1>8, StepKinds

(* What shutdown has added and the heaps it has not yet visited make up the *)
(* count, as long as no other thread counts.                                *)
ShutdownInv ==
  /\ pc[Main] # "shutdown" => total = 0 /\ reported = None
  /\ pc[Main] = "shutdown" /\ ~stirred =>
       total + SumOf(allocUnfreed, walk) = live + failed - forgotten
  /\ reported # None => walk = <<>> /\ reported = total

(* So they do in every step. *)
LEMMA ShutdownStep ==
  ASSUME HeapInv, UnfreedInv, ShutdownInv, [Next]_vars
  PROVE  ShutdownInv'
<1>0. /\ Main \in Thread /\ pc \in [Thread -> Label]
      /\ allocUnfreed \in [Heaps -> Int] /\ total \in Int /\ stirred \in BOOLEAN
      /\ walk \in Seq(Place) /\ ToSet(walk) \subseteq Heaps
  BY MasterAssumption DEF HeapInv, RangeInv, TypeOK, Label
<1>1. walk \in Seq(Heaps)
  <2>1. walk \in Seq(ToSet(walk))
    BY <1>0, InList
  <2> QED BY <1>0, <2>1
<1> USE DEF boot, heaps, counts, stats, report, unfreed, final, Goto, At
<1>2. ASSUME NEW t \in Thread, GetHeap(t) PROVE ShutdownInv'
  <2>1. /\ UNCHANGED <<final, live, failed, forgotten>> /\ (ReuseHeap \/ NewHeap)
        /\ pc' = [pc EXCEPT ![t] = "register"] /\ pc[t] = "boot"
    BY <1>2 DEF GetHeap
  <2>2. pc'[Main] = "shutdown" <=> pc[Main] = "shutdown"
    BY <1>0, <2>1
  <2>3. \A x \in Heaps : allocUnfreed'[x] = allocUnfreed[x]
    <3>1. CASE ReuseHeap
      BY <3>1 DEF ReuseHeap
    <3>2. CASE NewHeap
      <4>1. NextHeap \notin Heaps /\ allocUnfreed' = With(allocUnfreed, NextHeap, 0)
        BY <3>2, NextHeapNew DEF NewHeap, HeapInv
      <4> QED BY <1>0, <4>1 DEF With
    <3> QED BY <2>1, <3>1, <3>2
  <2>4. SumOf(allocUnfreed', walk) = SumOf(allocUnfreed, walk)
    BY <1>1, <2>3, SumSame
  <2> QED BY <2>1, <2>2, <2>4 DEF ShutdownInv
<1>3. ASSUME NEW t \in Thread, StoreMalloc(t) \/ StoreFree(t) PROVE ShutdownInv'
  <2>1. /\ pc' = [pc EXCEPT ![t] = "idle"] /\ pc[t] = "count"
        /\ stirred' = (stirred \/ pc[Main] = "shutdown")
        /\ UNCHANGED <<walk, total, reported>>
    BY <1>3 DEF StoreMalloc, StoreFree, Store
  <2>2. pc'[Main] = "shutdown" <=> pc[Main] = "shutdown"
    BY <1>0, <2>1
  <2> QED BY <2>1, <2>2 DEF ShutdownInv
<1>4. ASSUME StartupDone PROVE ShutdownInv'
  BY <1>0, <1>4 DEF StartupDone, ShutdownInv
<1>5. ASSUME Shutdown PROVE ShutdownInv'
  <2>1. /\ pc[Main] = "idle" /\ walk' = heapManagersList
        /\ UNCHANGED <<unfreed, heapManagersList, total, reported, stirred>>
    BY <1>5 DEF Shutdown
  <2>2. total = 0 /\ reported = None
    BY <2>1 DEF ShutdownInv
  <2>3. pc'[Main] = "shutdown"
    BY <1>0, <1>5 DEF Shutdown
  <2>4. SumOf(allocUnfreed, heapManagersList) \in Int
    <3>1. heapManagersList \in Seq(Heaps) /\ \A x \in Heaps : allocUnfreed[x] \in Int
      BY <1>0, InList DEF HeapInv, RangeInv, Heaps
    <3> QED BY <3>1, SumInt
  <2>5. total' + SumOf(allocUnfreed', walk') = live + failed - forgotten
    BY <2>1, <2>2, <2>4 DEF UnfreedInv, Total
  <2> QED BY <2>1, <2>2, <2>3, <2>5 DEF ShutdownInv
<1>6. ASSUME ShutdownHeap, reported = None PROVE ShutdownInv'
  <2>1. /\ pc[Main] = "shutdown" /\ walk # <<>> /\ walk' = Tail(walk)
        /\ total' = total + allocUnfreed[Head(walk)]
        /\ UNCHANGED <<pc, unfreed, reported, stirred>>
    BY <1>6 DEF ShutdownHeap
  <2>2. /\ Head(walk) \in Heaps /\ Tail(walk) \in Seq(Heaps)
        /\ SumOf(allocUnfreed, walk) = SumOf(allocUnfreed, Tail(walk)) + allocUnfreed[Head(walk)]
    BY <1>1, <2>1, TailOf, SumFirst
  <2>3. SumOf(allocUnfreed, Tail(walk)) \in Int /\ allocUnfreed[Head(walk)] \in Int
    <3>1. \A x \in Heaps : allocUnfreed[x] \in Int
      BY <1>0
    <3> QED BY <2>2, <3>1, SumInt
  <2>4. total' + SumOf(allocUnfreed', walk') = total + SumOf(allocUnfreed, walk)
    BY <1>0, <2>1, <2>2, <2>3
  <2> QED BY <1>6, <2>1, <2>4 DEF ShutdownInv
<1>7. ASSUME ShutdownDone PROVE ShutdownInv'
  BY <1>7 DEF ShutdownDone, ShutdownInv
<1>8. ASSUME NEW t \in Thread, Elsewhere(t), ~ StoreMalloc(t), ~ StoreFree(t), ~ StartupDone,
             ~ Shutdown, ~ ShutdownHeap, ~ ShutdownDone
      PROVE  ShutdownInv'
  <2>1. /\ UNCHANGED <<unfreed, final>>
        /\ pc[Main] = "shutdown" <=> pc'[Main] = "shutdown"
    BY <1>0, <1>8 DEF Elsewhere, Boots, MasterCtor, Register, Create, EndUnregistered, Dtor, Retain,
      Recycle, Load, FreeNull, Collect, StartWalk, CollectHeap, Clear, ClearHeap, EndWalk,
      StartupKey
  <2> QED BY <2>1 DEF ShutdownInv
<1>9. CASE UNCHANGED vars
  BY <1>9 DEF vars, ShutdownInv
<1>10. reported = None \/ UNCHANGED vars
  BY DEF Next
<1> QED BY <1>2, <1>3, <1>4, <1>5, <1>6, <1>7, <1>8, <1>9, <1>10, StepKinds

LEMMA UnfreedInvariant == Spec => [](CountInv /\ UnfreedInv /\ ShutdownInv)
<1>1. Init => UnfreedInv /\ ShutdownInv
  BY SumNothing, MasterAssumption DEF Init, UnfreedInv, ShutdownInv, Total
<1>2. CountInv /\ UnfreedInv /\ ShutdownInv /\ [Next]_vars => UnfreedInv' /\ ShutdownInv'
  BY UnfreedStep, ShutdownStep DEF CountInv
<1> QED BY <1>1, <1>2, CountInvariant, PTL DEF Spec

(* As long as no request has failed, what the heaps count is the storage    *)
(* allocated and not freed, for any number of heaps, threads that end and   *)
(* heaps that are used again.                                               *)
THEOREM UnfreedRight == Spec => []UnfreedAdds
<1>1. CountInv /\ UnfreedInv /\ ShutdownInv => UnfreedAdds
  BY DEF CountInv, HeapInv, RangeInv, TypeOK, UnfreedInv, UnfreedAdds
<1> QED BY <1>1, UnfreedInvariant, PTL

(* What shutdown reports is that storage, whatever threads start, end and   *)
(* get heaps during its walk, as long as none of them allocates or frees.   *)
THEOREM ReportedRight == Spec => []UnfreedReported
<1>1. CountInv /\ UnfreedInv /\ ShutdownInv => UnfreedReported
  <2>1. SUFFICES ASSUME CountInv, ShutdownInv, reported # None, failed = 0, ~stirred
                 PROVE  reported = live - forgotten
    BY DEF UnfreedReported
  <2>2. /\ pc[Main] = "shutdown" /\ walk = <<>> /\ reported = total
        /\ total + SumOf(allocUnfreed, walk) = live + failed - forgotten
    BY <2>1 DEF ShutdownInv
  <2>3. total \in Int /\ live \in Nat /\ forgotten \in Int
    BY <2>1 DEF CountInv, HeapInv, RangeInv, TypeOK
  <2> QED BY <2>1, <2>2, <2>3, SumNothing
<1> QED BY <1>1, UnfreedInvariant, PTL

(* The calls of a list of heaps, when those of one heap change. *)
LEMMA CallsChange ==
  ASSUME HeapInv, NEW h \in Heaps, NEW n \in Nat,
         NEW list \in Seq(Place), ToSet(list) \subseteq Heaps, IsInjective(list)
  PROVE  /\ SumOf(calls, list) \in Int
         /\ SumOf([calls EXCEPT ![h] = n], list) =
              IF h \in ToSet(list) THEN SumOf(calls, list) - calls[h] + n ELSE SumOf(calls, list)
<1> DEFINE g == [calls EXCEPT ![h] = n]
<1>1. calls \in [Heaps -> Nat] /\ list \in Seq(ToSet(list))
  BY InList DEF HeapInv, RangeInv, TypeOK
<1>2. list \in Seq(Heaps)
  BY <1>1
<1>3. /\ \A x \in Heaps : calls[x] \in Int /\ g[x] \in Int
      /\ \A x \in Heaps \ {h} : calls[x] = g[x]
      /\ g[h] = n
  BY <1>1
<1> HIDE DEF g
<1>4. SumOf(calls, list) \in Int
  BY <1>2, <1>3, SumInt
<1>5. CASE h \in ToSet(list)
  <2>1. SumOf(g, list) = SumOf(calls, list) - calls[h] + g[h]
    BY <1>2, <1>3, <1>5, SumChange
  <2> QED BY <1>3, <1>4, <1>5, <2>1 DEF g
<1>6. CASE h \notin ToSet(list)
  <2>1. \A x \in ToSet(list) : g[x] = calls[x]
    BY <1>3, <1>6
  <2>2. SumOf(g, list) = SumOf(calls, list)
    BY <1>1, <2>1, SumSame
  <2> QED BY <1>4, <1>6, <2>2 DEF g
<1> QED BY <1>5, <1>6

(* In all steps but these nothing happens to the statistics. *)
LEMMA StatsKept ==
  ASSUME NEW t \in Thread, Elsewhere(t), ~ Dtor(t), ~ Retain(t), ~ Load(t), ~ StoreMalloc(t),
         ~ StoreFree(t), ~ FreeNull(t), ~ Collect(t), ~ CollectHeap(t), ~ Clear(t), ~ ClearHeap(t),
         ~ EndWalk(t), ~ MasterCtor(t)
  PROVE  /\ UNCHANGED <<freeHeapManagersList, heapManager, calls, masterCalls, counted, disturbed,
                        lost, loaded, cursor, sum, before>>
         /\ \/ pc' = pc
            \/ \E u \in Thread, label \in {"idle", "boot", "startup", "shutdown"} :
                 pc' = [pc EXCEPT ![u] = label] /\ pc[u] # "retain"
BY MasterAssumption DEF Elsewhere, At, Boots, Register, Create, EndUnregistered, Recycle, StartupKey,
  StartupDone, Shutdown, ShutdownHeap, ShutdownDone, Goto, heaps, stats, report

(* No call is lost or counted twice, in every step. *)
LEMMA StatsStep ==
  ASSUME HeapInv, BootInv, StatsInv, [Next]_vars
  PROVE  StatsInv'
<1>0. /\ heapManager \in [Thread -> Heaps \cup {None}] /\ None \notin Heaps
      /\ heapManagersList \in Seq(Place) /\ IsInjective(heapManagersList)
      /\ freeHeapManagersList \in Seq(Place) /\ ToSet(freeHeapManagersList) \subseteq Heaps
      /\ calls \in [Heaps -> Nat] /\ loaded \in [Thread -> Nat] /\ disturbed \in BOOLEAN
      /\ masterCalls \in Nat /\ counted \in Int /\ sum \in Nat /\ before \in Int /\ lost \in Nat
  <2>1. None \notin Heaps
    BY MasterAssumption, InList DEF Heaps, Place, HeapInv, RangeInv
  <2> QED BY <2>1 DEF HeapInv, RangeInv, TypeOK, PlacedInv
<1>1. /\ cursor \in Seq(Place) /\ ToSet(cursor) \subseteq Heaps /\ IsInjective(cursor)
      /\ ToSet(heapManagersList) = Heaps
  BY DEF HeapInv, RangeInv, TypeOK, StatsInv, WalkInv, Heaps
<1>2. pc \in [Thread -> Label]
  BY DEF HeapInv, RangeInv, TypeOK, Label
<1>3. \A u \in Thread : pc[u] = "count" => heapManager[u] \in Heaps
  BY <1>0 DEF HeapInv, ThreadInv
<1>4. \A t, u \in Thread : heapManager[t] \in Heaps /\ heapManager[t] = heapManager[u] => t = u
  BY <1>0 DEF HeapInv, PlacedInv
<1>5. \A t, u \in Thread :
        pc[t] \in {"retain", "collect", "clear"} /\ pc[u] \in {"retain", "collect", "clear"} => t = u
  BY DEF HeapInv, LockInv
<1>6. mgrLock = None => \A u \in Thread : pc[u] \notin {"retain", "collect", "clear"}
  BY MasterAssumption DEF HeapInv, LockInv
<1>19. Total(calls) \in Int
  <2>1. heapManagersList \in Seq(Heaps) /\ \A x \in Heaps : calls[x] \in Int
    BY <1>0, InList DEF Heaps
  <2> QED BY <2>1, SumInt DEF Total
<1>20. (\A u \in Thread : pc[u] # "retain") =>
         disturbed \/ masterCalls + Total(calls) = counted - lost
  BY DEF StatsInv, RetainInv
<1>21. \A u \in Thread : pc[u] = "retain" =>
         /\ loaded[u] <= masterCalls /\ masterCalls - loaded[u] <= lost
         /\ disturbed \/ loaded[u] + Total(calls) = counted - lost
  BY DEF StatsInv, RetainInv
<1>24. masterCalls \in Nat /\ counted \in Int /\ lost \in Nat
  BY <1>0
<1>25. \A n \in Int : masterCalls + n = counted - lost => 0 + n = counted - masterCalls - lost
  BY <1>24
<1> USE DEF boot, heaps, counts, stats, report, unfreed, final, Goto, At
<1>7. ASSUME NEW t \in Thread, GetHeap(t) PROVE StatsInv'
  <2>1. /\ mgrLock = None /\ pc' = [pc EXCEPT ![t] = "register"]
        /\ heapManager' = [heapManager EXCEPT ![t] = GivenHeap]
        /\ calls' = With(calls, GivenHeap, 0)
        /\ UNCHANGED <<masterCalls, counted, disturbed, lost, loaded, cursor, sum, before>>
        /\ ReuseHeap \/ NewHeap
        /\ heapManager[t] = None
    BY <1>7 DEF GetHeap, HeapInv, ThreadInv
  <2>7. \A k \in Heaps : (\A u \in Thread : heapManager'[u] # k) =>
          \A u \in Thread : heapManager[u] # k
    BY <1>0, <2>1
  <2>2. \A u \in Thread : /\ pc'[u] \notin {"retain", "collect", "clear"}
                          /\ pc'[u] = "count" => u # t /\ pc[u] = "count"
    BY <1>2, <1>6, <2>1
  <2>3. WalkInv'
    BY <1>1, <2>1, <2>2 DEF WalkInv
  <2>4. /\ \A x \in Heaps : calls'[x] = calls[x]
        /\ IdleInv'
        /\ SumOf(calls', heapManagersList') = SumOf(calls, heapManagersList)
    <3>1. CASE ReuseHeap
      <4>1. /\ freeHeapManagersList # <<>> /\ GivenHeap = Head(freeHeapManagersList)
            /\ freeHeapManagersList' = Tail(freeHeapManagersList)
        BY <3>1, HeapGiven DEF ReuseHeap, HeapInv
      <4>2. ToSet(freeHeapManagersList) = {GivenHeap} \cup ToSet(freeHeapManagersList')
        BY <1>0, <4>1, TailOf
      <4>3. GivenHeap \in Heaps /\ calls[GivenHeap] = 0
        <5>1. GivenHeap \in ToSet(freeHeapManagersList) /\ GivenHeap \in Heaps
          BY <1>0, <4>2
        <5>2. \A u \in Thread : heapManager[u] # GivenHeap
          BY <1>6, <2>1, <5>1 DEF HeapInv, PlacedInv
        <5> QED BY <5>1, <5>2 DEF StatsInv, IdleInv
      <4>4. calls' = calls
        BY <1>0, <2>1, <4>3 DEF With
      <4>5. IdleInv'
        BY <1>0, <2>7, <4>2, <4>4 DEF StatsInv, IdleInv
      <4> QED BY <3>1, <4>4, <4>5 DEF ReuseHeap
    <3>2. CASE NewHeap
      <4>1. /\ heapManagersList' = <<NextHeap>> \o heapManagersList /\ GivenHeap = NextHeap
            /\ NextHeap \in Place /\ NextHeap \notin Heaps
            /\ UNCHANGED freeHeapManagersList
        BY <3>2, NextHeapNew DEF NewHeap, HeapInv, GivenHeap
      <4>2. calls'[NextHeap] = 0 /\ \A x \in Heaps : calls'[x] = calls[x]
        BY <1>0, <2>1, <4>1 DEF With
      <4>3. /\ heapManagersList' \in Seq(Place) /\ heapManagersList' # <<>>
            /\ Head(heapManagersList') = NextHeap /\ Tail(heapManagersList') = heapManagersList
        BY <1>0, <4>1, Pushed
      <4>4. SumOf(calls', heapManagersList') = SumOf(calls', heapManagersList) + 0
        BY <4>2, <4>3, SumFirst
      <4>5. heapManagersList \in Seq(Heaps)
        BY <1>0, InList DEF Heaps
      <4>6. /\ SumOf(calls', heapManagersList) = SumOf(calls, heapManagersList)
            /\ SumOf(calls, heapManagersList) \in Int
        <5>1. \A x \in Heaps : calls[x] \in Int /\ calls[x] = calls'[x]
          BY <1>0, <4>2
        <5>2. SumOf(calls, heapManagersList) \in Int
          BY <4>5, <5>1, SumInt
        <5> QED BY <4>5, <5>1, <5>2, SumSame
      <4>7. IdleInv'
        BY <1>0, <2>7, <4>1, <4>2 DEF StatsInv, IdleInv
      <4> QED BY <4>2, <4>4, <4>6, <4>7
    <3> QED BY <2>1, <3>1, <3>2
  <2>5. LoadedInv'
    BY <1>0, <1>3, <2>1, <2>2, <2>4 DEF StatsInv, LoadedInv
  <2>6. RetainInv'
    BY <1>6, <1>20, <2>1, <2>2, <2>4 DEF RetainInv, Total
  <2> QED BY <2>3, <2>4, <2>5, <2>6 DEF StatsInv
<1>8. ASSUME NEW t \in Thread, Dtor(t) PROVE StatsInv'
  <2> DEFINE h == heapManager[t]
  <2>1. h \in Place
    <3>1. h \in Heaps
      BY <1>0, <1>8 DEF Dtor, HeapInv, ThreadInv
    <3> QED BY <1>0, <3>1, InList DEF Heaps
  <2>2. /\ mgrLock = None /\ pc[t] = "idle" /\ pc' = [pc EXCEPT ![t] = "retain"]
        /\ loaded' = [loaded EXCEPT ![t] = masterCalls]
        /\ freeHeapManagersList' = <<h>> \o freeHeapManagersList
        /\ UNCHANGED <<heapManager, heapManagersList, calls, masterCalls, counted, disturbed, lost,
                       cursor, sum, before>>
    BY <1>8 DEF Dtor
  <2>3. \A u \in Thread : pc'[u] = (IF u = t THEN "retain" ELSE pc[u]) /\ pc[u] # "retain"
    BY <1>2, <1>6, <2>2
  <2>4. WalkInv'
    BY <1>1, <1>6, <2>2, <2>3 DEF WalkInv
  <2>5. ToSet(freeHeapManagersList') = {h} \cup ToSet(freeHeapManagersList)
    BY <1>0, <2>1, <2>2, Pushed
  <2>6. IdleInv'
    BY <2>2, <2>5 DEF StatsInv, IdleInv
  <2>7. LoadedInv'
    BY <1>0, <2>2, <2>3 DEF StatsInv, LoadedInv
  <2>8. loaded'[t] = masterCalls
    BY <1>0, <2>2
  <2>9. disturbed \/ masterCalls + Total(calls) = counted - lost
    BY <1>20, <2>3
  <2>10. RetainInv'
    BY <1>0, <2>2, <2>3, <2>8, <2>9 DEF RetainInv, Total
  <2> QED BY <2>4, <2>6, <2>7, <2>10 DEF StatsInv
<1>22. ASSUME NEW t \in Thread, Retain(t) PROVE StatsInv'
  <2> DEFINE h == heapManager[t]
  <2>1. h \in Heaps /\ loaded[t] \in Nat /\ calls[h] \in Nat
    BY <1>0, <1>22 DEF Retain, HeapInv, ThreadInv
  <2>2. /\ pc[t] = "retain" /\ pc' = [pc EXCEPT ![t] = "idle"]
        /\ calls' = [calls EXCEPT ![h] = 0]
        /\ masterCalls' = loaded[t] + calls[h]
        /\ heapManager' = [heapManager EXCEPT ![t] = None]
        /\ loaded' = [loaded EXCEPT ![t] = 0]
        /\ UNCHANGED <<freeHeapManagersList, heapManagersList, counted, disturbed, lost, cursor, sum,
                       before>>
    BY <1>22 DEF Retain
  <2>3. /\ SumOf(calls', heapManagersList) = SumOf(calls, heapManagersList) - calls[h] + 0
        /\ SumOf(calls, heapManagersList) \in Int
    BY <1>0, <1>1, <2>1, <2>2, CallsChange
  <2>4. \A u \in Thread : /\ pc'[u] \notin {"retain", "collect", "clear"}
                          /\ pc'[u] = "count" => pc[u] = "count" /\ u # t
    BY <1>2, <1>5, <2>2
  <2>5. WalkInv'
    BY <1>1, <2>2, <2>4 DEF WalkInv
  <2>6. IdleInv'
    BY <1>0, <2>1, <2>2 DEF StatsInv, IdleInv
  <2>7. \A u \in Thread : pc'[u] = "count" =>
          heapManager'[u] = heapManager[u] /\ heapManager[u] \in Heaps /\ heapManager[u] # h
    BY <1>0, <1>3, <1>4, <2>1, <2>2, <2>4
  <2> HIDE DEF h
  <2>8. LoadedInv'
    BY <1>0, <2>1, <2>2, <2>4, <2>7 DEF StatsInv, LoadedInv
  <2>9. disturbed \/ loaded[t] + SumOf(calls, heapManagersList) = counted - lost
    BY <1>21, <2>2 DEF Total
  <2>10. disturbed \/ masterCalls' + SumOf(calls', heapManagersList) = counted - lost
    BY <1>0, <2>1, <2>2, <2>3, <2>9
  <2>11. RetainInv'
    BY <2>2, <2>4, <2>10 DEF RetainInv, Total
  <2> QED BY <2>5, <2>6, <2>8, <2>11 DEF StatsInv
<1>23. ASSUME NEW t \in Thread, FreeNull(t) PROVE StatsInv'
  <2>1. /\ masterCalls' = masterCalls + 1 /\ counted' = counted + 1
        /\ lost' = IF \E u \in Thread : pc[u] = "retain" THEN lost + 1 ELSE lost
        /\ UNCHANGED <<pc, freeHeapManagersList, heapManager, heapManagersList, calls, disturbed,
                       loaded, cursor, sum, before>>
    BY <1>23 DEF FreeNull
  <2>2. IdleInv' /\ LoadedInv'
    BY <2>1 DEF StatsInv, IdleInv, LoadedInv
  <2>3. WalkInv'
    <3>1. CASE \E u \in Thread : pc[u] = "collect"
      <4>1. lost' = lost
        BY <1>5, <2>1, <3>1
      <4>2. SumOf(calls, cursor) \in Int
        <5>1. cursor \in Seq(ToSet(cursor))
          BY <1>1, InList
        <5>2. cursor \in Seq(Heaps) /\ \A x \in Heaps : calls[x] \in Int
          BY <1>0, <1>1, <5>1
        <5> QED BY <5>2, SumInt
      <4> QED BY <1>0, <2>1, <3>1, <4>1, <4>2 DEF StatsInv, WalkInv
    <3>2. CASE ~ \E u \in Thread : pc[u] = "collect"
      BY <1>1, <2>1, <3>2 DEF WalkInv
    <3> QED BY <3>1, <3>2
  <2>4. Total(calls)' = Total(calls)
    BY <2>1 DEF Total
  <2>5. RetainInv'
    <3>1. CASE \E u \in Thread : pc[u] = "retain"
      <4>1. lost' = lost + 1
        BY <2>1, <3>1
      <4>2. ASSUME NEW u \in Thread, pc'[u] = "retain"
            PROVE  /\ loaded'[u] <= masterCalls' /\ masterCalls' - loaded'[u] <= lost'
                   /\ disturbed' \/ loaded'[u] + Total(calls)' = counted' - lost'
        <5>1. loaded[u] \in Nat /\ loaded'[u] = loaded[u] /\ pc[u] = "retain" /\ disturbed' = disturbed
          BY <1>0, <2>1, <4>2
        <5>2. /\ loaded[u] <= masterCalls /\ masterCalls - loaded[u] <= lost
              /\ disturbed \/ loaded[u] + Total(calls) = counted - lost
          BY <1>21, <5>1
        <5>3. loaded[u] + Total(calls) = counted - lost =>
                loaded'[u] + Total(calls)' = counted' - lost'
          BY <1>0, <1>19, <2>1, <2>4, <4>1, <5>1
        <5>4. loaded'[u] <= masterCalls' /\ masterCalls' - loaded'[u] <= lost'
          BY <1>0, <2>1, <4>1, <5>1, <5>2
        <5> QED BY <5>1, <5>2, <5>3, <5>4
      <4> QED BY <2>1, <3>1, <4>2 DEF RetainInv
    <3>2. CASE \A u \in Thread : pc[u] # "retain"
      <4>1. lost' = lost
        BY <2>1, <3>2
      <4>2. masterCalls + Total(calls) = counted - lost =>
              masterCalls' + Total(calls)' = counted' - lost'
        <5>1. masterCalls' = masterCalls + 1 /\ counted' = counted + 1
          BY <2>1
        <5> QED BY <1>19, <1>24, <2>4, <4>1, <5>1
      <4> QED BY <1>20, <2>1, <3>2, <4>2 DEF RetainInv
    <3> QED BY <3>1, <3>2
  <2> QED BY <2>2, <2>3, <2>5 DEF StatsInv
<1>9. ASSUME NEW t \in Thread, Load(t) PROVE StatsInv'
  <2>1. /\ pc' = [pc EXCEPT ![t] = "count"] /\ pc[t] = "idle"
        /\ loaded' = [loaded EXCEPT ![t] = calls[heapManager[t]]]
        /\ UNCHANGED <<freeHeapManagersList, heapManager, heapManagersList, calls, masterCalls, counted,
                       disturbed, lost, cursor, sum, before>>
    BY <1>9 DEF Load
  <2>2. LoadedInv'
    BY <1>0, <1>2, <2>1 DEF StatsInv, LoadedInv
  <2>3. \A u \in Thread : /\ pc'[u] = "collect" => pc[u] = "collect"
                          /\ pc'[u] = "retain" <=> pc[u] = "retain"
                          /\ pc'[u] = "retain" => loaded'[u] = loaded[u]
    BY <1>0, <1>2, <2>1
  <2>4. WalkInv'
    BY <2>1, <2>3 DEF StatsInv, WalkInv
  <2>5. RetainInv'
    BY <1>20, <1>21, <2>1, <2>3 DEF RetainInv, Total
  <2>6. IdleInv'
    BY <2>1 DEF StatsInv, IdleInv
  <2> QED BY <2>2, <2>4, <2>5, <2>6 DEF StatsInv
<1>10. ASSUME NEW t \in Thread, StoreMalloc(t) \/ StoreFree(t) PROVE StatsInv'
  <2> DEFINE h == heapManager[t]
  <2>0. Store(t)
    BY <1>10 DEF StoreMalloc, StoreFree
  <2>1. h \in Heaps /\ loaded[t] + 1 \in Nat
    BY <1>0, <1>3, <2>0 DEF Store
  <2>2. /\ pc[t] = "count" /\ pc' = [pc EXCEPT ![t] = "idle"]
        /\ calls' = [calls EXCEPT ![h] = loaded[t] + 1] /\ counted' = counted + 1
        /\ loaded' = [loaded EXCEPT ![t] = 0]
        /\ UNCHANGED <<freeHeapManagersList, heapManager, heapManagersList, masterCalls, disturbed,
                       lost, cursor, sum, before>>
    BY <2>0 DEF Store
  <2>4. IdleInv'
    BY <1>0, <2>1, <2>2 DEF StatsInv, IdleInv
  <2>5. \A u \in Thread : pc'[u] = "count" =>
          pc[u] = "count" /\ u # t /\ heapManager[u] \in Heaps /\ heapManager[u] # h
    BY <1>2, <1>3, <1>4, <2>1, <2>2
  <2>6. ~ disturbed => loaded[t] = calls[h]
    BY <2>2 DEF StatsInv, LoadedInv
  <2> HIDE DEF h
  <2>7. LoadedInv'
    BY <1>0, <2>1, <2>2, <2>5 DEF StatsInv, LoadedInv
  <2>8. ASSUME NEW list \in Seq(Place), ToSet(list) \subseteq Heaps, IsInjective(list), ~ disturbed
        PROVE  /\ SumOf(calls, list) \in Int
               /\ SumOf(calls', list) =
                    IF h \in ToSet(list) THEN SumOf(calls, list) + 1 ELSE SumOf(calls, list)
    <3>1. calls[h] \in Nat /\ loaded[t] + 1 = calls[h] + 1
      BY <1>0, <2>1, <2>6, <2>8
    <3>2. /\ SumOf(calls, list) \in Int
          /\ SumOf(calls', list) =
               IF h \in ToSet(list) THEN SumOf(calls, list) - calls[h] + (loaded[t] + 1)
                                     ELSE SumOf(calls, list)
      BY <2>1, <2>2, <2>8, CallsChange
    <3> QED BY <3>1, <3>2
  <2>13. counted' = counted + 1 /\ lost' = lost /\ masterCalls' = masterCalls
    BY <2>2
  <2>9. ~ disturbed => Total(calls)' = Total(calls) + 1 /\ counted' = counted + 1
    BY <1>0, <1>1, <2>1, <2>2, <2>8 DEF Total
  <2>11. \A u \in Thread : /\ pc'[u] = "retain" <=> pc[u] = "retain"
                           /\ pc'[u] = "retain" => loaded'[u] = loaded[u] /\ loaded[u] \in Nat
    BY <1>0, <1>2, <2>2
  <2>12. RetainInv'
    <3>1. ASSUME NEW u \in Thread, pc'[u] = "retain"
          PROVE  /\ loaded'[u] <= masterCalls' /\ masterCalls' - loaded'[u] <= lost'
                 /\ disturbed' \/ loaded'[u] + Total(calls)' = counted' - lost'
      <4>1. /\ loaded[u] <= masterCalls /\ masterCalls - loaded[u] <= lost
            /\ loaded[u] \in Nat /\ loaded'[u] = loaded[u]
            /\ disturbed \/ loaded[u] + Total(calls) = counted - lost
        BY <1>21, <2>11, <3>1
      <4>2. ~ disturbed => loaded'[u] + Total(calls)' = counted' - lost'
        <5>1. /\ loaded[u] \in Nat /\ loaded'[u] = loaded[u]
              /\ ~ disturbed => loaded[u] + Total(calls) = counted - lost
          BY <4>1
        <5>2. ~ disturbed => Total(calls)' = Total(calls) + 1
          BY <2>9
        <5> QED BY <1>19, <1>24, <2>13, <5>1, <5>2
      <4> QED BY <2>2, <4>1, <4>2
    <3>2. ASSUME \A u \in Thread : pc'[u] # "retain"
          PROVE  disturbed' \/ masterCalls' + Total(calls)' = counted' - lost'
      <4>1. disturbed \/ masterCalls + Total(calls) = counted - lost
        BY <1>20, <2>11, <3>2
      <4>2. ~ disturbed => masterCalls' + Total(calls)' = counted' - lost'
        <5>1. ~ disturbed => Total(calls)' = Total(calls) + 1
          BY <2>9
        <5> QED BY <1>19, <1>24, <2>13, <4>1, <5>1
      <4> QED BY <2>2, <4>2
    <3> QED BY <3>1, <3>2 DEF RetainInv
  <2>10. WalkInv'
    <3>1. CASE ~ disturbed /\ \E u \in Thread : pc'[u] = "collect"
      <4>1. \E u \in Thread : pc[u] = "collect"
        BY <1>2, <2>2, <3>1
      <4>2. /\ before - lost <= sum + SumOf(calls, cursor)
            /\ sum + SumOf(calls, cursor) <= counted - lost
        BY <3>1, <4>1 DEF StatsInv, WalkInv
      <4>3. /\ SumOf(calls, cursor) \in Int
            /\ SumOf(calls', cursor) \in {SumOf(calls, cursor), SumOf(calls, cursor) + 1}
        BY <1>1, <2>8, <3>1
      <4>4. /\ before - lost <= sum + SumOf(calls', cursor)
            /\ sum + SumOf(calls', cursor) <= counted + 1 - lost
        BY <1>0, <4>2, <4>3
      <4>5. counted' - lost' = counted + 1 - lost
        BY <1>24, <2>13
      <4> QED BY <1>1, <2>2, <4>4, <4>5 DEF WalkInv
    <3> QED BY <1>1, <2>2, <3>1 DEF WalkInv
  <2> QED BY <2>4, <2>7, <2>10, <2>12 DEF StatsInv
<1>11. ASSUME NEW t \in Thread, Collect(t) PROVE StatsInv'
  <2>1. /\ pc' = [pc EXCEPT ![t] = "collect"] /\ cursor' = heapManagersList
        /\ sum' = masterCalls /\ before' = counted /\ mgrLock = None
        /\ UNCHANGED <<freeHeapManagersList, heapManager, heapManagersList, calls, masterCalls, counted,
                       disturbed, lost, loaded>>
    BY <1>11 DEF Collect, StartWalk
  <2>2. LoadedInv'
    BY <1>2, <2>1 DEF StatsInv, LoadedInv
  <2>3. \A u \in Thread : pc[u] # "retain" /\ pc'[u] # "retain"
    BY <1>2, <1>6, <2>1
  <2>4. disturbed \/ masterCalls + Total(calls) = counted - lost
    BY <1>20, <2>3
  <2>5. WalkInv'
    BY <1>0, <1>19, <2>1, <2>4 DEF Total, WalkInv
  <2>6. RetainInv'
    BY <2>1, <2>3, <2>4 DEF RetainInv, Total
  <2> QED BY <2>1, <2>2, <2>5, <2>6 DEF StatsInv, IdleInv
<1>12. ASSUME NEW t \in Thread, CollectHeap(t) PROVE StatsInv'
  <2>1. /\ pc[t] = "collect" /\ cursor # <<>>
        /\ sum' = sum + calls[Head(cursor)] /\ cursor' = Tail(cursor)
        /\ UNCHANGED <<pc, freeHeapManagersList, heapManager, heapManagersList, calls, masterCalls,
                       counted, disturbed, lost, loaded, before>>
    BY <1>12 DEF CollectHeap
  <2>2. /\ Head(cursor) \in Heaps /\ IsInjective(Tail(cursor)) /\ Tail(cursor) \in Seq(Heaps)
        /\ SumOf(calls, cursor) = SumOf(calls, Tail(cursor)) + calls[Head(cursor)]
    <3>1. cursor \in Seq(Heaps)
      <4>1. cursor \in Seq(ToSet(cursor))
        BY <1>1, InList
      <4> QED BY <1>1, <4>1
    <3> QED BY <1>1, <2>1, <3>1, TailOf, SumFirst
  <2>3. SumOf(calls, Tail(cursor)) \in Int /\ calls[Head(cursor)] \in Nat
    <3>1. \A x \in Heaps : calls[x] \in Int
      BY <1>0
    <3> QED BY <1>0, <2>2, <3>1, SumInt
  <2>4. sum' + SumOf(calls', cursor') = sum + SumOf(calls, cursor)
    BY <1>0, <2>1, <2>2, <2>3
  <2>5. WalkInv'
    BY <2>1, <2>2, <2>4 DEF StatsInv, WalkInv
  <2>6. RetainInv'
    BY <2>1 DEF StatsInv, RetainInv, Total
  <2> QED BY <2>1, <2>5, <2>6 DEF StatsInv, IdleInv, LoadedInv
<1>13. ASSUME NEW t \in Thread, Clear(t) PROVE StatsInv'
  <2>1. /\ mgrLock = None /\ pc' = [pc EXCEPT ![t] = "clear"] /\ cursor' = heapManagersList
        /\ masterCalls' = 0 /\ counted' = counted - masterCalls
        /\ UNCHANGED <<freeHeapManagersList, heapManager, heapManagersList, calls, disturbed, lost,
                       loaded>>
    BY <1>13 DEF Clear, StartWalk
  <2>2. LoadedInv'
    BY <1>2, <2>1 DEF StatsInv, LoadedInv
  <2>3. \A u \in Thread : pc[u] # "retain" /\ pc'[u] \notin {"retain", "collect"}
    BY <1>2, <1>6, <2>1
  <2>4. WalkInv'
    BY <1>0, <2>1, <2>3 DEF WalkInv
  <2>5. disturbed \/ 0 + Total(calls) = counted - masterCalls - lost
    BY <1>19, <1>20, <1>25, <2>3
  <2>6. RetainInv'
    BY <2>1, <2>3, <2>5 DEF RetainInv, Total
  <2> QED BY <2>1, <2>2, <2>4, <2>6 DEF StatsInv, IdleInv
<1>14. ASSUME NEW t \in Thread, ClearHeap(t) PROVE StatsInv'
  <2> DEFINE h == Head(cursor)
             hit == \E u \in Thread : pc[u] = "count" /\ heapManager[u] = h
  <2>1. /\ pc[t] = "clear" /\ cursor # <<>> /\ cursor' = Tail(cursor)
        /\ calls' = [calls EXCEPT ![h] = 0] /\ counted' = counted - calls[h]
        /\ disturbed' = (disturbed \/ hit)
        /\ UNCHANGED <<pc, freeHeapManagersList, heapManager, heapManagersList, masterCalls, lost,
                       loaded>>
    BY <1>14 DEF ClearHeap
  <2>2. h \in Heaps /\ IsInjective(Tail(cursor))
    BY <1>1, <2>1, TailOf
  <2>3. \A u \in Thread : pc[u] \notin {"retain", "collect"}
    BY <1>5, <2>1
  <2>4. WalkInv'
    BY <2>1, <2>2, <2>3 DEF WalkInv
  <2>5. IdleInv'
    BY <1>0, <2>1, <2>2 DEF StatsInv, IdleInv
  <2>6. /\ SumOf(calls', heapManagersList) = SumOf(calls, heapManagersList) - calls[h] + 0
        /\ SumOf(calls, heapManagersList) \in Int
    BY <1>0, <1>1, <2>1, <2>2, CallsChange
  <2>7. ~ disturbed' => ~ disturbed /\ ~ hit
    BY <2>1
  <2> HIDE DEF h
  <2>8. LoadedInv'
    BY <1>0, <1>3, <2>1, <2>2, <2>7 DEF StatsInv, LoadedInv
  <2> HIDE DEF hit
  <2>10. ~ disturbed => masterCalls + SumOf(calls, heapManagersList) = counted - lost
    BY <1>20, <2>3 DEF Total
  <2>11. ~ disturbed => masterCalls + SumOf(calls', heapManagersList) = counted' - lost
    BY <1>0, <2>1, <2>2, <2>6, <2>10
  <2>9. RetainInv'
    BY <2>1, <2>3, <2>7, <2>11 DEF RetainInv, Total
  <2> QED BY <2>4, <2>5, <2>8, <2>9 DEF StatsInv
<1>15. ASSUME NEW t \in Thread, EndWalk(t) PROVE StatsInv'
  <2>1. /\ pc[t] \in {"collect", "clear"} /\ pc' = [pc EXCEPT ![t] = "idle"]
        /\ UNCHANGED <<freeHeapManagersList, heapManager, heapManagersList, calls, masterCalls, counted,
                       disturbed, lost, loaded, cursor>>
    BY <1>15 DEF EndWalk
  <2>2. \A u \in Thread : /\ pc'[u] # "collect" /\ pc'[u] # "retain" /\ pc[u] # "retain"
                          /\ pc'[u] = "count" => pc[u] = "count"
    BY <1>2, <1>5, <2>1
  <2>3. WalkInv' /\ LoadedInv'
    BY <2>1, <2>2 DEF StatsInv, WalkInv, LoadedInv
  <2>4. RetainInv'
    BY <1>20, <2>1, <2>2 DEF RetainInv, Total
  <2> QED BY <2>1, <2>3, <2>4 DEF StatsInv, IdleInv
<1>16. ASSUME NEW t \in Thread, MasterCtor(t) PROVE StatsInv'
  <2>1. /\ masterCalls' = 0 /\ counted' = counted - masterCalls /\ heapMasterBootFlag = 0
        /\ UNCHANGED <<pc, freeHeapManagersList, heapManager, heapManagersList, calls, disturbed, lost,
                       loaded, cursor, sum, before>>
    BY <1>16 DEF MasterCtor
  <2>2. Heaps = {}
    BY <2>1 DEF BootInv, Heaps, ToSet
  <2>3. \A u \in Thread : pc[u] \notin {"retain", "collect"}
    BY <1>0, <2>1, <2>2 DEF HeapInv, ThreadInv
  <2>4. disturbed \/ 0 + Total(calls) = counted - masterCalls - lost
    BY <1>19, <1>20, <1>25, <2>3
  <2>5. RetainInv'
    BY <2>1, <2>3, <2>4 DEF RetainInv, Total
  <2>6. WalkInv' /\ LoadedInv'
    BY <2>1, <2>3 DEF StatsInv, WalkInv, LoadedInv
  <2> QED BY <2>1, <2>5, <2>6 DEF StatsInv, IdleInv
<1>17. ASSUME NEW t \in Thread, Elsewhere(t), ~ Dtor(t), ~ Retain(t), ~ Load(t), ~ StoreMalloc(t),
             ~ StoreFree(t), ~ FreeNull(t), ~ Collect(t), ~ CollectHeap(t), ~ Clear(t),
             ~ ClearHeap(t), ~ EndWalk(t), ~ MasterCtor(t)
      PROVE  StatsInv'
  <2>1. /\ UNCHANGED <<freeHeapManagersList, heapManager, heapManagersList, calls, masterCalls, counted,
                       disturbed, lost, loaded, cursor, sum, before>>
        /\ \/ pc' = pc
           \/ \E u \in Thread, label \in {"idle", "boot", "startup", "shutdown"} :
                pc' = [pc EXCEPT ![u] = label] /\ pc[u] # "retain"
    BY <1>17, StatsKept, ListKept
  <2>2. \A u \in Thread : /\ pc'[u] = "collect" => pc[u] = "collect"
                          /\ pc'[u] = "count" => pc[u] = "count"
                          /\ pc'[u] = "retain" <=> pc[u] = "retain"
    BY <1>2, <2>1
  <2>3. WalkInv' /\ LoadedInv'
    BY <2>1, <2>2 DEF StatsInv, WalkInv, LoadedInv
  <2>4. RetainInv'
    BY <1>20, <1>21, <2>1, <2>2 DEF RetainInv, Total
  <2> QED BY <2>1, <2>3, <2>4 DEF StatsInv, IdleInv
<1>18. CASE UNCHANGED vars
  BY <1>18 DEF vars, StatsInv, IdleInv, LoadedInv, WalkInv, RetainInv, Total
<1> QED BY <1>7, <1>8, <1>9, <1>10, <1>11, <1>12, <1>13, <1>14, <1>15, <1>16, <1>17, <1>18, <1>22,
           <1>23, StepKinds

LEMMA StatsInvariant == Spec => [](HeapInv /\ StatsInv)
<1>1. Init => StatsInv
  <2>1. ToSet(<<>>) = {} /\ IsInjective(<<>>)
    BY DEF ToSet, IsInjective
  <2> QED BY <2>1, SumNothing DEF Init, StatsInv, IdleInv, LoadedInv, WalkInv, RetainInv, Total
<1>2. CountInv /\ StatsInv /\ [Next]_vars => StatsInv'
  BY StatsStep DEF CountInv
<1>3. CountInv => HeapInv
  BY DEF CountInv
<1> QED BY <1>1, <1>2, <1>3, CountInvariant, PTL DEF Spec

(* When threads end, heaps are used again and counters are cleared, no call *)
(* is counted twice, and none is lost but those of free( nullptr ) during a *)
(* destructor, unless a clear hit an increment.                             *)
THEOREM StatsRight == Spec => []StatsAddUp
<1>1. HeapInv /\ StatsInv => StatsAddUp
  <2>1. SUFFICES ASSUME HeapInv, StatsInv, ~ disturbed
                 PROVE  masterCalls + Total(calls) \in counted - lost .. counted
    BY DEF StatsAddUp
  <2>2. /\ masterCalls \in Nat /\ lost \in Nat /\ counted \in Int /\ loaded \in [Thread -> Nat]
        /\ Total(calls) \in Int
    <3>1. heapManagersList \in Seq(Heaps) /\ \A x \in Heaps : calls[x] \in Int
      BY <2>1, InList DEF HeapInv, RangeInv, TypeOK, Heaps
    <3> QED BY <2>1, <3>1, SumInt DEF HeapInv, RangeInv, TypeOK, Total
  <2>3. CASE \E t \in Thread : pc[t] = "retain"
    <3>1. PICK t \in Thread : pc[t] = "retain"
      BY <2>3
    <3>2. /\ loaded[t] <= masterCalls /\ masterCalls - loaded[t] <= lost
          /\ loaded[t] + Total(calls) = counted - lost /\ loaded[t] \in Nat
      BY <2>1, <2>2, <3>1 DEF StatsInv, RetainInv
    <3> QED BY <2>2, <3>2
  <2>4. CASE \A t \in Thread : pc[t] # "retain"
    <3>1. masterCalls + Total(calls) = counted - lost
      BY <2>1, <2>4 DEF StatsInv, RetainInv
    <3> QED BY <2>2, <3>1
  <2> QED BY <2>3, <2>4
<1> QED BY <1>1, StatsInvariant, PTL

(* A report is between the calls made when it began and when it is done,    *)
(* less those lost.                                                         *)
THEOREM ReportRight == Spec => []CollectBounded
<1>1. HeapInv /\ StatsInv => CollectBounded
  <2>1. SUFFICES ASSUME HeapInv, StatsInv, \E t \in Thread : At(t, "collect"), cursor = <<>>, ~ disturbed
                 PROVE  before - lost <= sum /\ sum <= counted - lost
    BY DEF CollectBounded
  <2>2. SumOf(calls, cursor) = 0 /\ sum \in Nat
    BY <2>1, SumNothing DEF HeapInv, RangeInv, TypeOK
  <2>3. /\ before - lost <= sum + SumOf(calls, cursor)
        /\ sum + SumOf(calls, cursor) <= counted - lost
    BY <2>1 DEF StatsInv, WalkInv, At
  <2> QED BY <2>2, <2>3
<1> QED BY <1>1, StatsInvariant, PTL
===============================================================================
