---------------------------- MODULE Server_proofs ----------------------------
(***************************************************************************)
(* Proofs about the two parts of the server that the goroutines of all       *)
(* connections share: the sharded mutex, for any processes, keys and shards, *)
(* and pub/sub, for any connections, publishers, channels and capacities.    *)
(***************************************************************************)
EXTENDS PubSub, KeyedMutex, TLAPS

-----------------------------------------------------------------------------
(* KeyedMutex *)

\* Who holds what: a process inside holds all it wants, one that is idle holds
\* nothing; a held write lock keeps its turn, and no reader shares its shard.
Holding ==
  /\ \A p \in Procs : /\ held[p] \subseteq want[p] \/ phase[p] = "idle"
                      /\ phase[p] = "in" => held[p] = want[p]
                      /\ phase[p] = "idle" => held[p] = {}
                      /\ phase[p] # "idle" => mode[p] # "none"
                      /\ phase[p] = "acquire" => want[p] # held[p]
  /\ \A p \in Procs : \A i \in held[p] : mode[p] = "write" => turn[i] = p
  /\ \A p, q \in Procs : p # q /\ mode[p] = "write" /\ mode[q] = "read"
                           => held[p] \cap held[q] = {}

IInv == MutexTypeOK /\ Holding /\ OrderedWaiting

\* The locks of keyedMutex start free.
LEMMA InitHolds == MutexInit => IInv
BY MutexConstants, Zenon DEF MutexInit, IInv, MutexTypeOK, Holding, OrderedWaiting

\* Starting a call (Lock, RLock, lockShards, LockAll) disturbs nobody.
LEMMA CallKeeps ==
  ASSUME IInv, NEW p \in Procs, NEW m \in {"read", "write"}, NEW S \in SUBSET Shards,
         Start(p, m, S)
  PROVE  IInv'
<1> USE DEF IInv, MutexTypeOK, Start
<1>1. MutexTypeOK' BY Zenon
<1>2. Holding' BY ZenonT(30) DEF Holding
<1>3. OrderedWaiting' BY DEF Holding, OrderedWaiting
<1> QED BY <1>1, <1>2, <1>3, Zenon

\* Taking the turn on a shard changes no lock that is held.
LEMMA TakeTurnKeeps ==
  ASSUME IInv, NEW p \in Procs, NEW i \in Shards, TakeTurn(p, i)
  PROVE  IInv'
<1> USE DEF IInv, MutexTypeOK, TakeTurn
<1>1. MutexTypeOK' BY Zenon
<1>2. Holding' BY MutexConstants DEF Holding
<1>3. OrderedWaiting' BY Zenon DEF OrderedWaiting
<1> QED BY <1>1, <1>2, <1>3, Zenon

\* The lowest missing shard is added: the order of waiting is kept.
LEMMA GotKeepsOrder ==
  ASSUME IInv, NEW p \in Procs, NEW i \in Shards, IsNext(p, i), Got(p, i), want' = want
  PROVE  OrderedWaiting'
<1> SUFFICES ASSUME NEW q \in Procs, phase'[q] = "acquire",
                    NEW h \in held'[q], NEW j \in want'[q] \ held'[q]
             PROVE  h < j
  BY Zenon DEF OrderedWaiting
<1> USE DEF IInv, MutexTypeOK, Got, IsNext, Shards
<1>1. CASE q # p BY <1>1, Zenon DEF OrderedWaiting
<1>2. CASE q = p
  <2>1. j \in want[p] \ held[p] /\ i <= j /\ i # j BY <1>2, Zenon
  <2>2. CASE h = i BY <2>1, <2>2, MutexConstants
  <2>3. CASE h \in held[p] BY <2>1, <2>3, Zenon DEF OrderedWaiting
  <2> QED BY <1>2, <2>2, <2>3, Zenon
<1> QED BY <1>1, <1>2, Zenon

\* A write lock is taken only when the readers have left the shard.
LEMMA WriteLockKeeps ==
  ASSUME IInv, NEW p \in Procs, NEW i \in Shards, WriteLock(p, i)
  PROVE  IInv'
<1>1. OrderedWaiting' BY GotKeepsOrder, Zenon DEF WriteLock
<1> USE DEF IInv, MutexTypeOK, WriteLock, IsNext, Got
<1>2. MutexTypeOK' OBVIOUS
<1>3. Holding' BY DEF Holding, Readers
<1> QED BY <1>1, <1>2, <1>3, Zenon

\* A read lock is taken only when no writer has its turn on the shard.
LEMMA ReadLockKeeps ==
  ASSUME IInv, NEW p \in Procs, NEW i \in Shards, ReadLock(p, i)
  PROVE  IInv'
<1>1. OrderedWaiting' BY GotKeepsOrder, Zenon DEF ReadLock
<1> USE DEF IInv, MutexTypeOK, ReadLock, IsNext, Got
<1>2. MutexTypeOK' BY Zenon
<1>3. Holding' BY MutexConstants DEF Holding
<1> QED BY <1>1, <1>2, <1>3, Zenon

\* Unlocking gives up one shard of one process.
LEMMA UnlockKeeps ==
  ASSUME IInv, NEW p \in Procs, Unlock(p)
  PROVE  IInv'
<1> USE DEF IInv, MutexTypeOK, Unlock
<1>1. MutexTypeOK' OBVIOUS
<1>2. Holding' BY DEF Holding
<1>3. OrderedWaiting' BY Zenon DEF OrderedWaiting
<1> QED BY <1>1, <1>2, <1>3, Zenon

\* Every step of keyedMutex keeps the invariant.
LEMMA NextKeeps == IInv /\ [MutexNext]_mutexVars => IInv'
<1> SUFFICES ASSUME IInv, [MutexNext]_mutexVars PROVE IInv' BY Zenon
<1>1. ASSUME NEW p \in Procs, NEW k \in Keys, Lock(p, k) \/ RLock(p, k) PROVE IInv'
  BY <1>1, CallKeeps, MutexConstants DEF Lock, RLock
<1>2. ASSUME NEW p \in Procs, NEW K \in SUBSET Keys, lockShards(p, K) PROVE IInv'
  BY <1>2, CallKeeps, MutexConstants DEF lockShards
<1>3. ASSUME NEW p \in Procs, LockAll(p) PROVE IInv'
  BY <1>3, CallKeeps, Zenon DEF LockAll
<1>4. CASE UNCHANGED mutexVars
  BY <1>4, Zenon DEF mutexVars, IInv, MutexTypeOK, Holding, OrderedWaiting
<1> QED
  BY <1>1, <1>2, <1>3, <1>4, TakeTurnKeeps, WriteLockKeeps, ReadLockKeeps, UnlockKeeps, Zenon DEF
    MutexNext

\* Locks are held the way IInv says in every behaviour.
THEOREM AlwaysHolding == MutexSpec => []IInv
BY InitHolds, NextKeeps, PTL DEF MutexSpec

\* The locks keep their types: a shard has at most one writer's turn, and a call
\* locks only shards of the keyedMutex.
THEOREM MutexTyped == MutexSpec => []MutexTypeOK
BY AlwaysHolding, PTL DEF IInv

\* No process ever waits for a shard below one it holds, so lockShards and
\* LockAll cannot deadlock with each other.
THEOREM WaitingIsOrdered == MutexSpec => []OrderedWaiting
BY AlwaysHolding, PTL DEF IInv

-----------------------------------------------------------------------------
\* Sections never conflict: a process in a section holds all of its shards.
LEMMA Apart == IInv => Locks!Exclusive
<1> SUFFICES ASSUME IInv, NEW p \in Procs, NEW q \in Procs, p # q
             PROVE  ~Locks!Conflict(section[p], section[q])
  BY Zenon DEF Locks!Exclusive
<1> USE DEF IInv, Holding
<1>1. CASE phase[p] # "in" \/ phase[q] # "in" BY <1>1, Zenon DEF section, Locks!Conflict
<1>2. CASE phase[p] = "in" /\ phase[q] = "in"
  <2>1. /\ section[p] = [mode |-> mode[p], shards |-> held[p]]
        /\ section[q] = [mode |-> mode[q], shards |-> held[q]]
    BY <1>2, Zenon DEF section
  <2>2. mode[p] \in {"read", "write"} /\ mode[q] \in {"read", "write"} BY <1>2, Zenon DEF MutexTypeOK
  <2> QED BY <2>1, <2>2 DEF Locks!Conflict
<1> QED BY <1>1, <1>2, Zenon

\* A writer of a key is alone with it; Compact and evictExpired are alone.
THEOREM AlwaysExclusive == MutexSpec => []Locks!Exclusive
BY AlwaysHolding, Apart, PTL

\* A step that leaves phases, modes and wishes of everybody but p alone leaves
\* everybody else's section alone.
LEMMA OnlyOne ==
  ASSUME IInv, NEW p \in Procs,
         \A q \in Procs \ {p} : phase'[q] = phase[q] /\ mode'[q] = mode[q] /\ want'[q] = want[q]
  PROVE  section' = [section EXCEPT ![p] = section'[p]]
BY Zenon DEF section, IInv, MutexTypeOK

\* Getting the last shard is entering the section.
LEMMA GotEnters ==
  ASSUME IInv, IInv', NEW p \in Procs, NEW i \in Shards, IsNext(p, i), Got(p, i),
         want' = want, mode' = mode
  PROVE  [Locks!Next]_section
<1> USE DEF IInv, MutexTypeOK, IsNext, Got
<1>1. section' = [section EXCEPT ![p] = section'[p]] BY OnlyOne, Zenon
<1>2. section[p] = Locks!Out BY Zenon DEF section, Locks!Out
<1>3. CASE phase'[p] # "in"
  <2>1. section'[p] = section[p] BY <1>3, Zenon DEF section
  <2> QED BY <1>1, <2>1, Zenon DEF section
<1>4. CASE phase'[p] = "in"
  <2> DEFINE x == [mode |-> mode[p], shards |-> want[p]]
  <2>1. section'[p] = x BY <1>4, Zenon DEF section
  <2>2. x \in Locks!Section BY Zenon DEF Locks!Section
  <2>3. ASSUME NEW q \in Procs \ {p} PROVE ~Locks!Conflict(x, section[q])
    <3>1. Locks!Exclusive' BY Apart, PTL
    <3>2. section'[q] = section[q] BY <1>1, Zenon DEF section
    <3>3. ~Locks!Conflict(section'[p], section'[q]) BY <3>1, Zenon DEF Locks!Exclusive,
        Locks!Conflict
    <3> QED BY <2>1, <3>2, <3>3, Zenon
  <2>4. Locks!Enter(p, x) BY <1>1, <1>2, <2>1, <2>3, Zenon DEF Locks!Enter
  <2> QED BY <2>2, <2>4, Zenon DEF Locks!Next
<1> QED BY <1>3, <1>4, Zenon

\* The first unlock leaves the section; a call that locks nothing enters it.
LEMMA StepRefines == IInv /\ IInv' /\ [MutexNext]_mutexVars => [Locks!Next]_section
<1> SUFFICES ASSUME IInv, IInv', [MutexNext]_mutexVars PROVE [Locks!Next]_section BY Zenon
<1>1. ASSUME NEW p \in Procs, NEW m \in {"read", "write"}, NEW S \in SUBSET Shards, Start(p, m, S)
      PROVE  [Locks!Next]_section
  <2> USE <1>1 DEF Start, IInv, MutexTypeOK
  <2>1. section' = [section EXCEPT ![p] = section'[p]] BY OnlyOne, Zenon
  <2>2. section[p] = Locks!Out BY Zenon DEF section, Locks!Out
  <2>3. CASE S # {}
    <3>1. section'[p] = section[p] BY <2>2, <2>3, Zenon DEF section, Locks!Out
    <3> QED BY <2>1, <3>1 DEF section
  <2>4. CASE S = {}
    <3> DEFINE x == [mode |-> m, shards |-> {}]
    <3>1. section'[p] = x BY <2>4, Zenon DEF section
    <3>2. x \in Locks!Section BY Zenon DEF Locks!Section
    <3>3. Locks!Enter(p, x) BY <2>1, <2>2, <3>1, Zenon DEF Locks!Enter, Locks!Conflict
    <3> QED BY <3>2, <3>3, Zenon DEF Locks!Next
  <2> QED BY <2>3, <2>4, Zenon
<1>2. ASSUME NEW p \in Procs, NEW i \in Shards, TakeTurn(p, i) PROVE [Locks!Next]_section
  BY <1>2, Zenon DEF TakeTurn, section
<1>3. ASSUME NEW p \in Procs, NEW i \in Shards, WriteLock(p, i) \/ ReadLock(p, i)
      PROVE  [Locks!Next]_section
  BY <1>3, GotEnters, Zenon DEF WriteLock, ReadLock
<1>4. ASSUME NEW p \in Procs, Unlock(p) PROVE [Locks!Next]_section
  <2> USE <1>4 DEF Unlock, IInv, MutexTypeOK
  <2>1. section' = [section EXCEPT ![p] = section'[p]] BY OnlyOne, Zenon
  <2>2. section'[p] = Locks!Out
    <3>1. phase'[p] # "in" BY Zenon
    <3> QED BY <3>1, Zenon DEF section, Locks!Out
  <2>3. CASE section[p] = Locks!Out
    <3>1. section'[p] = section[p] BY <2>2, <2>3, Zenon
    <3> QED BY <2>1, <3>1 DEF section
  <2>4. CASE section[p] # Locks!Out BY <2>1, <2>2, <2>4, Zenon DEF Locks!Leave, Locks!Next
  <2> QED BY <2>3, <2>4, Zenon
<1>5. CASE UNCHANGED mutexVars BY <1>5, Zenon DEF mutexVars, section
<1>6. ASSUME NEW p \in Procs, NEW k \in Keys, Lock(p, k) \/ RLock(p, k) PROVE [Locks!Next]_section
  BY <1>6, <1>1, MutexConstants DEF Lock, RLock
<1>7. ASSUME NEW p \in Procs, NEW K \in SUBSET Keys, lockShards(p, K) PROVE [Locks!Next]_section
  BY <1>7, <1>1, MutexConstants DEF lockShards
<1>8. ASSUME NEW p \in Procs, LockAll(p) PROVE [Locks!Next]_section
  BY <1>8, <1>1, Zenon DEF LockAll
<1> QED BY <1>2, <1>3, <1>4, <1>5, <1>6, <1>7, <1>8, Zenon DEF MutexNext

\* keyedMutex implements LockSpec: its shard-by-shard calls are atomic critical
\* sections, which is how Store uses them.
THEOREM LocksAreAtomic == MutexSpec => AtomicLocks
<1>1. MutexInit => Locks!Init BY Zenon DEF MutexInit, Locks!Init, Locks!Out, section
<1> QED BY <1>1, AlwaysHolding, StepRefines, PTL DEF MutexSpec, AtomicLocks, Locks!Spec

-----------------------------------------------------------------------------
(* PubSub: lists of lines *)

\* From here on a leaf is Zenon's unless it names another prover.
USE Zenon

LEMMA ListIs ==
  ASSUME NEW q \in Seq(Line)
  PROVE  /\ DOMAIN q = 1..Len(q) /\ Len(q) \in Nat
         /\ Elems(q) \subseteq Line
BY SMT DEF Elems

LEMMA EmptyIs == Elems(<<>>) = {} /\ <<>> \in Seq(Line)
BY SMT DEF Elems

LEMMA OneIs ==
  ASSUME NEW l \in Line
  PROVE  <<l>> \in Seq(Line) /\ Elems(<<l>>) = {l} /\ DOMAIN <<l>> = {1} /\ <<l>>[1] = l
BY SMT DEF Elems

\* The first line and the others.
LEMMA TailIs ==
  ASSUME NEW q \in Seq(Line), q # <<>>
  PROVE  /\ Head(q) \in Line /\ Tail(q) \in Seq(Line) /\ Head(q) = q[1] /\ 1 \in DOMAIN q
         /\ \A i \in DOMAIN Tail(q) : i + 1 \in DOMAIN q /\ Tail(q)[i] = q[i + 1] /\ i + 1 > 1
         /\ \A i, j \in DOMAIN Tail(q) : i < j => i + 1 < j + 1
         /\ \A i \in DOMAIN q : i # 1 => i - 1 \in DOMAIN Tail(q) /\ Tail(q)[i - 1] = q[i]
BY SMT

LEMMA TailHolds ==
  ASSUME NEW q \in Seq(Line), q # <<>>
  PROVE  Elems(q) = {Head(q)} \cup Elems(Tail(q))
<1> DEFINE t == Tail(q)
<1>1. /\ Head(q) = q[1] /\ 1 \in DOMAIN q
      /\ \A i \in DOMAIN t : i + 1 \in DOMAIN q /\ t[i] = q[i + 1]
      /\ \A i \in DOMAIN q : i # 1 => i - 1 \in DOMAIN t /\ t[i - 1] = q[i]
  BY TailIs
<1> HIDE DEF t
<1>2. \A i \in DOMAIN q : q[i] \in {Head(q)} \cup Elems(t) BY <1>1 DEF Elems
<1>3. \A i \in DOMAIN t : t[i] \in Elems(q) BY <1>1 DEF Elems
<1>4. Elems(q) \subseteq {Head(q)} \cup Elems(t) BY <1>2 DEF Elems
<1>5. Elems(t) \subseteq Elems(q) BY <1>3 DEF Elems
<1>6. Head(q) \in Elems(q) BY <1>1 DEF Elems
<1> QED BY <1>4, <1>5, <1>6 DEF t

\* One more line.
LEMMA AppendIs ==
  ASSUME NEW q \in Seq(Line), NEW l \in Line
  PROVE  /\ Append(q, l) \in Seq(Line) /\ Append(q, l)[Len(q) + 1] = l
         /\ Len(q) + 1 \in DOMAIN Append(q, l)
         /\ \A i \in DOMAIN q : i \in DOMAIN Append(q, l) /\ Append(q, l)[i] = q[i] /\ i < Len(q) + 1
         /\ \A i \in DOMAIN Append(q, l) : i \in DOMAIN q \/ i = Len(q) + 1
         /\ \A i \in DOMAIN Append(q, l) : ~(i > Len(q) + 1)
BY SMT

LEMMA AppendHolds ==
  ASSUME NEW q \in Seq(Line), NEW l \in Line
  PROVE  Elems(Append(q, l)) = Elems(q) \cup {l}
<1> DEFINE a == Append(q, l)
           n == Len(q) + 1
<1>1. /\ a[n] = l /\ n \in DOMAIN a
      /\ \A i \in DOMAIN q : i \in DOMAIN a /\ a[i] = q[i]
      /\ \A i \in DOMAIN a : i \in DOMAIN q \/ i = n
  BY AppendIs
<1> HIDE DEF a, n
<1>2. \A i \in DOMAIN a : a[i] \in Elems(q) \cup {l} BY <1>1 DEF Elems
<1>3. \A i \in DOMAIN q : q[i] \in Elems(a) BY <1>1 DEF Elems
<1>4. Elems(a) \subseteq Elems(q) \cup {l} BY <1>2 DEF Elems
<1>5. Elems(q) \subseteq Elems(a) BY <1>3 DEF Elems
<1>6. l \in Elems(a) BY <1>1 DEF Elems
<1> QED BY <1>4, <1>5, <1>6 DEF a

\* Two lists in a row.
LEMMA JoinIs ==
  ASSUME NEW p \in Seq(Line), NEW q \in Seq(Line), NEW a, a = p \o q, NEW n, n = Len(p)
  PROVE  /\ a \in Seq(Line)
         /\ \A i \in DOMAIN p : i \in DOMAIN a /\ a[i] = p[i]
         /\ \A i \in DOMAIN q : n + i \in DOMAIN a /\ a[n + i] = q[i]
         /\ \A i \in DOMAIN a : i \in DOMAIN p \/ (i - n \in DOMAIN q /\ a[i] = q[i - n])
         /\ \A i \in DOMAIN a, j \in DOMAIN p : i < j => i \in DOMAIN p
         /\ \A i, j \in DOMAIN a : i < j => i - n < j - n
BY SMTT(30)

LEMMA JoinHolds ==
  ASSUME NEW p \in Seq(Line), NEW q \in Seq(Line)
  PROVE  Elems(p \o q) = Elems(p) \cup Elems(q)
<1> DEFINE a == p \o q
           n == Len(p)
<1>0. a = p \o q /\ n = Len(p) OBVIOUS
<1> HIDE DEF a, n
<1>1. /\ \A i \in DOMAIN p : i \in DOMAIN a /\ a[i] = p[i]
      /\ \A i \in DOMAIN q : n + i \in DOMAIN a /\ a[n + i] = q[i]
      /\ \A i \in DOMAIN a : i \in DOMAIN p \/ (i - n \in DOMAIN q /\ a[i] = q[i - n])
  BY <1>0, JoinIs, SMT
<1>2. \A i \in DOMAIN a : a[i] \in Elems(p) \cup Elems(q) BY <1>1 DEF Elems
<1>3. \A i \in DOMAIN p : p[i] \in Elems(a) BY <1>1 DEF Elems
<1>4. \A i \in DOMAIN q : q[i] \in Elems(a) BY <1>1 DEF Elems
<1>5. Elems(a) \subseteq Elems(p) \cup Elems(q) BY <1>2 DEF Elems
<1>6. Elems(p) \subseteq Elems(a) BY <1>3 DEF Elems
<1>7. Elems(q) \subseteq Elems(a) BY <1>4 DEF Elems
<1> QED BY <1>5, <1>6, <1>7 DEF a

-----------------------------------------------------------------------------
(* The order of messages *)

Rising(q) == \A i, j \in DOMAIN q : i < j => Earlier(q[i], q[j])

Before(p, q) == \A l \in Elems(p), m \in Elems(q) : Earlier(l, m)

\* Queue, wire, forwarder and channel, one after the other, are in order.
InLine(q, w, f, m) ==
  /\ Rising(q) /\ Rising(w) /\ Rising(m)
  /\ Before(q, w) /\ Before(q, f) /\ Before(q, m)
  /\ Before(w, f) /\ Before(w, m) /\ Before(f, m)

Held(q, w, f, m) == Elems(q) \cup Elems(w) \cup Elems(f) \cup Elems(m)

LEMMA RisingEmpty == Rising(<<>>)
BY SMT DEF Rising

LEMMA RisingTail ==
  ASSUME NEW q \in Seq(Line), q # <<>>, Rising(q)
  PROVE  Rising(Tail(q)) /\ \A l \in Elems(Tail(q)) : Earlier(Head(q), l)
<1> DEFINE t == Tail(q)
<1>1. /\ Head(q) = q[1] /\ 1 \in DOMAIN q
      /\ \A i \in DOMAIN t : i + 1 \in DOMAIN q /\ t[i] = q[i + 1] /\ i + 1 > 1
      /\ \A i, j \in DOMAIN t : i < j => i + 1 < j + 1
  BY TailIs
<1>2. \A i \in DOMAIN t : 1 < i + 1 BY ListIs, TailIs, SMT
<1> HIDE DEF t
<1>3. Rising(t) BY <1>1 DEF Rising
<1>4. \A i \in DOMAIN t : Earlier(Head(q), t[i]) BY <1>1, <1>2 DEF Rising
<1> QED BY <1>3, <1>4 DEF t, Elems

LEMMA RisingAppend ==
  ASSUME NEW q \in Seq(Line), NEW l \in Line, Rising(q), \A k \in Elems(q) : Earlier(k, l)
  PROVE  Rising(Append(q, l))
<1> DEFINE a == Append(q, l)
           n == Len(q) + 1
<1>1. /\ a[n] = l
      /\ \A i \in DOMAIN q : a[i] = q[i]
      /\ \A i \in DOMAIN a : i \in DOMAIN q \/ i = n
      /\ \A i \in DOMAIN a : ~(i > n)
  BY AppendIs
<1>2. \A j \in DOMAIN a : ~(n < j) BY ListIs, AppendIs, SMT
<1> HIDE DEF a, n
<1>3. ASSUME NEW i \in DOMAIN a, NEW j \in DOMAIN a, i < j PROVE Earlier(a[i], a[j])
  <2>1. i \in DOMAIN q BY <1>1, <1>2, <1>3
  <2>2. CASE j \in DOMAIN q BY <1>1, <1>3, <2>1, <2>2 DEF Rising
  <2>3. CASE j = n BY <1>1, <2>1, <2>3 DEF Elems
  <2> QED BY <1>1, <2>2, <2>3
<1> QED BY <1>3 DEF Rising, a

LEMMA RisingJoin ==
  ASSUME NEW p \in Seq(Line), NEW q \in Seq(Line), Rising(p), Rising(q), Before(p, q)
  PROVE  Rising(p \o q)
<1> DEFINE a == p \o q
           n == Len(p)
<1>0. a = p \o q /\ n = Len(p) OBVIOUS
<1> HIDE DEF a, n
<1>1. /\ \A i \in DOMAIN p : a[i] = p[i]
      /\ \A i \in DOMAIN a : i \in DOMAIN p \/ (i - n \in DOMAIN q /\ a[i] = q[i - n])
      /\ \A i \in DOMAIN a, j \in DOMAIN p : i < j => i \in DOMAIN p
      /\ \A i, j \in DOMAIN a : i < j => i - n < j - n
  BY <1>0, JoinIs, SMT
<1>2. ASSUME NEW i \in DOMAIN a, NEW j \in DOMAIN a, i < j PROVE Earlier(a[i], a[j])
  <2>1. CASE j \in DOMAIN p BY <1>1, <1>2, <2>1 DEF Rising
  <2>2. CASE i \in DOMAIN p /\ j \notin DOMAIN p BY <1>1, <2>2 DEF Before, Elems
  <2>3. CASE i \notin DOMAIN p /\ j \notin DOMAIN p BY <1>1, <1>2, <2>3 DEF Rising
  <2>4. i \notin DOMAIN p => j \notin DOMAIN p BY <1>1, <1>2
  <2> QED BY <2>1, <2>2, <2>3, <2>4
<1> QED BY <1>2 DEF Rising, a

\* readLoop: the first line of the wire goes to the end of the queue.
LEMMA PassOn ==
  ASSUME NEW q \in Seq(Line), NEW w \in Seq(Line), NEW f, NEW m, w # <<>>, InLine(q, w, f, m)
  PROVE  /\ InLine(Append(q, Head(w)), Tail(w), f, m)
         /\ \A k : k \in Held(Append(q, Head(w)), Tail(w), f, m) <=> k \in Held(q, w, f, m)
<1>1. Head(w) \in Line /\ Elems(w) = {Head(w)} \cup Elems(Tail(w)) BY TailIs, TailHolds
<1>2. Elems(Append(q, Head(w))) = Elems(q) \cup {Head(w)} BY <1>1, AppendHolds
<1>3. Rising(Tail(w)) /\ \A l \in Elems(Tail(w)) : Earlier(Head(w), l) BY RisingTail DEF InLine
<1>4. \A k \in Elems(q) : Earlier(k, Head(w)) BY <1>1 DEF InLine, Before
<1>5. Rising(Append(q, Head(w))) BY <1>1, <1>4, RisingAppend DEF InLine
<1>6. Before(Append(q, Head(w)), Tail(w)) BY <1>1, <1>2, <1>3 DEF InLine, Before
<1>7. Before(Append(q, Head(w)), f) /\ Before(Append(q, Head(w)), m) BY <1>1, <1>2 DEF InLine, Before
<1>8. Before(Tail(w), f) /\ Before(Tail(w), m) BY <1>1 DEF InLine, Before
<1>9. \A k : k \in Held(Append(q, Head(w)), Tail(w), f, m) <=> k \in Held(q, w, f, m) BY <1>1, <1>2 DEF Held
<1> QED BY <1>3, <1>5, <1>6, <1>7, <1>8, <1>9 DEF InLine

\* The user takes the first line of the queue.
LEMMA TakeFirst ==
  ASSUME NEW q \in Seq(Line), NEW w, NEW f, NEW m, q # <<>>, InLine(q, w, f, m)
  PROVE  /\ InLine(Tail(q), w, f, m)
         /\ \A k : k \in Held(q, w, f, m) <=> k = Head(q) \/ k \in Held(Tail(q), w, f, m)
         /\ \A l \in Held(Tail(q), w, f, m) : Earlier(Head(q), l)
<1>1. Elems(q) = {Head(q)} \cup Elems(Tail(q)) BY TailHolds
<1>2. Rising(Tail(q)) /\ \A l \in Elems(Tail(q)) : Earlier(Head(q), l) BY RisingTail DEF InLine
<1>3. Before(Tail(q), w) /\ Before(Tail(q), f) /\ Before(Tail(q), m) BY <1>1 DEF InLine, Before
<1>4. \A l \in Elems(w) \cup Elems(f) \cup Elems(m) : Earlier(Head(q), l) BY <1>1 DEF InLine, Before
<1>5. \A k : k \in Held(q, w, f, m) <=> k = Head(q) \/ k \in Held(Tail(q), w, f, m) BY <1>1 DEF Held
<1>6. \A l \in Held(Tail(q), w, f, m) : Earlier(Head(q), l) BY <1>2, <1>4 DEF Held
<1> QED BY <1>2, <1>3, <1>5, <1>6 DEF InLine

\* The idle forwarder takes the first message of its channel.
LEMMA TakeMessage ==
  ASSUME NEW q, NEW w, NEW m \in Seq(Line), m # <<>>, InLine(q, w, <<>>, m)
  PROVE  /\ InLine(q, w, <<Head(m)>>, Tail(m))
         /\ Held(q, w, <<Head(m)>>, Tail(m)) = Held(q, w, <<>>, m)
<1>1. Head(m) \in Line /\ Elems(m) = {Head(m)} \cup Elems(Tail(m)) BY TailIs, TailHolds
<1>2. Elems(<<Head(m)>>) = {Head(m)} /\ Elems(<<>>) = {} BY <1>1, OneIs, EmptyIs
<1>3. Rising(Tail(m)) /\ Before(<<Head(m)>>, Tail(m)) BY <1>2, RisingTail DEF InLine, Before
<1>4. Before(q, <<Head(m)>>) /\ Before(q, Tail(m)) BY <1>1, <1>2 DEF InLine, Before
<1>5. Before(w, <<Head(m)>>) /\ Before(w, Tail(m)) BY <1>1, <1>2 DEF InLine, Before
<1>6. Held(q, w, <<Head(m)>>, Tail(m)) = Held(q, w, <<>>, m) BY <1>1, <1>2 DEF Held
<1> QED BY <1>3, <1>4, <1>5, <1>6 DEF InLine

\* It writes the message.
LEMMA WriteMessage ==
  ASSUME NEW q, NEW w \in Seq(Line), NEW m, NEW l \in Line, InLine(q, w, <<l>>, m)
  PROVE  /\ InLine(q, Append(w, l), <<>>, m)
         /\ Held(q, Append(w, l), <<>>, m) = Held(q, w, <<l>>, m)
<1>1. Elems(<<l>>) = {l} /\ Elems(<<>>) = {} BY OneIs, EmptyIs
<1>2. Elems(Append(w, l)) = Elems(w) \cup {l} BY AppendHolds
<1>3. \A k \in Elems(w) : Earlier(k, l) BY <1>1 DEF InLine, Before
<1>4. Rising(Append(w, l)) BY <1>3, RisingAppend DEF InLine
<1>5. Before(q, Append(w, l)) /\ Before(Append(w, l), m) BY <1>1, <1>2 DEF InLine, Before
<1>6. Before(q, <<>>) /\ Before(Append(w, l), <<>>) /\ Before(<<>>, m) BY <1>1 DEF Before
<1>7. Held(q, Append(w, l), <<>>, m) = Held(q, w, <<l>>, m) BY <1>1, <1>2 DEF Held
<1> QED BY <1>4, <1>5, <1>6, <1>7 DEF InLine

\* The handler writes a confirmation.
LEMMA WriteAnswer ==
  ASSUME NEW q, NEW w \in Seq(Line), NEW f, NEW m, NEW l \in Line, ~IsMessage(l), InLine(q, w, f, m)
  PROVE  /\ InLine(q, Append(w, l), f, m)
         /\ \A k : k \in Held(q, Append(w, l), f, m) <=> k \in Held(q, w, f, m) \/ k = l
<1>1. Elems(Append(w, l)) = Elems(w) \cup {l} BY AppendHolds
<1>2. \A k : Earlier(k, l) /\ Earlier(l, k) BY DEF Earlier
<1>3. Rising(Append(w, l)) BY <1>2, RisingAppend DEF InLine
<1>4. Before(q, Append(w, l)) BY <1>1, <1>2 DEF InLine, Before
<1>5. Before(Append(w, l), f) /\ Before(Append(w, l), m) BY <1>1, <1>2 DEF InLine, Before
<1>6. \A k : k \in Held(q, Append(w, l), f, m) <=> k \in Held(q, w, f, m) \/ k = l BY <1>1 DEF Held
<1> QED BY <1>3, <1>4, <1>5, <1>6 DEF InLine

\* Publish sends a message that is later than all before it.
LEMMA SendMessage ==
  ASSUME NEW q, NEW w, NEW f, NEW m \in Seq(Line), NEW l \in Line, InLine(q, w, f, m),
         \A k \in Held(q, w, f, m) : Earlier(k, l)
  PROVE  /\ InLine(q, w, f, Append(m, l))
         /\ \A k : k \in Held(q, w, f, Append(m, l)) <=> k \in Held(q, w, f, m) \/ k = l
<1>1. Elems(Append(m, l)) = Elems(m) \cup {l} BY AppendHolds
<1>2. \A k \in Elems(m) : Earlier(k, l) BY DEF Held
<1>3. Rising(Append(m, l)) BY <1>2, RisingAppend DEF InLine
<1>4. Before(q, Append(m, l)) /\ Before(w, Append(m, l)) BY <1>1 DEF InLine, Before, Held
<1>5. Before(f, Append(m, l)) BY <1>1 DEF InLine, Before, Held
<1>6. \A k : k \in Held(q, w, f, Append(m, l)) <=> k \in Held(q, w, f, m) \/ k = l BY <1>1 DEF Held
<1> QED BY <1>3, <1>4, <1>5, <1>6 DEF InLine

\* What is lost with the connection leaves no disorder.
LEMMA DropLines ==
  ASSUME NEW q, NEW w, NEW f, NEW m, InLine(q, w, f, m)
  PROVE  /\ InLine(q, <<>>, f, m) /\ Held(q, <<>>, f, m) \subseteq Held(q, w, f, m)
         /\ InLine(q, <<>>, <<>>, m) /\ Held(q, <<>>, <<>>, m) \subseteq Held(q, w, f, m)
         /\ InLine(<<>>, w, f, m) /\ Held(<<>>, w, f, m) \subseteq Held(q, w, f, m)
<1>1. \A p : Before(<<>>, p) /\ Before(p, <<>>) BY EmptyIs DEF Before
<1>2. Rising(<<>>) /\ Elems(<<>>) = {} BY RisingEmpty, EmptyIs
<1> QED BY <1>1, <1>2 DEF InLine, Held

-----------------------------------------------------------------------------
(* The last confirmation about a channel *)

About(l, ch) == ~IsMessage(l) /\ l.ch = ch

Silent(q, ch) == \A l \in Elems(q) : ~About(l, ch)

\* The last line of q about ch says whether ch is one of chs.
Final(q, ch, chs) ==
  \E i \in DOMAIN q :
    /\ About(q[i], ch) /\ (q[i].kind = "subscribe" <=> ch \in chs)
    /\ \A j \in DOMAIN q : j > i => ~About(q[j], ch)

LEMMA SilentEmpty == \A ch : Silent(<<>>, ch)
BY EmptyIs DEF Silent

LEMMA FinalSame ==
  ASSUME NEW q, NEW ch, NEW C, NEW D, Final(q, ch, C), ch \in C <=> ch \in D
  PROVE  Final(q, ch, D)
BY DEF Final

LEMMA FinalAppend ==
  ASSUME NEW q \in Seq(Line), NEW l \in Line, NEW ch, NEW C, About(l, ch),
         l.kind = "subscribe" <=> ch \in C
  PROVE  Final(Append(q, l), ch, C)
<1> DEFINE a == Append(q, l)
           n == Len(q) + 1
<1>1. a[n] = l /\ n \in DOMAIN a /\ \A i \in DOMAIN a : ~(i > n) BY AppendIs
<1> HIDE DEF a, n
<1>2. Final(a, ch, C) BY <1>1 DEF Final
<1> QED BY <1>2 DEF a

LEMMA OtherAppend ==
  ASSUME NEW q \in Seq(Line), NEW l \in Line, NEW ch, NEW C, ~About(l, ch)
  PROVE  /\ Final(q, ch, C) => Final(Append(q, l), ch, C)
         /\ Silent(q, ch) => Silent(Append(q, l), ch)
<1> DEFINE a == Append(q, l)
           n == Len(q) + 1
<1>1. /\ a[n] = l
      /\ \A i \in DOMAIN q : i \in DOMAIN a /\ a[i] = q[i]
      /\ \A i \in DOMAIN a : i \in DOMAIN q \/ i = n
  BY AppendIs
<1>2. Elems(a) = Elems(q) \cup {l} BY AppendHolds
<1> HIDE DEF a, n
<1>3. ASSUME Final(q, ch, C) PROVE Final(a, ch, C)
  <2>1. PICK i \in DOMAIN q :
          /\ About(q[i], ch) /\ (q[i].kind = "subscribe" <=> ch \in C)
          /\ \A j \in DOMAIN q : j > i => ~About(q[j], ch)
    BY <1>3 DEF Final
  <2>2. \A j \in DOMAIN a : j > i => ~About(a[j], ch) BY <1>1, <2>1
  <2> QED BY <1>1, <2>1, <2>2 DEF Final
<1>4. Silent(q, ch) => Silent(a, ch) BY <1>2 DEF Silent
<1> QED BY <1>3, <1>4 DEF a

LEMMA FinalTail ==
  ASSUME NEW q \in Seq(Line), q # <<>>, NEW ch, NEW C
  PROVE  /\ Final(q, ch, C) =>
              \/ Final(Tail(q), ch, C)
              \/ About(Head(q), ch) /\ (Head(q).kind = "subscribe" <=> ch \in C) /\ Silent(Tail(q), ch)
         /\ Silent(q, ch) => Silent(Tail(q), ch) /\ ~About(Head(q), ch)
<1> DEFINE t == Tail(q)
<1>1. /\ Head(q) = q[1]
      /\ \A i \in DOMAIN t : i + 1 \in DOMAIN q /\ t[i] = q[i + 1] /\ i + 1 > 1
      /\ \A i \in DOMAIN q : i # 1 => i - 1 \in DOMAIN t /\ t[i - 1] = q[i]
  BY TailIs
<1>2. Elems(q) = {Head(q)} \cup Elems(t) BY TailHolds
<1>3. \A i \in DOMAIN q, j \in DOMAIN t : j > i - 1 => j + 1 > i BY TailIs, ListIs, SMT
<1> HIDE DEF t
<1>4. ASSUME Final(q, ch, C)
      PROVE  \/ Final(t, ch, C)
             \/ About(Head(q), ch) /\ (Head(q).kind = "subscribe" <=> ch \in C) /\ Silent(t, ch)
  <2>1. PICK i \in DOMAIN q :
          /\ About(q[i], ch) /\ (q[i].kind = "subscribe" <=> ch \in C)
          /\ \A j \in DOMAIN q : j > i => ~About(q[j], ch)
    BY <1>4 DEF Final
  <2>2. CASE i = 1
    <3>1. \A j \in DOMAIN t : ~About(t[j], ch) BY <1>1, <2>1, <2>2
    <3> QED BY <1>1, <2>1, <2>2, <3>1 DEF Silent, Elems
  <2>3. CASE i # 1
    <3>1. i - 1 \in DOMAIN t /\ t[i - 1] = q[i] BY <1>1, <2>3
    <3>2. \A j \in DOMAIN t : j > i - 1 => ~About(t[j], ch) BY <1>1, <1>3, <2>1
    <3> QED BY <2>1, <3>1, <3>2 DEF Final
  <2> QED BY <2>2, <2>3
<1>5. Silent(q, ch) => Silent(t, ch) /\ ~About(Head(q), ch) BY <1>2 DEF Silent
<1> QED BY <1>4, <1>5 DEF t

-----------------------------------------------------------------------------
(* What the user will have been told about a channel once everything is read: q is
   the queue, w the wire, r the line about to be written, told what the
   user was told, chs what the handler has. *)
Word(q, w, r, told, chs, ch) ==
  \/ Final(r, ch, chs)
  \/ Silent(r, ch) /\ Final(w, ch, chs)
  \/ Silent(r, ch) /\ Silent(w, ch) /\ Final(q, ch, chs)
  \/ Silent(r, ch) /\ Silent(w, ch) /\ Silent(q, ch) /\ (ch \in told <=> ch \in chs)

LEMMA WordPassOn ==
  ASSUME NEW q \in Seq(Line), NEW w \in Seq(Line), w # <<>>, NEW r, NEW told, NEW chs, NEW ch,
         Word(q, w, r, told, chs, ch)
  PROVE  Word(Append(q, Head(w)), Tail(w), r, told, chs, ch)
<1>1. Head(w) \in Line BY TailIs
<1>2. CASE Silent(r, ch) /\ Final(w, ch, chs)
  <2>1. CASE Final(Tail(w), ch, chs) BY <1>2, <2>1 DEF Word
  <2>2. CASE About(Head(w), ch) /\ (Head(w).kind = "subscribe" <=> ch \in chs) /\ Silent(Tail(w), ch)
    <3>1. Final(Append(q, Head(w)), ch, chs) BY <1>1, <2>2, FinalAppend
    <3> QED BY <1>2, <2>2, <3>1 DEF Word
  <2> QED BY <1>2, <2>1, <2>2, FinalTail
<1>3. CASE ~Final(r, ch, chs) /\ Silent(r, ch) /\ Silent(w, ch)
  <2>1. Silent(Tail(w), ch) /\ ~About(Head(w), ch) BY <1>3, FinalTail
  <2>2. /\ Final(q, ch, chs) => Final(Append(q, Head(w)), ch, chs)
        /\ Silent(q, ch) => Silent(Append(q, Head(w)), ch)
    BY <1>1, <2>1, OtherAppend
  <2>3. Final(q, ch, chs) \/ (Silent(q, ch) /\ (ch \in told <=> ch \in chs)) \/ Final(w, ch, chs)
    BY <1>3 DEF Word
  <2> QED BY <1>2, <1>3, <2>1, <2>2, <2>3 DEF Word
<1>4. CASE Final(r, ch, chs) BY <1>4 DEF Word
<1> QED BY <1>2, <1>3, <1>4 DEF Word

LEMMA WordRespond ==
  ASSUME NEW q, NEW w \in Seq(Line), NEW l \in Line, NEW told, NEW chs, NEW ch,
         Word(q, w, <<l>>, told, chs, ch)
  PROVE  Word(q, Append(w, l), <<>>, told, chs, ch)
<1>1. Silent(<<>>, ch) BY SilentEmpty
<1>2. CASE Final(<<l>>, ch, chs)
  <2>1. About(l, ch) /\ (l.kind = "subscribe" <=> ch \in chs) BY <1>2, OneIs DEF Final
  <2>2. Final(Append(w, l), ch, chs) BY <2>1, FinalAppend
  <2> QED BY <1>1, <2>2 DEF Word
<1>3. CASE Silent(<<l>>, ch)
  <2>1. ~About(l, ch) BY <1>3, OneIs DEF Silent
  <2>2. /\ Final(w, ch, chs) => Final(Append(w, l), ch, chs)
        /\ Silent(w, ch) => Silent(Append(w, l), ch)
    BY <2>1, OtherAppend
  <2>3. ~Final(<<l>>, ch, chs) BY <2>1, OneIs DEF Final
  <2> QED BY <1>1, <2>2, <2>3 DEF Word
<1> QED BY <1>2, <1>3 DEF Word

LEMMA WordMessage ==
  ASSUME NEW q, NEW w \in Seq(Line), NEW r, NEW l \in Line, NEW told, NEW chs, NEW ch,
         IsMessage(l), Word(q, w, r, told, chs, ch)
  PROVE  Word(q, Append(w, l), r, told, chs, ch)
<1>1. ~About(l, ch) BY DEF About
<1>2. /\ Final(w, ch, chs) => Final(Append(w, l), ch, chs)
      /\ Silent(w, ch) => Silent(Append(w, l), ch)
  BY <1>1, OtherAppend
<1> QED BY <1>2 DEF Word

LEMMA WordReceive ==
  ASSUME NEW q \in Seq(Line), q # <<>>, NEW w, NEW r, NEW told, NEW told2, NEW chs, NEW ch,
         About(Head(q), ch) => (ch \in told2 <=> Head(q).kind = "subscribe"),
         ~About(Head(q), ch) => (ch \in told2 <=> ch \in told),
         Word(q, w, r, told, chs, ch)
  PROVE  Word(Tail(q), w, r, told2, chs, ch)
<1>1. /\ Final(q, ch, chs) =>
           \/ Final(Tail(q), ch, chs)
           \/ About(Head(q), ch) /\ (Head(q).kind = "subscribe" <=> ch \in chs) /\ Silent(Tail(q), ch)
      /\ Silent(q, ch) => Silent(Tail(q), ch) /\ ~About(Head(q), ch)
  BY FinalTail
<1> QED BY <1>1 DEF Word

LEMMA WordAnswer ==
  ASSUME NEW q, NEW w, NEW l \in Line, NEW told, NEW chs, NEW chs2, NEW ch,
         About(l, ch) => (l.kind = "subscribe" <=> ch \in chs2),
         ~About(l, ch) => (ch \in chs <=> ch \in chs2),
         Word(q, w, <<>>, told, chs, ch)
  PROVE  Word(q, w, <<l>>, told, chs2, ch)
<1>1. CASE About(l, ch)
  <2>1. Final(<<l>>, ch, chs2)
    <3>1. DOMAIN <<l>> = {1} /\ <<l>>[1] = l /\ ~(1 > 1) BY SMT
    <3> QED BY <1>1, <3>1 DEF Final
  <2> QED BY <2>1 DEF Word
<1>2. CASE ~About(l, ch)
  <2>1. Silent(<<l>>, ch) BY <1>2, OneIs DEF Silent
  <2>2. ~Final(<<>>, ch, chs) BY SilentEmpty DEF Final, Silent, Elems
  <2>3. \A p : Final(p, ch, chs) => Final(p, ch, chs2) BY <1>2, FinalSame
  <2> QED BY <1>2, <2>1, <2>2, <2>3 DEF Word
<1> QED BY <1>1, <1>2

-----------------------------------------------------------------------------
(* Every step keeps the types *)

LEMMA LinesAre ==
  /\ MessageLine \subseteq Line /\ ConfirmLine \subseteq Line /\ None \notin Line
  /\ \A l \in MessageLine : IsMessage(l) /\ l.pub \in Publishers /\ l.ch \in Channels /\ l.n \in Nat
  /\ \A l \in ConfirmLine : ~IsMessage(l) /\ l.ch \in Channels /\ l.kind \in {"subscribe", "unsubscribe"}
<1>1. None \notin Line BY PubSubConstants
<1>2. \A l \in MessageLine : IsMessage(l) /\ l.pub \in Publishers /\ l.ch \in Channels /\ l.n \in Nat
  BY DEF MessageLine, IsMessage
<1>3. ASSUME NEW l \in ConfirmLine
      PROVE  ~IsMessage(l) /\ l.ch \in Channels /\ l.kind \in {"subscribe", "unsubscribe"}
  <2>1. l.kind \in {"subscribe", "unsubscribe"} /\ l.ch \in Channels BY DEF ConfirmLine
  <2>2. l.kind # "message" BY <2>1
  <2> QED BY <2>1, <2>2 DEF IsMessage
<1> QED BY <1>1, <1>2, <1>3 DEF Line

LEMMA SeqsAre ==
  /\ Seq(MessageLine) \subseteq Seq(Line) /\ <<>> \in Seq(MessageLine) /\ <<>> \in Seq(Asked)
  /\ \A q \in Seq(MessageLine), l \in MessageLine : Append(q, l) \in Seq(MessageLine)
  /\ \A q \in Seq(MessageLine) : q # <<>> => Head(q) \in MessageLine /\ Tail(q) \in Seq(MessageLine)
  /\ \A q \in Seq(Asked), a \in Asked : Append(q, a) \in Seq(Asked)
  /\ \A q \in Seq(Asked) : q # <<>> => Head(q) \in Asked /\ Tail(q) \in Seq(Asked)
<1>1. Seq(MessageLine) \subseteq Seq(Line) BY LinesAre, SMTT(30)
<1> QED BY <1>1, SMTT(30)

\* Register: the registry, and the handler's own record.
LEMMA RegisterIs ==
  ASSUME TypeOK, NEW c \in Conns, NEW ch \in Channels, Register(c, todo[c].kind, ch)
  PROVE  /\ subs' \in [Channels -> SUBSET Conns] /\ subChannels' \in [Conns -> SUBSET Channels]
         /\ subChannels'[c] = IF todo[c].kind = "subscribe" THEN subChannels[c] \cup {ch} ELSE subChannels[c] \ {ch}
         /\ \A x \in Conns : x # c => subChannels'[x] = subChannels[x]
         /\ \A h \in Channels, x \in Conns : x # c \/ h # ch => (x \in subs'[h] <=> x \in subs[h])
         /\ (ch \in subChannels[c] <=> c \in subs[ch]) => (c \in subs'[ch] <=> todo[c].kind = "subscribe")
<1>1. CASE todo[c].kind = "subscribe"
  <2>1. subChannels' = [subChannels EXCEPT ![c] = @ \cup {ch}] BY <1>1 DEF Register
  <2>2. CASE ch \in subChannels[c]
    <3>1. subs' = subs BY <1>1, <2>2 DEF Register
    <3> QED BY <1>1, <2>1, <2>2, <3>1 DEF TypeOK
  <2>3. CASE ch \notin subChannels[c]
    <3>1. subs' = [subs EXCEPT ![ch] = @ \cup {c}] BY <1>1, <2>3 DEF Register
    <3> QED BY <1>1, <2>1, <2>3, <3>1, ZenonT(30) DEF TypeOK
  <2> QED BY <2>2, <2>3
<1>2. CASE todo[c].kind # "subscribe"
  <2>1. subChannels' = [subChannels EXCEPT ![c] = @ \ {ch}] BY <1>2 DEF Register
  <2>2. CASE ch \in subChannels[c]
    <3>1. subs' = [subs EXCEPT ![ch] = @ \ {c}] BY <1>2, <2>2 DEF Register
    <3> QED BY <1>2, <2>1, <2>2, <3>1, ZenonT(30) DEF TypeOK
  <2>3. CASE ch \notin subChannels[c]
    <3>1. subs' = subs BY <1>2, <2>3 DEF Register
    <3> QED BY <1>2, <2>1, <2>3, <3>1 DEF TypeOK
  <2> QED BY <2>2, <2>3
<1> QED BY <1>1, <1>2

\* What HandleChannel does: one channel, and the confirmation to write.
LEMMA HandleIs ==
  ASSUME TypeOK, NEW c \in Conns, HandleChannel(c)
  PROVE  \E ch \in Channels :
           /\ todo[c] # NoTask /\ todo[c].kind \in {"subscribe", "unsubscribe"}
           /\ reply[c] = None /\ Register(c, todo[c].kind, ch)
           /\ \E l \in ConfirmLine : /\ reply' = [reply EXCEPT ![c] = l]
                                     /\ l.kind = todo[c].kind /\ l.ch = ch
           /\ todo' \in [Conns -> Asked \cup {NoTask}]
           /\ \A x \in Conns : x # c => todo'[x] = todo[x]
<1>1. PICK ch \in todo[c].chs :
        /\ reply[c] = None
        /\ Register(c, todo[c].kind, ch)
        /\ reply' = [reply EXCEPT ![c] = Confirm(todo[c].kind, ch, Cardinality(subChannels'[c]))]
        /\ todo' = [todo EXCEPT ![c] = IF @.chs = {ch} THEN NoTask ELSE [todo[c] EXCEPT !.chs = @ \ {ch}]]
  BY DEF HandleChannel
<1>2. todo[c] \in Asked \cup {NoTask} BY DEF TypeOK
<1>3. NoTask.chs = {} BY DEF NoTask
<1>4. todo[c] \in Asked /\ todo[c] # NoTask BY <1>1, <1>2, <1>3
<1>5. todo[c].kind \in {"subscribe", "unsubscribe"} /\ todo[c].chs \in SUBSET Channels BY <1>4 DEF Asked
<1>6. ch \in Channels BY <1>1, <1>5
<1>7. subChannels'[c] \in SUBSET Channels BY <1>1, <1>6, RegisterIs
<1> DEFINE l == Confirm(todo[c].kind, ch, Cardinality(subChannels'[c]))
<1>8. l \in ConfirmLine /\ l.kind = todo[c].kind /\ l.ch = ch BY <1>5, <1>6, <1>7 DEF Confirm, ConfirmLine
<1> HIDE DEF l
<1>9. [todo[c] EXCEPT !.chs = @ \ {ch}] \in Asked BY <1>4 DEF Asked
<1>10. todo' \in [Conns -> Asked \cup {NoTask}]
  <2>1. todo \in [Conns -> Asked \cup {NoTask}] BY DEF TypeOK
  <2> DEFINE t == IF todo[c].chs = {ch} THEN NoTask ELSE [todo[c] EXCEPT !.chs = @ \ {ch}]
  <2>2. t \in Asked \cup {NoTask} BY <1>9
  <2>3. todo' = [todo EXCEPT ![c] = t] BY <1>1
  <2> HIDE DEF t
  <2> QED BY <2>1, <2>2, <2>3
<1>11. \A x \in Conns : x # c => todo'[x] = todo[x] BY <1>1 DEF TypeOK
<1>12. reply' = [reply EXCEPT ![c] = l] BY <1>1 DEF l
<1> QED BY <1>1, <1>4, <1>5, <1>6, <1>8, <1>10, <1>11, <1>12

\* A write to the wire: the line is appended, or all is lost with the connection.
LEMMA WireIs ==
  ASSUME TypeOK, NEW c \in Conns, NEW l \in Line, wire' = WireAfter(c, l)
  PROVE  /\ wire' \in [Conns -> Seq(Line)]
         /\ link[c] => wire'[c] = Append(wire[c], l)
         /\ ~link[c] => wire'[c] = <<>>
         /\ \A x \in Conns : x # c => wire'[x] = wire[x]
<1>1. wire[c] \in Seq(Line) BY DEF TypeOK
<1>2. Append(wire[c], l) \in Seq(Line) /\ <<>> \in Seq(Line) BY <1>1, AppendIs, EmptyIs
<1>0. wire \in [Conns -> Seq(Line)] BY DEF TypeOK
<1>3. CASE link[c]
  <2>1. wire' = [wire EXCEPT ![c] = Append(wire[c], l)] BY <1>3 DEF WireAfter
  <2> QED BY <1>0, <1>2, <1>3, <2>1
<1>4. CASE ~link[c]
  <2>1. wire' = [wire EXCEPT ![c] = <<>>] BY <1>4 DEF WireAfter
  <2> QED BY <1>0, <1>2, <1>4, <2>1
<1> QED BY <1>3, <1>4

LEMMA TypeStep ==
  ASSUME TypeOK, [Next]_vars
  PROVE  TypeOK'
<1> USE DEF handlerVars, clientVars
<1>1. ASSUME NEW c \in Conns, Dial(c) PROVE TypeOK'
  BY <1>1 DEF TypeOK, Dial
<1>2. ASSUME NEW c \in Conns, ReadRequest(c) PROVE TypeOK'
  <2> DEFINE req == Head(reqs[c])
  <2>1. req \in Asked /\ Tail(reqs[c]) \in Seq(Asked) BY <1>2, SeqsAre DEF TypeOK, ReadRequest
  <2>2. [req EXCEPT !.chs = subChannels[c]] \in Asked BY <2>1 DEF Asked, TypeOK
  <2>3. reqs' \in [Conns -> Seq(Asked)] BY <1>2, <2>1 DEF TypeOK, ReadRequest
  <2>4. todo' \in [Conns -> Asked \cup {NoTask}] BY <1>2, <2>1, <2>2 DEF TypeOK, ReadRequest
  <2> QED BY <1>2, <2>3, <2>4 DEF TypeOK, ReadRequest
<1>3. ASSUME NEW c \in Conns, HandleChannel(c) PROVE TypeOK'
  <2>1. PICK ch \in Channels :
          /\ Register(c, todo[c].kind, ch)
          /\ \E l \in ConfirmLine : reply' = [reply EXCEPT ![c] = l]
          /\ todo' \in [Conns -> Asked \cup {NoTask}]
    BY <1>3, HandleIs
  <2>2. subs' \in [Channels -> SUBSET Conns] /\ subChannels' \in [Conns -> SUBSET Channels]
    BY <2>1, RegisterIs
  <2>3. reply' \in [Conns -> ConfirmLine \cup {None}] BY <2>1 DEF TypeOK
  <2>4. UNCHANGED <<conn, msgCh, fwd, wire, link, clientVars, pub, kind, owed>> BY <1>3 DEF HandleChannel
  <2> QED BY <2>1, <2>2, <2>3, <2>4 DEF TypeOK
<1>4. ASSUME NEW c \in Conns, HandleNothing(c) PROVE TypeOK'
  BY <1>4 DEF TypeOK, HandleNothing
<1>5. ASSUME NEW c \in Conns, Respond(c) PROVE TypeOK'
  <2>1. reply[c] \in Line BY <1>5, LinesAre DEF TypeOK, Respond
  <2>2. wire' \in [Conns -> Seq(Line)] BY <1>5, <2>1, WireIs DEF Respond
  <2>3. reply' \in [Conns -> ConfirmLine \cup {None}] BY <1>5 DEF TypeOK, Respond
  <2> QED BY <1>5, <2>2, <2>3 DEF TypeOK, Respond
<1>6. ASSUME NEW c \in Conns, HandlerEnds(c) PROVE TypeOK'
  <2>1. reqs' \in [Conns -> Seq(Asked)] BY <1>6, SeqsAre DEF TypeOK, HandlerEnds
  <2>2. subs' \in [Channels -> SUBSET Conns] BY <1>6 DEF TypeOK, HandlerEnds
  <2> QED BY <1>6, <2>1, <2>2 DEF TypeOK, HandlerEnds
<1>7. ASSUME NEW c \in Conns, Forward(c) PROVE TypeOK'
  <2>1. Head(msgCh[c]) \in MessageLine /\ Tail(msgCh[c]) \in Seq(MessageLine)
    BY <1>7, SeqsAre DEF TypeOK, Forward
  <2>2. msgCh' \in [Conns -> Seq(MessageLine)] /\ fwd' \in [Conns -> MessageLine \cup {None}]
    BY <1>7, <2>1 DEF TypeOK, Forward
  <2> QED BY <1>7, <2>2 DEF TypeOK, Forward
<1>8. ASSUME NEW c \in Conns, ForwardWrite(c) PROVE TypeOK'
  <2>1. fwd[c] \in Line BY <1>8, LinesAre DEF TypeOK, ForwardWrite
  <2>2. wire' \in [Conns -> Seq(Line)] BY <1>8, <2>1, WireIs DEF ForwardWrite
  <2>3. fwd' \in [Conns -> MessageLine \cup {None}] BY <1>8 DEF TypeOK, ForwardWrite
  <2> QED BY <1>8, <2>2, <2>3 DEF TypeOK, ForwardWrite
<1>9. ASSUME NEW c \in Conns, Request(c) PROVE TypeOK'
  <2>1. PICK k \in {"subscribe", "unsubscribe"}, chs \in SUBSET Channels :
          /\ reqs' = [reqs EXCEPT ![c] = Append(@, [kind |-> k, chs |-> chs])]
          /\ nreq' = [nreq EXCEPT ![c] = @ + 1]
          /\ UNCHANGED <<handlerVars, msgCh, fwd, wire, link, client, queue, confirmed, last, pub, kind, owed>>
    BY <1>9 DEF Request
  <2>2. [kind |-> k, chs |-> chs] \in Asked BY DEF Asked
  <2>3. reqs' \in [Conns -> Seq(Asked)] BY <2>1, <2>2, SeqsAre DEF TypeOK
  <2>4. nreq' \in [Conns -> Nat] BY <2>1, SMT DEF TypeOK
  <2> QED BY <2>1, <2>3, <2>4 DEF TypeOK
<1>10. ASSUME NEW c \in Conns, ReadLine(c) PROVE TypeOK'
  <2>1. Head(wire[c]) \in Line /\ Tail(wire[c]) \in Seq(Line) BY <1>10, TailIs DEF TypeOK, ReadLine
  <2>0. queue[c] \in Seq(Line) BY DEF TypeOK
  <2>2. Append(queue[c], Head(wire[c])) \in Seq(Line) BY <2>0, <2>1, AppendIs
  <2>3. wire' \in [Conns -> Seq(Line)] /\ queue' \in [Conns -> Seq(Line)]
    BY <1>10, <2>1, <2>2 DEF TypeOK, ReadLine
  <2> QED BY <1>10, <2>3 DEF TypeOK, ReadLine
<1>11. ASSUME NEW c \in Conns, Receive(c) PROVE TypeOK'
  <2> DEFINE line == Head(queue[c])
  <2>1. line \in Line /\ Tail(queue[c]) \in Seq(Line) BY <1>11, TailIs DEF TypeOK, Receive
  <2>2. queue' \in [Conns -> Seq(Line)] BY <1>11, <2>1 DEF TypeOK, Receive
  <2>3. UNCHANGED <<handlerVars, msgCh, fwd, wire, link, client, reqs, nreq, pub, kind>> BY <1>11 DEF Receive
  <2>4. CASE line.kind = "message"
    <3>1. line \in MessageLine BY <2>1, <2>4, LinesAre DEF Line, IsMessage
    <3>2. line.pub \in Publishers /\ line.n \in Nat BY <3>1, LinesAre
    <3>3. /\ last' = [last EXCEPT ![c][line.pub] = line.n] /\ owed' = [owed EXCEPT ![c] = @ \ {line}]
          /\ confirmed' = confirmed
      BY <1>11, <2>4 DEF Receive
    <3>4. last' \in [Conns -> [Publishers -> Nat]] /\ owed' \in [Conns -> SUBSET MessageLine]
      BY <3>2, <3>3 DEF TypeOK
    <3> QED BY <2>2, <2>3, <3>3, <3>4 DEF TypeOK
  <2>5. CASE line.kind # "message"
    <3>1. line \in ConfirmLine BY <2>1, <2>5, LinesAre DEF Line, IsMessage
    <3>2. line.ch \in Channels BY <3>1, LinesAre
    <3>3. /\ confirmed' = [confirmed EXCEPT ![c] = IF line.kind = "subscribe"
                                                   THEN @ \cup {line.ch} ELSE @ \ {line.ch}]
          /\ UNCHANGED <<last, owed>>
      BY <1>11, <2>5 DEF Receive
    <3>4. confirmed' \in [Conns -> SUBSET Channels] BY <3>2, <3>3 DEF TypeOK
    <3> QED BY <2>2, <2>3, <3>3, <3>4 DEF TypeOK
  <2> QED BY <2>4, <2>5
<1>12. ASSUME NEW c \in Conns, Close(c) PROVE TypeOK'
  <2>1. [p \in Publishers |-> 0] \in [Publishers -> Nat] BY SMT
  <2>2. last' \in [Conns -> [Publishers -> Nat]] BY <1>12, <2>1 DEF TypeOK, Close
  <2>3. wire' \in [Conns -> Seq(Line)] /\ link' \in [Conns -> BOOLEAN] BY <1>12, EmptyIs DEF TypeOK, Close
  <2> QED BY <1>12, <2>2, <2>3 DEF TypeOK, Close
<1>13. ASSUME NEW c \in Conns, ReadEnds(c) PROVE TypeOK'
  <2>1. queue' \in [Conns -> Seq(Line)] BY <1>13, EmptyIs DEF TypeOK, ReadEnds
  <2> QED BY <1>13, <2>1 DEF TypeOK, ReadEnds
<1>14. ASSUME NEW p \in Publishers, PublishStart(p) PROVE TypeOK'
  <2>1. PICK ch \in Channels :
          /\ pub' = [pub EXCEPT ![p] = [pc |-> "send", ch |-> ch, targets |-> subs[ch], n |-> @.n + 1]]
          /\ UNCHANGED <<handlerVars, msgCh, fwd, wire, link, clientVars, kind, owed>>
    BY <1>14 DEF PublishStart
  <2>2. pub[p].n \in Nat BY DEF TypeOK, PubTask
  <2>3. pub[p].n + 1 \in Nat BY <2>2, SMT
  <2>4. [pc |-> "send", ch |-> ch, targets |-> subs[ch], n |-> pub[p].n + 1] \in PubTask
    BY <2>3 DEF TypeOK, PubTask
  <2>5. pub' \in [Publishers -> PubTask] BY <2>1, <2>4 DEF TypeOK
  <2> QED BY <2>1, <2>5 DEF TypeOK
<1>15. ASSUME NEW p \in Publishers, PublishReturns(p) PROVE TypeOK'
  <2>1. pub[p].n \in Nat BY DEF TypeOK, PubTask
  <2>2. [IdlePub EXCEPT !.n = pub[p].n] \in PubTask BY <2>1 DEF IdlePub, PubTask
  <2>3. pub' \in [Publishers -> PubTask] BY <1>15, <2>2 DEF TypeOK, PublishReturns
  <2> QED BY <1>15, <2>3 DEF TypeOK, PublishReturns
<1>16. ASSUME NEW p \in Publishers, PublishSend(p) PROVE TypeOK'
  <2>1. PICK c \in pub[p].targets :
          LET m == Message(p, pub[p].ch, pub[p].n) IN
          /\ pub' = [pub EXCEPT ![p].targets = @ \ {c}]
          /\ IF Len(msgCh[c]) < ChanCap
             THEN /\ msgCh' = [msgCh EXCEPT ![c] = Append(@, m)]
                  /\ owed' = [owed EXCEPT ![c] = IF client[c] = "open" /\ link[c] THEN @ \cup {m} ELSE @]
             ELSE UNCHANGED <<msgCh, owed>>
          /\ UNCHANGED <<handlerVars, fwd, wire, link, clientVars, kind>>
    BY <1>16 DEF PublishSend
  <2> DEFINE m == Message(p, pub[p].ch, pub[p].n)
  <2>2. pub[p] \in [pc : {"send"}, ch : Channels, targets : SUBSET Conns, n : Nat]
    <3>1. pub[p] \in PubTask BY DEF TypeOK
    <3>2. pub[p] \notin [pc : {"idle"}, ch : {None}, targets : {{}}, n : Nat] BY <2>1
    <3> QED BY <3>1, <3>2 DEF PubTask
  <2>3. c \in Conns /\ m \in MessageLine BY <2>1, <2>2 DEF Message, MessageLine
  <2>4. [pub[p] EXCEPT !.targets = @ \ {c}] \in PubTask BY <2>2 DEF PubTask
  <2>5. pub' \in [Publishers -> PubTask] BY <2>1, <2>4 DEF TypeOK
  <2>6. CASE Len(msgCh[c]) < ChanCap
    <3>1. /\ msgCh' = [msgCh EXCEPT ![c] = Append(@, m)]
          /\ owed' = [owed EXCEPT ![c] = IF client[c] = "open" /\ link[c] THEN @ \cup {m} ELSE @]
      BY <2>1, <2>6
    <3> HIDE DEF m
    <3>2. msgCh' \in [Conns -> Seq(MessageLine)] BY <2>3, <3>1, SeqsAre DEF TypeOK
    <3>3. owed' \in [Conns -> SUBSET MessageLine] BY <2>3, <3>1 DEF TypeOK
    <3> QED BY <2>1, <2>5, <3>2, <3>3 DEF TypeOK
  <2>7. CASE ~(Len(msgCh[c]) < ChanCap) BY <2>1, <2>5, <2>7 DEF TypeOK
  <2> QED BY <2>6, <2>7
<1>17. CASE UNCHANGED vars BY <1>17 DEF TypeOK, vars
<1>18. ASSUME NEW c \in Conns, Break(c) PROVE TypeOK'
  <2>1. wire' \in [Conns -> Seq(Line)] /\ link' \in [Conns -> BOOLEAN] BY <1>18, EmptyIs DEF TypeOK, Break
  <2> QED BY <1>18, <2>1 DEF TypeOK, Break
<1> QED BY <1>1, <1>2, <1>3, <1>4, <1>5, <1>6, <1>7, <1>8, <1>9, <1>10, <1>11, <1>12, <1>13, <1>14, <1>15, <1>16,
           <1>17, <1>18 DEF Next, HandlerStep, PublishStep

-----------------------------------------------------------------------------
(* The inductive invariant, connection by connection *)

\* The lines on the way to the user of c.
OnWay(c) == Held(queue[c], wire[c], OneLine(fwd[c]), msgCh[c])

\* n is no later than the message p is publishing, and earlier if c is still to get that.
Below(c, p, n) == n <= pub[p].n /\ (c \in pub[p].targets => n < pub[p].n)

\* Before DialPubSub there is nothing.
NotYet(c) ==
  client[c] = "none" =>
    /\ ~link[c] /\ conn[c] = "none" /\ todo[c] = NoTask /\ reply[c] = None
    /\ queue[c] = <<>> /\ wire[c] = <<>>
    /\ confirmed[c] = {} /\ subChannels[c] = {} /\ owed[c] = {}

\* The handler's record is what the registry has.
Registry(c) == \A ch \in Channels : c \in subs[ch] <=> ch \in subChannels[c]

\* What the user was or will be told is what the handler has.
Told(c) ==
  Alive(c) =>
    \A ch \in Channels : Word(queue[c], wire[c], OneLine(reply[c]), confirmed[c], subChannels[c], ch)

\* The messages on the way are in order.
Order(c) == InLine(queue[c], wire[c], OneLine(fwd[c]), msgCh[c])

\* They are later than those that the user got, and earlier than those to come.
Spaced(c) ==
  /\ \A l \in OnWay(c) : IsMessage(l) => last[c][l.pub] < l.n /\ Below(c, l.pub, l.n)
  /\ \A p \in Publishers : Below(c, p, last[c][p])

Kept(c) == Alive(c) => owed[c] \subseteq OnWay(c)

Good(c) == NotYet(c) /\ Registry(c) /\ Told(c) /\ Order(c) /\ Spaced(c) /\ Kept(c)

Inv == TypeOK /\ \A c \in Conns : Good(c)

\* A step leaves connection x alone.
Untouched(x) ==
  /\ conn'[x] = conn[x] /\ todo'[x] = todo[x] /\ reply'[x] = reply[x] /\ link'[x] = link[x]
  /\ client'[x] = client[x] /\ queue'[x] = queue[x] /\ wire'[x] = wire[x]
  /\ fwd'[x] = fwd[x] /\ msgCh'[x] = msgCh[x]
  /\ confirmed'[x] = confirmed[x] /\ last'[x] = last[x] /\ owed'[x] = owed[x]
  /\ subChannels'[x] = subChannels[x]
  /\ \A ch \in Channels : x \in subs'[ch] <=> x \in subs[ch]

\* What a step of c's handler, forwarder or client is to others.
StepOf(c) ==
  \/ Dial(c) \/ HandlerStep(c) \/ Forward(c) \/ ForwardWrite(c)
  \/ Request(c) \/ ReadLine(c) \/ Receive(c) \/ Close(c) \/ Break(c) \/ ReadEnds(c)

LEMMA Elsewhere ==
  ASSUME TypeOK, NEW c \in Conns, StepOf(c), NEW x \in Conns, x # c
  PROVE  Untouched(x) /\ pub' = pub
<1> USE DEF handlerVars, clientVars
<1>1. CASE Dial(c) BY <1>1 DEF Dial, TypeOK, Untouched
<1>2. CASE ReadRequest(c) BY <1>2 DEF ReadRequest, TypeOK, Untouched
<1>3. CASE HandleChannel(c)
  <2>1. PICK ch \in Channels :
          /\ Register(c, todo[c].kind, ch)
          /\ \E l \in ConfirmLine : reply' = [reply EXCEPT ![c] = l]
          /\ todo'[x] = todo[x]
    BY <1>3, HandleIs
  <2>2. /\ subChannels'[x] = subChannels[x]
        /\ \A h \in Channels : x \in subs'[h] <=> x \in subs[h]
    BY <2>1, RegisterIs
  <2>3. reply'[x] = reply[x] BY <2>1 DEF TypeOK
  <2> QED BY <1>3, <2>1, <2>2, <2>3 DEF HandleChannel, Untouched
<1>4. CASE HandleNothing(c) BY <1>4 DEF HandleNothing, TypeOK, Untouched
<1>5. CASE Respond(c)
  <2>1. reply[c] \in Line BY <1>5, LinesAre DEF TypeOK, Respond
  <2>2. wire'[x] = wire[x] BY <1>5, <2>1, WireIs DEF Respond
  <2> QED BY <1>5, <2>2 DEF Respond, TypeOK, Untouched
<1>6. CASE HandlerEnds(c) BY <1>6 DEF HandlerEnds, TypeOK, Untouched
<1>7. CASE Forward(c) BY <1>7 DEF Forward, TypeOK, Untouched
<1>8. CASE ForwardWrite(c)
  <2>1. fwd[c] \in Line BY <1>8, LinesAre DEF TypeOK, ForwardWrite
  <2>2. wire'[x] = wire[x] BY <1>8, <2>1, WireIs DEF ForwardWrite
  <2> QED BY <1>8, <2>2 DEF ForwardWrite, TypeOK, Untouched
<1>9. CASE Request(c) BY <1>9 DEF Request, TypeOK, Untouched
<1>10. CASE ReadLine(c) BY <1>10 DEF ReadLine, TypeOK, Untouched
<1>11. CASE Receive(c) BY <1>11 DEF Receive, TypeOK, Untouched
<1>12. CASE Close(c) BY <1>12 DEF Close, TypeOK, Untouched
<1>13. CASE ReadEnds(c) BY <1>13 DEF ReadEnds, TypeOK, Untouched
<1>14. CASE Break(c) BY <1>14 DEF Break, TypeOK, Untouched
<1> QED BY <1>1, <1>2, <1>3, <1>4, <1>5, <1>6, <1>7, <1>8, <1>9, <1>10, <1>11, <1>12, <1>13, <1>14
        DEF StepOf, HandlerStep

LEMMA UntouchedKeeps ==
  ASSUME NEW x \in Conns, Good(x), Untouched(x), pub' = pub
  PROVE  Good(x)'
<1>1. NotYet(x)' BY DEF Good, NotYet, Untouched
<1>2. Registry(x)' BY DEF Good, Registry, Untouched
<1>3. Told(x)' BY DEF Good, Told, Alive, Untouched
<1>4. Order(x)' BY DEF Good, Order, Untouched
<1>5. OnWay(x)' = OnWay(x) BY DEF OnWay, Untouched
<1>6. last'[x] = last[x] /\ owed'[x] = owed[x] /\ Alive(x)' = Alive(x) BY DEF Untouched, Alive
<1>7. Spaced(x)' BY <1>5, <1>6 DEF Good, Spaced, Below
<1>8. Kept(x)' BY <1>5, <1>6 DEF Good, Kept
<1> QED BY <1>1, <1>2, <1>3, <1>4, <1>7, <1>8 DEF Good

\* Lines that were on their way already, the user having got what they had.
LEMMA SpacedKept ==
  ASSUME NEW c \in Conns, Spaced(c), pub' = pub, last'[c] = last[c],
         \A l \in OnWay(c)' : IsMessage(l) => l \in OnWay(c)
  PROVE  Spaced(c)'
BY DEF Spaced, Below

-----------------------------------------------------------------------------
(* Every step keeps the invariant of the connection that it is about *)

LEMMA DialKeeps ==
  ASSUME TypeOK, NEW c \in Conns, Good(c), Dial(c)
  PROVE  Good(c)'
<1>1. /\ client'[c] = "open" /\ conn'[c] = "open" /\ queue[c] = <<>> /\ wire[c] = <<>> /\ reply[c] = None
      /\ confirmed[c] = {} /\ subChannels[c] = {} /\ owed[c] = {}
  BY DEF Good, NotYet, Dial, TypeOK
<1>2. UNCHANGED <<subs, subChannels, todo, reply, msgCh, fwd, wire, queue, confirmed, last, pub, owed>> BY DEF Dial
<1>3. NotYet(c)' BY <1>1 DEF NotYet
<1>4. Registry(c)' BY <1>2 DEF Good, Registry
<1>5. OneLine(None) = <<>> BY DEF OneLine
<1>6. \A ch \in Channels : Word(<<>>, <<>>, <<>>, {}, {}, ch) BY SilentEmpty DEF Word
<1>7. Told(c)' BY <1>1, <1>2, <1>5, <1>6 DEF Told
<1>8. Order(c)' BY <1>2 DEF Good, Order
<1>9. OnWay(c)' = OnWay(c) BY <1>2 DEF OnWay
<1>10. Spaced(c)' BY <1>2, <1>9 DEF Good, Spaced, Below
<1>11. Kept(c)' BY <1>1, <1>2 DEF Kept
<1> QED BY <1>3, <1>4, <1>7, <1>8, <1>10, <1>11 DEF Good

\* Reading and forgetting requests.
LEMMA RequestKeeps ==
  ASSUME TypeOK, NEW c \in Conns, Good(c), ReadRequest(c) \/ HandleNothing(c) \/ Request(c)
  PROVE  Good(c)'
<1> USE DEF handlerVars, clientVars
<1>1. UNCHANGED <<conn, subs, subChannels, reply, msgCh, fwd, wire, link, client, queue, confirmed, last, pub, owed>>
  BY DEF ReadRequest, HandleNothing, Request
<1>2. NotYet(c)'
  <2>1. CASE ReadRequest(c) BY <1>1, <2>1 DEF ReadRequest, Good, NotYet
  <2>2. CASE HandleNothing(c) BY <1>1, <2>2 DEF HandleNothing, Good, NotYet
  <2>3. CASE Request(c) BY <1>1, <2>3 DEF Request, Good, NotYet
  <2> QED BY <2>1, <2>2, <2>3
<1>3. Registry(c)' BY <1>1 DEF Good, Registry
<1>4. Told(c)' BY <1>1 DEF Good, Told, Alive
<1>5. Order(c)' BY <1>1 DEF Good, Order
<1>6. OnWay(c)' = OnWay(c) /\ Alive(c)' = Alive(c) BY <1>1 DEF OnWay, Alive
<1>7. Spaced(c)' BY <1>1, <1>6 DEF Good, Spaced, Below
<1>8. Kept(c)' BY <1>1, <1>6 DEF Good, Kept
<1> QED BY <1>2, <1>3, <1>4, <1>5, <1>7, <1>8 DEF Good

LEMMA HandleKeeps ==
  ASSUME TypeOK, NEW c \in Conns, Good(c), HandleChannel(c)
  PROVE  Good(c)'
<1>1. PICK ch \in Channels :
        /\ todo[c] # NoTask /\ todo[c].kind \in {"subscribe", "unsubscribe"}
        /\ reply[c] = None /\ Register(c, todo[c].kind, ch)
        /\ \E l \in ConfirmLine : /\ reply' = [reply EXCEPT ![c] = l]
                                  /\ l.kind = todo[c].kind /\ l.ch = ch
  BY HandleIs
<1>2. PICK l \in ConfirmLine : reply' = [reply EXCEPT ![c] = l] /\ l.kind = todo[c].kind /\ l.ch = ch
  BY <1>1
<1>3. UNCHANGED <<conn, msgCh, fwd, wire, link, client, queue, confirmed, last, pub, owed>>
  BY DEF HandleChannel, clientVars
<1>4. l \in Line /\ ~IsMessage(l) /\ l # None BY LinesAre
<1>5. OneLine(reply[c]) = <<>> /\ OneLine(reply'[c]) = <<l>> BY <1>1, <1>2, <1>4 DEF TypeOK, OneLine
<1>6. /\ subChannels'[c] = IF todo[c].kind = "subscribe" THEN subChannels[c] \cup {ch} ELSE subChannels[c] \ {ch}
      /\ \A h \in Channels : h # ch => (c \in subs'[h] <=> c \in subs[h])
      /\ c \in subs'[ch] <=> todo[c].kind = "subscribe"
  <2>1. ch \in subChannels[c] <=> c \in subs[ch] BY DEF Good, Registry
  <2>3. /\ subChannels'[c] = IF todo[c].kind = "subscribe" THEN subChannels[c] \cup {ch} ELSE subChannels[c] \ {ch}
        /\ \A h \in Channels, x \in Conns : x # c \/ h # ch => (x \in subs'[h] <=> x \in subs[h])
        /\ (ch \in subChannels[c] <=> c \in subs[ch]) => (c \in subs'[ch] <=> todo[c].kind = "subscribe")
    BY <1>1, RegisterIs
  <2> QED BY <2>1, <2>3
<1>7. NotYet(c)' BY <1>1, <1>3 DEF Good, NotYet
<1>8. ASSUME NEW h \in Channels PROVE h \in subChannels'[c] <=> IF h = ch THEN todo[c].kind = "subscribe" ELSE h \in subChannels[c]
  BY <1>6
<1>9. Registry(c)' BY <1>6, <1>8 DEF Good, Registry
<1>10. ASSUME NEW h \in Channels, Word(queue[c], wire[c], <<>>, confirmed[c], subChannels[c], h)
       PROVE  Word(queue[c], wire[c], <<l>>, confirmed[c], subChannels'[c], h)
  <2>1. About(l, h) <=> h = ch BY <1>2, <1>4 DEF About
  <2>2. About(l, h) => (l.kind = "subscribe" <=> h \in subChannels'[c]) BY <1>2, <1>8, <2>1
  <2>3. ~About(l, h) => (h \in subChannels[c] <=> h \in subChannels'[c]) BY <1>8, <2>1
  <2> QED BY <1>4, <1>10, <2>2, <2>3, WordAnswer
<1>11. Told(c)' BY <1>3, <1>5, <1>10 DEF Good, Told, Alive
<1>12. Order(c)' BY <1>3 DEF Good, Order
<1>13. OnWay(c)' = OnWay(c) /\ Alive(c)' = Alive(c) BY <1>3 DEF OnWay, Alive
<1>14. Spaced(c)' BY <1>3, <1>13 DEF Good, Spaced, Below
<1>15. Kept(c)' BY <1>3, <1>13 DEF Good, Kept
<1> QED BY <1>7, <1>9, <1>11, <1>12, <1>14, <1>15 DEF Good

LEMMA RespondKeeps ==
  ASSUME TypeOK, NEW c \in Conns, Good(c), Respond(c)
  PROVE  Good(c)'
<1> DEFINE l == reply[c]
<1>1. l \in ConfirmLine /\ l \in Line /\ ~IsMessage(l) /\ l # None BY LinesAre DEF TypeOK, Respond
<1>2. UNCHANGED <<conn, subs, subChannels, todo, msgCh, fwd, link, client, queue, confirmed, last, pub, owed>>
  BY DEF Respond, clientVars
<1>3. reply'[c] = None /\ OneLine(reply'[c]) = <<>> /\ OneLine(reply[c]) = <<l>> BY <1>1 DEF Respond, TypeOK, OneLine
<1>4. (link[c] => wire'[c] = Append(wire[c], l)) /\ (~link[c] => wire'[c] = <<>>) BY <1>1, WireIs DEF Respond
<1>5. wire[c] \in Seq(Line) BY DEF TypeOK
<1>6. NotYet(c)' BY <1>1, <1>2 DEF Good, NotYet
<1>7. Registry(c)' BY <1>2 DEF Good, Registry
<1>8. ASSUME Alive(c)', NEW ch \in Channels
      PROVE  Word(queue[c], Append(wire[c], l), <<>>, confirmed[c], subChannels[c], ch)
  <2>1. Word(queue[c], wire[c], <<l>>, confirmed[c], subChannels[c], ch) BY <1>2, <1>3, <1>8 DEF Good, Told, Alive
  <2> QED BY <1>1, <1>5, <2>1, WordRespond
<1>9. Told(c)' BY <1>2, <1>3, <1>4, <1>8 DEF Told, Alive
<1>10. CASE link[c]
  <2>1. Order(c)' /\ \A k : k \in OnWay(c)' <=> k \in OnWay(c) \/ k = l
    <3>1. InLine(queue[c], wire[c], OneLine(fwd[c]), msgCh[c]) BY DEF Good, Order
    <3> HIDE DEF l
    <3>2. /\ InLine(queue[c], Append(wire[c], l), OneLine(fwd[c]), msgCh[c])
          /\ \A k : k \in Held(queue[c], Append(wire[c], l), OneLine(fwd[c]), msgCh[c])
                      <=> k \in Held(queue[c], wire[c], OneLine(fwd[c]), msgCh[c]) \/ k = l
      BY <1>1, <1>5, <3>1, WriteAnswer
    <3>3. /\ queue'[c] = queue[c] /\ wire'[c] = Append(wire[c], l)
          /\ fwd'[c] = fwd[c] /\ msgCh'[c] = msgCh[c]
      BY <1>2, <1>4, <1>10
    <3> QED BY <3>2, <3>3 DEF Order, OnWay
  <2>2. Spaced(c)' BY <1>1, <1>2, <2>1, SpacedKept DEF Good
  <2>3. Kept(c)' BY <1>2, <2>1 DEF Good, Kept, Alive
  <2> QED BY <1>6, <1>7, <1>9, <2>1, <2>2, <2>3 DEF Good
<1>11. CASE ~link[c]
  <2>1. Order(c)' /\ OnWay(c)' \subseteq OnWay(c) BY <1>2, <1>4, <1>11, DropLines DEF Good, Order, OnWay
  <2>2. Spaced(c)' BY <1>2, <2>1, SpacedKept DEF Good
  <2>3. Kept(c)' BY <1>2, <1>11 DEF Kept, Alive
  <2> QED BY <1>6, <1>7, <1>9, <2>1, <2>2, <2>3 DEF Good
<1> QED BY <1>10, <1>11

\* The handler returns: the connection had failed, so nothing more was promised.
LEMMA EndKeeps ==
  ASSUME TypeOK, NEW c \in Conns, Good(c), HandlerEnds(c)
  PROVE  Good(c)'
<1>1. UNCHANGED <<todo, reply, msgCh, fwd, wire, link, client, queue, confirmed, last, pub, owed>> /\ ~link[c]
  BY DEF HandlerEnds
<1>2. subChannels'[c] = {} /\ \A ch \in Channels : c \notin subs'[ch] BY DEF HandlerEnds, TypeOK
<1>3. NotYet(c)' BY <1>1 DEF HandlerEnds, Good, NotYet
<1>4. Registry(c)' BY <1>2 DEF Registry
<1>5. Told(c)' /\ Kept(c)' BY <1>1 DEF Told, Kept, Alive
<1>6. Order(c)' BY <1>1 DEF Good, Order
<1>7. OnWay(c)' = OnWay(c) BY <1>1 DEF OnWay
<1>8. Spaced(c)' BY <1>1, <1>7 DEF Good, Spaced, Below
<1> QED BY <1>3, <1>4, <1>5, <1>6, <1>8 DEF Good

LEMMA ForwardKeeps ==
  ASSUME TypeOK, NEW c \in Conns, Good(c), Forward(c)
  PROVE  Good(c)'
<1>1. UNCHANGED <<conn, subs, subChannels, todo, reply, wire, link, client, queue, confirmed, last, pub, owed>>
  BY DEF Forward, handlerVars, clientVars
<1>2. msgCh[c] \in Seq(MessageLine) /\ msgCh[c] # <<>> BY DEF TypeOK, Forward
<1>3. msgCh[c] \in Seq(Line) /\ Head(msgCh[c]) \in Line /\ Head(msgCh[c]) # None BY <1>2, SeqsAre, LinesAre
<1>4. fwd[c] = None /\ fwd'[c] = Head(msgCh[c]) /\ msgCh'[c] = Tail(msgCh[c]) BY DEF Forward, TypeOK
<1>5. OneLine(fwd[c]) = <<>> /\ OneLine(fwd'[c]) = <<Head(msgCh[c])>> BY <1>3, <1>4 DEF OneLine
<1>6. InLine(queue[c], wire[c], <<>>, msgCh[c]) BY <1>5 DEF Good, Order
<1>7. /\ InLine(queue[c], wire[c], <<Head(msgCh[c])>>, Tail(msgCh[c]))
      /\ Held(queue[c], wire[c], <<Head(msgCh[c])>>, Tail(msgCh[c])) = Held(queue[c], wire[c], <<>>, msgCh[c])
  BY <1>2, <1>3, <1>6, TakeMessage
<1>8. Order(c)' BY <1>1, <1>4, <1>5, <1>7 DEF Order
<1>9. OnWay(c)' = OnWay(c) /\ Alive(c)' = Alive(c) BY <1>1, <1>4, <1>5, <1>7 DEF OnWay, Alive
<1>10. NotYet(c)' BY <1>1 DEF Good, NotYet
<1>11. Registry(c)' BY <1>1 DEF Good, Registry
<1>12. Told(c)' BY <1>1 DEF Good, Told, Alive
<1>13. Spaced(c)' BY <1>1, <1>9 DEF Good, Spaced, Below
<1>14. Kept(c)' BY <1>1, <1>9 DEF Good, Kept
<1> QED BY <1>8, <1>10, <1>11, <1>12, <1>13, <1>14 DEF Good

LEMMA ForwardWriteKeeps ==
  ASSUME TypeOK, NEW c \in Conns, Good(c), ForwardWrite(c)
  PROVE  Good(c)'
<1> DEFINE l == fwd[c]
<1>1. l \in Line /\ IsMessage(l) /\ l # None BY LinesAre DEF TypeOK, ForwardWrite
<1>2. UNCHANGED <<conn, subs, subChannels, todo, reply, msgCh, link, client, queue, confirmed, last, pub, owed>>
  BY DEF ForwardWrite, handlerVars, clientVars
<1>3. fwd'[c] = None /\ OneLine(fwd'[c]) = <<>> /\ OneLine(fwd[c]) = <<l>> BY <1>1 DEF ForwardWrite, TypeOK, OneLine
<1>4. (link[c] => wire'[c] = Append(wire[c], l)) /\ (~link[c] => wire'[c] = <<>>) BY <1>1, WireIs DEF ForwardWrite
<1>5. wire[c] \in Seq(Line) BY DEF TypeOK
<1>6. InLine(queue[c], wire[c], <<l>>, msgCh[c]) BY <1>3 DEF Good, Order
<1>7. Registry(c)' BY <1>2 DEF Good, Registry
<1>8. CASE link[c]
  <2>1. NotYet(c)' BY <1>2, <1>8 DEF Good, NotYet
  <2>2. ASSUME Alive(c)', NEW ch \in Channels
        PROVE  Word(queue[c], Append(wire[c], l), OneLine(reply[c]), confirmed[c], subChannels[c], ch)
    <3>1. Word(queue[c], wire[c], OneLine(reply[c]), confirmed[c], subChannels[c], ch)
      BY <1>2, <2>2 DEF Good, Told, Alive
    <3> QED BY <1>1, <1>5, <3>1, WordMessage
  <2>3. wire'[c] = Append(wire[c], l) BY <1>4, <1>8
  <2>4. Told(c)' BY <1>2, <2>2, <2>3 DEF Told
  <2>5. /\ InLine(queue[c], Append(wire[c], l), <<>>, msgCh[c])
        /\ Held(queue[c], Append(wire[c], l), <<>>, msgCh[c]) = Held(queue[c], wire[c], <<l>>, msgCh[c])
    BY <1>1, <1>5, <1>6, WriteMessage
  <2>6. Order(c)' BY <1>2, <1>3, <2>3, <2>5 DEF Order
  <2>7. OnWay(c)' = OnWay(c) BY <1>2, <1>3, <2>3, <2>5 DEF OnWay
  <2>8. Spaced(c)' BY <1>2, <2>7, SpacedKept DEF Good
  <2>9. Kept(c)' BY <1>2, <2>7 DEF Good, Kept, Alive
  <2> QED BY <1>7, <2>1, <2>4, <2>6, <2>8, <2>9 DEF Good
<1>9. CASE ~link[c]
  <2>1. wire'[c] = <<>> BY <1>4, <1>9
  <2>2. NotYet(c)' BY <1>2, <2>1 DEF Good, NotYet
  <2>3. Told(c)' /\ Kept(c)' BY <1>2, <1>9 DEF Told, Kept, Alive
  <2>4. /\ InLine(queue[c], <<>>, <<>>, msgCh[c])
        /\ Held(queue[c], <<>>, <<>>, msgCh[c]) \subseteq Held(queue[c], wire[c], <<l>>, msgCh[c])
    BY <1>6, DropLines
  <2>5. Order(c)' BY <1>2, <1>3, <2>1, <2>4 DEF Order
  <2>6. OnWay(c)' \subseteq OnWay(c) BY <1>2, <1>3, <2>1, <2>4 DEF OnWay
  <2>7. Spaced(c)' BY <1>2, <2>6, SpacedKept DEF Good
  <2> QED BY <1>7, <2>2, <2>3, <2>5, <2>7 DEF Good
<1> QED BY <1>8, <1>9

LEMMA ReadKeeps ==
  ASSUME TypeOK, NEW c \in Conns, Good(c), ReadLine(c)
  PROVE  Good(c)'
<1>1. UNCHANGED <<conn, subs, subChannels, todo, reply, msgCh, fwd, link, client, confirmed, last, pub, owed>>
  BY DEF ReadLine, handlerVars
<1>2. queue[c] \in Seq(Line) /\ wire[c] \in Seq(Line) /\ wire[c] # <<>> BY DEF TypeOK, ReadLine
<1>3. queue'[c] = Append(queue[c], Head(wire[c])) /\ wire'[c] = Tail(wire[c]) BY DEF TypeOK, ReadLine
<1>4. NotYet(c)' BY <1>1 DEF ReadLine, NotYet
<1>5. Registry(c)' BY <1>1 DEF Good, Registry
<1>6. ASSUME Alive(c)', NEW ch \in Channels
      PROVE  Word(Append(queue[c], Head(wire[c])), Tail(wire[c]), OneLine(reply[c]), confirmed[c], subChannels[c], ch)
  <2>1. Word(queue[c], wire[c], OneLine(reply[c]), confirmed[c], subChannels[c], ch)
    BY <1>1, <1>6 DEF Good, Told, Alive
  <2> QED BY <1>2, <2>1, WordPassOn
<1>7. Told(c)' BY <1>1, <1>3, <1>6 DEF Told
<1>8. /\ InLine(Append(queue[c], Head(wire[c])), Tail(wire[c]), OneLine(fwd[c]), msgCh[c])
      /\ \A k : k \in Held(Append(queue[c], Head(wire[c])), Tail(wire[c]), OneLine(fwd[c]), msgCh[c])
                  <=> k \in Held(queue[c], wire[c], OneLine(fwd[c]), msgCh[c])
  <2>1. InLine(queue[c], wire[c], OneLine(fwd[c]), msgCh[c]) BY DEF Good, Order
  <2> QED BY <1>2, <2>1, PassOn
<1>9. Order(c)' BY <1>1, <1>3, <1>8 DEF Order
<1>10. OnWay(c)' = OnWay(c) BY <1>1, <1>3, <1>8 DEF OnWay
<1>11. Spaced(c)' BY <1>1, <1>10, SpacedKept DEF Good
<1>12. Kept(c)' BY <1>1, <1>10 DEF Good, Kept, Alive
<1> QED BY <1>4, <1>5, <1>7, <1>9, <1>11, <1>12 DEF Good

LEMMA OnWayLines ==
  ASSUME TypeOK, NEW c \in Conns
  PROVE  /\ OnWay(c) \subseteq Line
         /\ \A l \in OnWay(c) : IsMessage(l) => l.pub \in Publishers /\ l.n \in Nat
<1>1. queue[c] \in Seq(Line) /\ wire[c] \in Seq(Line) /\ msgCh[c] \in Seq(Line) BY SeqsAre DEF TypeOK
<1>2. Elems(queue[c]) \subseteq Line /\ Elems(wire[c]) \subseteq Line /\ Elems(msgCh[c]) \subseteq Line
  BY <1>1, ListIs
<1>3. Elems(OneLine(fwd[c])) \subseteq Line
  <2>1. CASE fwd[c] = None BY <2>1, EmptyIs DEF OneLine
  <2>2. CASE fwd[c] # None
    <3>1. fwd[c] \in Line BY <2>2, LinesAre DEF TypeOK
    <3>2. Elems(<<fwd[c]>>) = {fwd[c]} BY <3>1, OneIs
    <3> QED BY <2>2, <3>1, <3>2 DEF OneLine
  <2> QED BY <2>1, <2>2
<1>4. OnWay(c) \subseteq Line BY <1>2, <1>3 DEF OnWay, Held
<1> QED BY <1>4, LinesAre DEF Line

LEMMA ReceiveKeeps ==
  ASSUME TypeOK, NEW c \in Conns, Good(c), Receive(c)
  PROVE  Good(c)'
<1> DEFINE line == Head(queue[c])
<1>1. UNCHANGED <<conn, subs, subChannels, todo, reply, msgCh, fwd, wire, link, client, pub>>
  BY DEF Receive, handlerVars
<1>2. queue[c] \in Seq(Line) /\ queue[c] # <<>> /\ client[c] = "open" BY DEF TypeOK, Receive
<1>3. queue'[c] = Tail(queue[c]) /\ line \in Line BY <1>2, TailIs DEF TypeOK, Receive
<1>4. IF IsMessage(line)
      THEN /\ last' = [last EXCEPT ![c][line.pub] = line.n]
           /\ owed'[c] = owed[c] \ {line} /\ confirmed'[c] = confirmed[c]
      ELSE /\ confirmed'[c] = IF line.kind = "subscribe" THEN confirmed[c] \cup {line.ch} ELSE confirmed[c] \ {line.ch}
           /\ last'[c] = last[c] /\ owed'[c] = owed[c]
  BY DEF Receive, IsMessage, TypeOK
<1>5. NotYet(c)' BY <1>1, <1>2 DEF NotYet
<1>6. Registry(c)' BY <1>1 DEF Good, Registry
<1>7. ASSUME NEW ch \in Channels
      PROVE  /\ About(line, ch) => (ch \in confirmed'[c] <=> line.kind = "subscribe")
             /\ ~About(line, ch) => (ch \in confirmed'[c] <=> ch \in confirmed[c])
  BY <1>4 DEF About
<1>8. ASSUME Alive(c)', NEW ch \in Channels
      PROVE  Word(Tail(queue[c]), wire[c], OneLine(reply[c]), confirmed'[c], subChannels[c], ch)
  <2>1. Word(queue[c], wire[c], OneLine(reply[c]), confirmed[c], subChannels[c], ch)
    BY <1>1, <1>8 DEF Good, Told, Alive
  <2> QED BY <1>2, <1>7, <2>1, WordReceive
<1>9. Told(c)' BY <1>1, <1>3, <1>8 DEF Told
<1>10. InLine(queue[c], wire[c], OneLine(fwd[c]), msgCh[c]) BY DEF Good, Order
<1>11. /\ InLine(Tail(queue[c]), wire[c], OneLine(fwd[c]), msgCh[c])
       /\ \A k : k \in OnWay(c)
                 <=> k = line \/ k \in Held(Tail(queue[c]), wire[c], OneLine(fwd[c]), msgCh[c])
       /\ \A l \in Held(Tail(queue[c]), wire[c], OneLine(fwd[c]), msgCh[c]) : Earlier(line, l)
  BY <1>2, <1>10, TakeFirst DEF OnWay
<1>12. Order(c)' BY <1>1, <1>3, <1>11 DEF Order
<1>13. OnWay(c)' = Held(Tail(queue[c]), wire[c], OneLine(fwd[c]), msgCh[c]) BY <1>1, <1>3 DEF OnWay
<1>14. /\ \A k : k \in OnWay(c) <=> k = line \/ k \in OnWay(c)'
       /\ \A l \in OnWay(c)' : Earlier(line, l)
  BY <1>11, <1>13
<1> HIDE DEF line
<1>15. CASE IsMessage(line)
  <2>1. last \in [Conns -> [Publishers -> Nat]] BY DEF TypeOK
  <2>2. line \in OnWay(c) BY <1>14
  <2>3. line.pub \in Publishers /\ Below(c, line.pub, line.n) BY <1>15, <2>2, OnWayLines DEF Good, Spaced
  <2>4. last'[c][line.pub] = line.n /\ \A p \in Publishers : p # line.pub => last'[c][p] = last[c][p]
    BY <1>4, <1>15, <2>1, <2>3
  <2>5. ASSUME NEW l \in OnWay(c)', IsMessage(l) PROVE last'[c][l.pub] < l.n /\ Below(c, l.pub, l.n)
    <3>1. l \in OnWay(c) BY <1>14
    <3>2. l.pub \in Publishers /\ last[c][l.pub] < l.n /\ Below(c, l.pub, l.n)
      BY <2>5, <3>1, OnWayLines DEF Good, Spaced
    <3>3. l.pub = line.pub => line.n < l.n BY <1>14, <1>15, <2>5 DEF Earlier
    <3> QED BY <2>4, <3>2, <3>3
  <2>6. \A p \in Publishers : Below(c, p, last'[c][p]) BY <2>3, <2>4 DEF Good, Spaced
  <2>7. Spaced(c)' BY <1>1, <2>5, <2>6 DEF Spaced, Below
  <2>8. owed'[c] = owed[c] \ {line} BY <1>4, <1>15
  <2>9. Kept(c)' BY <1>1, <1>14, <2>8 DEF Good, Kept, Alive
  <2> QED BY <1>5, <1>6, <1>9, <1>12, <2>7, <2>9 DEF Good
<1>16. CASE ~IsMessage(line)
  <2>1. last'[c] = last[c] /\ owed'[c] = owed[c] BY <1>4, <1>16
  <2>2. Spaced(c)' BY <1>1, <1>14, <2>1, SpacedKept DEF Good
  <2>3. line \notin owed[c] BY <1>16, LinesAre DEF TypeOK
  <2>4. Kept(c)' BY <1>1, <1>14, <2>1, <2>3 DEF Good, Kept, Alive
  <2> QED BY <1>5, <1>6, <1>9, <1>12, <2>2, <2>4 DEF Good
<1> QED BY <1>15, <1>16

LEMMA CloseKeeps ==
  ASSUME TypeOK, NEW c \in Conns, Good(c), Close(c)
  PROVE  Good(c)'
<1>1. UNCHANGED <<conn, subs, subChannels, todo, reply, msgCh, fwd, queue, pub>> BY DEF Close, handlerVars
<1>2. client'[c] = "closed" /\ last'[c] = [p \in Publishers |-> 0] BY DEF Close, TypeOK
<1>3. wire'[c] = wire[c] \/ wire'[c] = <<>> BY DEF Close, TypeOK
<1>4. NotYet(c)' BY <1>2 DEF NotYet
<1>5. Registry(c)' BY <1>1 DEF Good, Registry
<1>6. Told(c)' /\ Kept(c)' BY <1>2 DEF Told, Kept, Alive
<1>7. InLine(queue[c], wire[c], OneLine(fwd[c]), msgCh[c]) BY DEF Good, Order
<1>8. /\ InLine(queue[c], <<>>, OneLine(fwd[c]), msgCh[c])
      /\ Held(queue[c], <<>>, OneLine(fwd[c]), msgCh[c]) \subseteq OnWay(c)
  BY <1>7, DropLines DEF OnWay
<1>9. Order(c)' BY <1>1, <1>3, <1>7, <1>8 DEF Order
<1>10. OnWay(c)' \subseteq OnWay(c)
  <2>1. CASE wire'[c] = wire[c] BY <1>1, <2>1 DEF OnWay
  <2>2. CASE wire'[c] = <<>>
    <3>1. OnWay(c)' = Held(queue[c], <<>>, OneLine(fwd[c]), msgCh[c]) BY <1>1, <2>2 DEF OnWay
    <3> QED BY <1>8, <3>1
  <2> QED BY <1>3, <2>1, <2>2
<1>11. ASSUME NEW l \in OnWay(c)', IsMessage(l) PROVE last'[c][l.pub] < l.n /\ Below(c, l.pub, l.n)
  <2>1. l \in OnWay(c) BY <1>10
  <2>2. l.pub \in Publishers /\ l.n \in Nat /\ last[c][l.pub] < l.n /\ Below(c, l.pub, l.n)
    BY <1>11, <2>1, OnWayLines DEF Good, Spaced
  <2>3. last[c][l.pub] \in Nat BY <2>2 DEF TypeOK
  <2>4. 0 < l.n BY <2>2, <2>3, SMT
  <2> QED BY <1>2, <2>2, <2>4
<1>12. ASSUME NEW p \in Publishers PROVE Below(c, p, last'[c][p])
  <2>1. Below(c, p, last[c][p]) /\ last[c][p] \in Nat BY DEF Good, Spaced, TypeOK
  <2>2. pub[p].n \in Nat BY DEF TypeOK, PubTask
  <2>3. last'[c][p] = 0 BY <1>2
  <2> QED BY <2>1, <2>2, <2>3, SMT DEF Below
<1>13. Spaced(c)' BY <1>1, <1>11, <1>12 DEF Spaced, Below
<1> QED BY <1>4, <1>5, <1>6, <1>9, <1>13 DEF Good

LEMMA BreakKeeps ==
  ASSUME TypeOK, NEW c \in Conns, Good(c), Break(c)
  PROVE  Good(c)'
<1>1. UNCHANGED <<conn, subs, subChannels, todo, reply, msgCh, fwd, client, queue, confirmed, last, pub>>
  BY DEF Break, handlerVars, clientVars
<1>2. ~link'[c] /\ wire'[c] = <<>> /\ link[c] BY DEF Break, TypeOK
<1>3. NotYet(c)' BY <1>1, <1>2 DEF Good, NotYet
<1>4. Registry(c)' BY <1>1 DEF Good, Registry
<1>5. Told(c)' /\ Kept(c)' BY <1>2 DEF Told, Kept, Alive
<1>6. InLine(queue[c], wire[c], OneLine(fwd[c]), msgCh[c]) BY DEF Good, Order
<1>7. /\ InLine(queue[c], <<>>, OneLine(fwd[c]), msgCh[c])
      /\ Held(queue[c], <<>>, OneLine(fwd[c]), msgCh[c]) \subseteq OnWay(c)
  BY <1>6, DropLines DEF OnWay
<1>8. Order(c)' BY <1>1, <1>2, <1>7 DEF Order
<1>9. OnWay(c)' = Held(queue[c], <<>>, OneLine(fwd[c]), msgCh[c]) BY <1>1, <1>2 DEF OnWay
<1>10. Spaced(c)' BY <1>1, <1>7, <1>9, SpacedKept DEF Good
<1> QED BY <1>3, <1>4, <1>5, <1>8, <1>10 DEF Good

LEMMA ReadEndsKeeps ==
  ASSUME TypeOK, NEW c \in Conns, Good(c), ReadEnds(c)
  PROVE  Good(c)'
<1>1. UNCHANGED <<conn, subs, subChannels, todo, reply, msgCh, fwd, wire, link, last, pub>> BY DEF ReadEnds, handlerVars
<1>2. client'[c] = "ended" /\ queue'[c] = <<>> BY DEF ReadEnds, TypeOK
<1>3. NotYet(c)' BY <1>2 DEF NotYet
<1>4. Registry(c)' BY <1>1 DEF Good, Registry
<1>5. Told(c)' /\ Kept(c)' BY <1>2 DEF Told, Kept, Alive
<1>6. InLine(queue[c], wire[c], OneLine(fwd[c]), msgCh[c]) BY DEF Good, Order
<1>7. /\ InLine(<<>>, wire[c], OneLine(fwd[c]), msgCh[c])
      /\ Held(<<>>, wire[c], OneLine(fwd[c]), msgCh[c]) \subseteq OnWay(c)
  BY <1>6, DropLines DEF OnWay
<1>8. Order(c)' BY <1>1, <1>2, <1>7 DEF Order
<1>9. OnWay(c)' = Held(<<>>, wire[c], OneLine(fwd[c]), msgCh[c]) BY <1>1, <1>2 DEF OnWay
<1>10. Spaced(c)' BY <1>1, <1>7, <1>9, SpacedKept DEF Good
<1> QED BY <1>3, <1>4, <1>5, <1>8, <1>10 DEF Good

\* A publisher's step that is not a send to c.
LEMMA PublishKeeps ==
  ASSUME TypeOK, NEW c \in Conns, Good(c), Untouched(c),
         \A p \in Publishers, n \in Nat : Below(c, p, n) => Below(c, p, n)'
  PROVE  Good(c)'
<1>1. NotYet(c)' BY DEF Good, NotYet, Untouched
<1>2. Registry(c)' BY DEF Good, Registry, Untouched
<1>3. Told(c)' BY DEF Good, Told, Alive, Untouched
<1>4. Order(c)' BY DEF Good, Order, Untouched
<1>5. OnWay(c)' = OnWay(c) BY DEF OnWay, Untouched
<1>6. last'[c] = last[c] /\ owed'[c] = owed[c] /\ Alive(c)' = Alive(c) BY DEF Untouched, Alive
<1>7. Spaced(c)'
  <2>1. ASSUME NEW l \in OnWay(c), IsMessage(l) PROVE last[c][l.pub] < l.n /\ Below(c, l.pub, l.n)'
    <3>1. l.pub \in Publishers /\ l.n \in Nat BY <2>1, OnWayLines
    <3>2. last[c][l.pub] < l.n /\ Below(c, l.pub, l.n) BY <2>1 DEF Good, Spaced
    <3> QED BY <3>1, <3>2
  <2>2. ASSUME NEW p \in Publishers PROVE Below(c, p, last[c][p])'
    <3>1. last[c][p] \in Nat BY DEF TypeOK
    <3>2. Below(c, p, last[c][p]) BY DEF Good, Spaced
    <3>3. last'[c][p] = last[c][p] BY <1>6
    <3> QED BY <3>1, <3>2, <3>3 DEF Below
  <2> QED BY <1>5, <1>6, <2>1, <2>2 DEF Spaced, Below
<1>8. Kept(c)' BY <1>5, <1>6 DEF Good, Kept
<1> QED BY <1>1, <1>2, <1>3, <1>4, <1>7, <1>8 DEF Good

LEMMA StartKeeps ==
  ASSUME TypeOK, NEW p \in Publishers, PublishStart(p), NEW c \in Conns, Good(c)
  PROVE  Good(c)'
<1>1. PICK ch \in Channels :
        pub' = [pub EXCEPT ![p] = [pc |-> "send", ch |-> ch, targets |-> subs[ch], n |-> @.n + 1]]
  BY DEF PublishStart
<1>2. Untouched(c) BY DEF PublishStart, handlerVars, clientVars, Untouched
<1>3. pub \in [Publishers -> PubTask] /\ \A q \in Publishers : pub[q].n \in Nat BY DEF TypeOK, PubTask
<1>4. pub'[p].n = pub[p].n + 1 /\ \A q \in Publishers : q # p => pub'[q] = pub[q] BY <1>1, <1>3
<1>5. ASSUME NEW q \in Publishers, NEW n \in Nat, Below(c, q, n) PROVE Below(c, q, n)'
  <2>1. CASE q = p
    <3>1. n <= pub[p].n BY <1>5, <2>1 DEF Below
    <3>2. pub[p].n \in Nat BY <1>3
    <3>3. n <= pub[p].n + 1 /\ n < pub[p].n + 1 BY <3>1, <3>2, SMT
    <3> QED BY <1>4, <2>1, <3>3 DEF Below
  <2>2. CASE q # p BY <1>4, <1>5, <2>2 DEF Below
  <2> QED BY <2>1, <2>2
<1> QED BY <1>2, <1>5, PublishKeeps

LEMMA ReturnKeeps ==
  ASSUME TypeOK, NEW p \in Publishers, PublishReturns(p), NEW c \in Conns, Good(c)
  PROVE  Good(c)'
<1>1. Untouched(c) BY DEF PublishReturns, handlerVars, clientVars, Untouched
<1>2. pub \in [Publishers -> PubTask] BY DEF TypeOK
<1>3. /\ pub'[p].n = pub[p].n /\ pub'[p].targets = {}
      /\ \A q \in Publishers : q # p => pub'[q] = pub[q]
  BY <1>2 DEF PublishReturns, IdlePub
<1>4. ASSUME NEW q \in Publishers, NEW n \in Nat, Below(c, q, n) PROVE Below(c, q, n)'
  <2>1. CASE q = p BY <1>3, <1>4, <2>1 DEF Below
  <2>2. CASE q # p BY <1>3, <1>4, <2>2 DEF Below
  <2> QED BY <2>1, <2>2
<1> QED BY <1>1, <1>4, PublishKeeps

\* What the send to d does.
SendTo(p, d, m) ==
  /\ m = Message(p, pub[p].ch, pub[p].n)
  /\ pub' = [pub EXCEPT ![p].targets = @ \ {d}]
  /\ IF Len(msgCh[d]) < ChanCap
     THEN /\ msgCh' = [msgCh EXCEPT ![d] = Append(@, m)]
          /\ owed' = [owed EXCEPT ![d] = IF client[d] = "open" /\ link[d] THEN @ \cup {m} ELSE @]
     ELSE UNCHANGED <<msgCh, owed>>
  /\ UNCHANGED <<handlerVars, fwd, wire, link, clientVars, kind>>

LEMMA SendIs ==
  ASSUME TypeOK, NEW p \in Publishers, PublishSend(p)
  PROVE  \E d \in Conns, m \in MessageLine :
           /\ d \in pub[p].targets /\ SendTo(p, d, m)
           /\ m.pub = p /\ m.n = pub[p].n
           /\ pub'[p].n = pub[p].n /\ pub'[p].targets = pub[p].targets \ {d}
           /\ \A q \in Publishers : q # p => pub'[q] = pub[q]
<1>1. PICK d \in pub[p].targets : SendTo(p, d, Message(p, pub[p].ch, pub[p].n))
  BY DEF PublishSend, SendTo
<1> DEFINE m == Message(p, pub[p].ch, pub[p].n)
<1>2. pub[p] \in [pc : {"send"}, ch : Channels, targets : SUBSET Conns, n : Nat]
  <2>1. pub[p] \in PubTask BY DEF TypeOK
  <2>2. pub[p] \notin [pc : {"idle"}, ch : {None}, targets : {{}}, n : Nat] BY <1>1
  <2> QED BY <2>1, <2>2 DEF PubTask
<1>3. d \in Conns /\ m \in MessageLine BY <1>1, <1>2 DEF Message, MessageLine
<1>4. m.pub = p /\ m.n = pub[p].n BY DEF Message
<1>5. pub' = [pub EXCEPT ![p].targets = @ \ {d}] /\ pub \in [Publishers -> PubTask] BY <1>1 DEF SendTo, TypeOK
<1>6. pub'[p] = [pub[p] EXCEPT !.targets = @ \ {d}] /\ \A q \in Publishers : q # p => pub'[q] = pub[q] BY <1>5
<1>7. pub'[p].n = pub[p].n /\ pub'[p].targets = pub[p].targets \ {d} BY <1>2, <1>6
<1>8. SendTo(p, d, m) BY <1>1
<1> HIDE DEF m
<1> QED BY <1>1, <1>3, <1>4, <1>6, <1>7, <1>8

LEMMA SendKeeps ==
  ASSUME TypeOK, NEW p \in Publishers, PublishSend(p), NEW c \in Conns, Good(c)
  PROVE  Good(c)'
<1>1. PICK d \in Conns, m \in MessageLine :
        /\ d \in pub[p].targets /\ SendTo(p, d, m)
        /\ m.pub = p /\ m.n = pub[p].n
        /\ pub'[p].n = pub[p].n /\ pub'[p].targets = pub[p].targets \ {d}
        /\ \A q \in Publishers : q # p => pub'[q] = pub[q]
  BY SendIs
<1>2. ASSUME NEW q \in Publishers, NEW n \in Nat, Below(c, q, n) PROVE Below(c, q, n)'
  <2>1. CASE q = p BY <1>1, <1>2, <2>1 DEF Below
  <2>2. CASE q # p BY <1>1, <1>2, <2>2 DEF Below
  <2> QED BY <2>1, <2>2
<1>3. UNCHANGED <<conn, subs, subChannels, todo, reply, fwd, wire, link, client, queue, confirmed, last>>
  BY <1>1 DEF SendTo, handlerVars, clientVars
<1>4. CASE d # c \/ ~(Len(msgCh[d]) < ChanCap)
  <2>1. msgCh'[c] = msgCh[c] /\ owed'[c] = owed[c] BY <1>1, <1>4 DEF SendTo, TypeOK
  <2>2. Untouched(c) BY <1>3, <2>1 DEF Untouched
  <2> QED BY <1>2, <2>2, PublishKeeps
<1>5. CASE d = c /\ Len(msgCh[d]) < ChanCap
  <2>1. /\ msgCh'[c] = Append(msgCh[c], m)
        /\ owed'[c] = owed[c] \/ owed'[c] = owed[c] \cup {m}
        /\ client[c] # "open" => owed'[c] = owed[c]
    BY <1>1, <1>5 DEF SendTo, TypeOK
  <2>2. m \in Line /\ IsMessage(m) BY LinesAre
  <2>3. msgCh[c] \in Seq(Line) BY SeqsAre DEF TypeOK
  <2>4. ASSUME NEW k \in OnWay(c) PROVE Earlier(k, m)
    <3>1. ASSUME IsMessage(k), k.pub = m.pub PROVE k.n < m.n BY <1>1, <1>5, <3>1 DEF Good, Spaced, Below
    <3> QED BY <3>1 DEF Earlier
  <2>5. InLine(queue[c], wire[c], OneLine(fwd[c]), msgCh[c]) BY DEF Good, Order
  <2>6. /\ InLine(queue[c], wire[c], OneLine(fwd[c]), Append(msgCh[c], m))
        /\ \A k : k \in Held(queue[c], wire[c], OneLine(fwd[c]), Append(msgCh[c], m))
                  <=> k \in Held(queue[c], wire[c], OneLine(fwd[c]), msgCh[c]) \/ k = m
    BY <2>2, <2>3, <2>4, <2>5, SendMessage DEF OnWay
  <2>7. Order(c)' BY <1>3, <2>1, <2>6 DEF Order
  <2>8. \A k : k \in OnWay(c)' <=> k \in OnWay(c) \/ k = m BY <1>3, <2>1, <2>6 DEF OnWay
  <2>9. last[c][p] < m.n /\ Below(c, p, m.n)'
    <3>1. pub[p].n \in Nat BY DEF TypeOK, PubTask
    <3>2. pub[p].n <= pub[p].n BY <3>1, SMT
    <3> QED BY <1>1, <1>5, <3>2 DEF Good, Spaced, Below
  <2>10. ASSUME NEW l \in OnWay(c)', IsMessage(l) PROVE last[c][l.pub] < l.n /\ Below(c, l.pub, l.n)'
    <3>1. CASE l = m BY <1>1, <2>9, <3>1
    <3>2. CASE l \in OnWay(c)
      <4>1. l.pub \in Publishers /\ l.n \in Nat BY <2>10, <3>2, OnWayLines
      <4>2. last[c][l.pub] < l.n /\ Below(c, l.pub, l.n) BY <2>10, <3>2 DEF Good, Spaced
      <4> QED BY <1>2, <4>1, <4>2
    <3> QED BY <2>8, <3>1, <3>2
  <2>11. ASSUME NEW q \in Publishers PROVE Below(c, q, last[c][q])'
    <3>1. last[c][q] \in Nat /\ last'[c][q] = last[c][q] BY <1>3 DEF TypeOK
    <3>2. Below(c, q, last[c][q]) BY DEF Good, Spaced
    <3>3. ASSUME NEW n \in Nat, n = last[c][q] PROVE Below(c, q, n)' BY <1>2, <3>2, <3>3
    <3> QED BY <3>1, <3>3 DEF Below
  <2>12. Spaced(c)' BY <1>3, <2>10, <2>11 DEF Spaced, Below
  <2>13. Kept(c)' BY <1>3, <2>1, <2>8 DEF Good, Kept, Alive
  <2>14. NotYet(c)' BY <1>3, <2>1 DEF Good, NotYet
  <2>15. Registry(c)' BY <1>3 DEF Good, Registry
  <2>16. Told(c)' BY <1>3 DEF Good, Told, Alive
  <2> QED BY <2>7, <2>12, <2>13, <2>14, <2>15, <2>16 DEF Good
<1> QED BY <1>4, <1>5

-----------------------------------------------------------------------------
(* Theorems *)

LEMMA InvInit ==
  ASSUME Init
  PROVE  Inv
<1>1. TypeOK
  <2>1. kind \in [Conns -> {"go", "python"}] BY PubSubConstants DEF Init
  <2>2. [p \in Publishers |-> 0] \in [Publishers -> Nat] /\ 0 \in Nat BY SMT
  <2>3. IdlePub \in PubTask BY <2>2 DEF IdlePub, PubTask
  <2> QED BY <2>1, <2>2, <2>3, EmptyIs, SeqsAre DEF Init, TypeOK
<1>2. ASSUME NEW c \in Conns PROVE Good(c)
  <2>1. /\ client[c] = "none" /\ ~link[c] /\ conn[c] = "none" /\ todo[c] = NoTask /\ reply[c] = None
        /\ queue[c] = <<>> /\ wire[c] = <<>> /\ fwd[c] = None /\ msgCh[c] = <<>>
        /\ confirmed[c] = {} /\ subChannels[c] = {} /\ owed[c] = {}
    BY DEF Init
  <2>2. NotYet(c) BY <2>1 DEF NotYet
  <2>3. Registry(c) BY DEF Init, Registry
  <2>4. Told(c) /\ Kept(c) BY <2>1 DEF Told, Kept, Alive
  <2>5. OneLine(fwd[c]) = <<>> BY <2>1 DEF OneLine
  <2>6. Order(c) BY <2>1, <2>5, EmptyIs, RisingEmpty DEF Order, InLine, Before
  <2>7. OnWay(c) = {} BY <2>1, <2>5, EmptyIs DEF OnWay, Held
  <2>8. ASSUME NEW p \in Publishers PROVE Below(c, p, last[c][p])
    <3>1. pub[p] = IdlePub /\ last[c][p] = 0 BY DEF Init
    <3>2. IdlePub.n = 0 /\ IdlePub.targets = {} /\ 0 <= 0 BY SMT DEF IdlePub
    <3> QED BY <3>1, <3>2 DEF Below
  <2>9. Spaced(c) BY <2>7, <2>8 DEF Spaced
  <2> QED BY <2>2, <2>3, <2>4, <2>6, <2>9 DEF Good
<1> QED BY <1>1, <1>2 DEF Inv

LEMMA InvStep ==
  ASSUME Inv, [Next]_vars
  PROVE  Inv'
<1>1. TypeOK' BY TypeStep DEF Inv
<1>2. ASSUME NEW x \in Conns PROVE Good(x)'
  <2>1. TypeOK /\ Good(x) BY DEF Inv
  <2>2. ASSUME NEW c \in Conns, StepOf(c) PROVE Good(x)'
    <3>1. CASE x # c BY <2>1, <2>2, <3>1, Elsewhere, UntouchedKeeps
    <3>2. CASE x = c
      <4>1. Good(c) BY <2>1, <3>2
      <4>2. Good(c)'
        <5> USE <2>1, <4>1
        <5>1. CASE Dial(c) BY <5>1, DialKeeps
        <5>2. CASE ReadRequest(c) \/ HandleNothing(c) \/ Request(c) BY <5>2, RequestKeeps
        <5>3. CASE HandleChannel(c) BY <5>3, HandleKeeps
        <5>4. CASE Respond(c) BY <5>4, RespondKeeps
        <5>5. CASE HandlerEnds(c) BY <5>5, EndKeeps
        <5>6. CASE Forward(c) BY <5>6, ForwardKeeps
        <5>7. CASE ForwardWrite(c) BY <5>7, ForwardWriteKeeps
        <5>8. CASE ReadLine(c) BY <5>8, ReadKeeps
        <5>9. CASE Receive(c) BY <5>9, ReceiveKeeps
        <5>10. CASE Close(c) BY <5>10, CloseKeeps
        <5>11. CASE ReadEnds(c) BY <5>11, ReadEndsKeeps
        <5>12. CASE Break(c) BY <5>12, BreakKeeps
        <5> QED BY <2>2, <5>1, <5>2, <5>3, <5>4, <5>5, <5>6, <5>7, <5>8, <5>9, <5>10, <5>11, <5>12 DEF StepOf, HandlerStep
      <4> QED BY <3>2, <4>2
    <3> QED BY <3>1, <3>2
  <2>3. ASSUME NEW p \in Publishers, PublishStart(p) PROVE Good(x)' BY <2>1, <2>3, StartKeeps
  <2>4. ASSUME NEW p \in Publishers, PublishSend(p) PROVE Good(x)' BY <2>1, <2>4, SendKeeps
  <2>5. ASSUME NEW p \in Publishers, PublishReturns(p) PROVE Good(x)' BY <2>1, <2>5, ReturnKeeps
  <2>6. CASE UNCHANGED vars
    <3>1. Untouched(x) /\ pub' = pub BY <2>6 DEF vars, handlerVars, clientVars, Untouched
    <3> QED BY <2>1, <3>1, UntouchedKeeps
  <2> QED BY <2>2, <2>3, <2>4, <2>5, <2>6 DEF Next, StepOf, PublishStep
<1> QED BY <1>1, <1>2 DEF Inv

\* The inductive invariant of handleConn, Publish and PubSubConn.
THEOREM Invariance == Spec => []Inv
BY InvInit, InvStep, PTL DEF Spec

LEMMA RegisteredByInv ==
  ASSUME Inv
  PROVE  ConfirmedIsRegistered
<1> SUFFICES ASSUME NEW c \in Conns, NEW ch \in Channels, Alive(c), \A l \in Confirmations(c) : l.ch # ch
             PROVE  ch \in confirmed[c] <=> c \in subs[ch]
  BY DEF ConfirmedIsRegistered
<1>1. Silent(queue[c], ch) /\ Silent(wire[c], ch) /\ Silent(OneLine(reply[c]), ch)
  BY DEF Confirmations, Silent, About
<1>2. \A q : Silent(q, ch) => ~Final(q, ch, subChannels[c]) BY DEF Silent, Final, Elems
<1>3. Word(queue[c], wire[c], OneLine(reply[c]), confirmed[c], subChannels[c], ch) BY DEF Inv, Good, Told
<1>4. ch \in confirmed[c] <=> ch \in subChannels[c] BY <1>1, <1>2, <1>3 DEF Word
<1> QED BY <1>4 DEF Inv, Good, Registry

LEMMA PushedIs ==
  ASSUME Inv, NEW c \in Conns
  PROVE  /\ Pushed(c) \in Seq(Line) /\ Rising(Pushed(c))
         /\ Elems(Pushed(c)) = OnWay(c)
<1> DEFINE q == queue[c]
           w == wire[c]
           f == OneLine(fwd[c])
           m == msgCh[c]
<1>1. q \in Seq(Line) /\ w \in Seq(Line) /\ m \in Seq(Line) BY SeqsAre DEF Inv, TypeOK
<1>2. f \in Seq(Line) /\ Rising(f)
  <2>1. CASE fwd[c] = None BY <2>1, EmptyIs, RisingEmpty DEF OneLine
  <2>2. CASE fwd[c] # None
    <3>1. fwd[c] \in Line BY <2>2, LinesAre DEF Inv, TypeOK
    <3>2. f = <<fwd[c]>> BY <2>2 DEF OneLine
    <3>3. Rising(<<fwd[c]>>)
      <4>1. DOMAIN <<fwd[c]>> = {1} /\ ~(1 < 1) BY SMT
      <4> QED BY <4>1 DEF Rising
    <3> QED BY <3>1, <3>2, <3>3, OneIs
  <2> QED BY <2>1, <2>2
<1>3. InLine(q, w, f, m) BY DEF Inv, Good, Order
<1>4. OnWay(c) = Elems(q) \cup Elems(w) \cup Elems(f) \cup Elems(m) BY DEF OnWay, Held
<1>5. Pushed(c) = ((q \o w) \o f) \o m BY DEF Pushed
<1> HIDE DEF q, w, f, m
<1>6. q \o w \in Seq(Line) /\ Elems(q \o w) = Elems(q) \cup Elems(w) /\ Rising(q \o w)
  <2>1. Rising(q) /\ Rising(w) /\ Before(q, w) BY <1>3 DEF InLine
  <2>2. q \o w \in Seq(Line) BY <1>1, JoinIs
  <2>3. Rising(q \o w) BY <1>1, <2>1, RisingJoin
  <2>4. Elems(q \o w) = Elems(q) \cup Elems(w) BY <1>1, JoinHolds
  <2> QED BY <2>2, <2>3, <2>4
<1>7. Before(q \o w, f) /\ Before(q \o w, m) BY <1>3, <1>6 DEF InLine, Before
<1> DEFINE qw == q \o w
<1> HIDE DEF qw
<1>8. /\ qw \o f \in Seq(Line) /\ Elems(qw \o f) = Elems(q) \cup Elems(w) \cup Elems(f) /\ Rising(qw \o f)
  <2>1. qw \in Seq(Line) /\ Elems(qw) = Elems(q) \cup Elems(w) /\ Rising(qw) /\ Before(qw, f) BY <1>6, <1>7 DEF qw
  <2>2. qw \o f \in Seq(Line) BY <1>2, <2>1, JoinIs
  <2>3. Rising(qw \o f) BY <1>2, <2>1, RisingJoin
  <2>4. Elems(qw \o f) = Elems(qw) \cup Elems(f) BY <1>2, <2>1, JoinHolds
  <2> QED BY <2>1, <2>2, <2>3, <2>4
<1> DEFINE qwf == qw \o f
<1> HIDE DEF qwf
<1>9. qwf \in Seq(Line) /\ Elems(qwf) = Elems(q) \cup Elems(w) \cup Elems(f) /\ Rising(qwf) BY <1>8 DEF qwf
<1>10. Before(qwf, m) BY <1>3, <1>9 DEF InLine, Before
<1>11. /\ qwf \o m \in Seq(Line) /\ Rising(qwf \o m)
       /\ Elems(qwf \o m) = Elems(q) \cup Elems(w) \cup Elems(f) \cup Elems(m)
  <2>1. Rising(m) BY <1>3 DEF InLine
  <2>2. qwf \o m \in Seq(Line) BY <1>1, <1>9, JoinIs
  <2>3. Rising(qwf \o m) BY <1>1, <1>9, <1>10, <2>1, RisingJoin
  <2>4. Elems(qwf \o m) = Elems(qwf) \cup Elems(m) BY <1>1, <1>9, JoinHolds
  <2> QED BY <1>9, <2>2, <2>3, <2>4
<1> QED BY <1>4, <1>5, <1>11 DEF qwf, qw

LEMMA OrderByInv ==
  ASSUME Inv
  PROVE  InOrder
<1> SUFFICES ASSUME NEW c \in Conns
             PROVE  /\ \A l \in Elems(Pushed(c)) : IsMessage(l) => l.n > last[c][l.pub]
                    /\ \A i, j \in DOMAIN Pushed(c) : i < j => Earlier(Pushed(c)[i], Pushed(c)[j])
  BY DEF InOrder
<1>1. Rising(Pushed(c)) /\ Elems(Pushed(c)) = OnWay(c) BY PushedIs
<1>2. ASSUME NEW l \in OnWay(c), IsMessage(l) PROVE l.n > last[c][l.pub]
  <2>1. l.pub \in Publishers /\ l.n \in Nat BY <1>2, OnWayLines DEF Inv
  <2>2. last[c][l.pub] \in Nat BY <2>1 DEF Inv, TypeOK
  <2>3. last[c][l.pub] < l.n BY <1>2 DEF Inv, Good, Spaced
  <2> QED BY <2>1, <2>2, <2>3, SMT
<1> QED BY <1>1, <1>2 DEF Rising

LEMMA KeptByInv ==
  ASSUME Inv
  PROVE  CountedIsKept
BY PushedIs DEF CountedIsKept, Inv, Good, Kept

\* The types of PubSub's state: handlers write only confirmations, publishers only
\* messages, and a publisher that is not sending has no targets left.
THEOREM PubSubTyped == Spec => []TypeOK
BY Invariance, PTL DEF Inv

\* For any connections, publishers, channels and capacities of msgCh, of the wire and
\* of the client's queue: a user who has read all answers about a channel has been
\* told what the registry of pubsub.go holds.
THEOREM ToldIsTrue == Spec => []ConfirmedIsRegistered
BY Invariance, RegisteredByInv, PTL

\* No message overtakes an earlier one of its publisher on the way through msgCh,
\* handleConn's forwarder, the wire and readLoop, and none is delivered twice.
THEOREM InPublishedOrder == Spec => []InOrder
BY Invariance, OrderByInv, PTL

\* While the connection lives, a message that Publish counted is never dropped behind
\* the channel: it is on its way or the user has taken it.
THEOREM NothingCountedIsLost == Spec => []CountedIsKept
BY Invariance, KeptByInv, PTL
=============================================================================
