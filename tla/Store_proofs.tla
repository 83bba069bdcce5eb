----------------------------- MODULE Store_proofs -----------------------------
(* Proofs about Store, for any sets of keys and sessions and any bounds.      *)
EXTENDS Store, TLAPS

\* A leaf is Zenon's unless it names another prover.
USE Zenon

Queued == [from : Sessions, line : Line] \cup {Swap}

\* TypeOK and where replayWAL stands.
TypeInv == TypeOK /\ rpos \in Nat \ {0}

\* At most one hand-over is in the queue, and only while Compact waits for it.
SwapOnce ==
  /\ \A i \in 1..Len(walCh) : walCh[i] = Swap => cpc = "await"
  /\ \A i, j \in 1..Len(walCh) : walCh[i] = Swap /\ walCh[j] = Swap => i = j

\* A cached expiry of a key the index holds is that entry's expiry: every
\* operation updates index and TTL cache together, under the key's lock.
CacheSound == \A k \in Keys : expiry[k] > 0 /\ index[k].live => index[k].exp = expiry[k]

-----------------------------------------------------------------------------
\* The operators of sequences: what a list holds, how one is made, its first
\* element and the rest, one more element, what follows the first n, two in a row.
LEMMA SeqIs ==
  ASSUME NEW S, NEW q \in Seq(S)
  PROVE  /\ Len(q) \in Nat /\ DOMAIN q = 1..Len(q)
         /\ \A i \in DOMAIN q : q[i] \in S
         /\ q # <<>> <=> Len(q) > 0
BY SMT

LEMMA SeqMade ==
  ASSUME NEW S, NEW n \in Nat, NEW q \in [1..n -> S]
  PROVE  q \in Seq(S) /\ Len(q) = n
BY SMT

LEMMA SeqTail ==
  ASSUME NEW S, NEW q \in Seq(S), q # <<>>
  PROVE  /\ Head(q) = q[1] /\ Head(q) \in S /\ 1 \in DOMAIN q
         /\ Tail(q) \in Seq(S) /\ Len(Tail(q)) = Len(q) - 1
         /\ \A i \in 1..(Len(q) - 1) : Tail(q)[i] = q[i + 1] /\ i + 1 \in DOMAIN q
BY SMT

LEMMA SeqAppend ==
  ASSUME NEW S, NEW q \in Seq(S), NEW e \in S
  PROVE  /\ Append(q, e) \in Seq(S) /\ Len(Append(q, e)) = Len(q) + 1
         /\ \A i \in 1..Len(q) : Append(q, e)[i] = q[i]
         /\ Append(q, e)[Len(q) + 1] = e
BY SMT

LEMMA SeqFrom ==
  ASSUME NEW S, NEW q \in Seq(S), NEW n \in 0..Len(q)
  PROVE  /\ SubSeq(q, n + 1, Len(q)) \in Seq(S) /\ Len(SubSeq(q, n + 1, Len(q))) = Len(q) - n
         /\ \A i \in 1..(Len(q) - n) :
              SubSeq(q, n + 1, Len(q))[i] = q[i + n] /\ i + n \in DOMAIN q
BY SMT

LEMMA SeqJoin ==
  ASSUME NEW S, NEW p \in Seq(S), NEW q \in Seq(S)
  PROVE  /\ p \o q \in Seq(S) /\ Len(p \o q) = Len(p) + Len(q)
         /\ \A i \in 1..Len(p) : (p \o q)[i] = p[i]
         /\ \A i \in 1..Len(q) : (p \o q)[Len(p) + i] = q[i]
BY SMT

\* The number of keys in a set is a natural number.
LEMMA Counted == \A K \in SUBSET Keys : Cardinality(K) \in Nat
BY StoreConstants

\* An order in which Go ranges over a map of keys is a finite sequence of them.
LEMMA OrderIsSeq ==
  ASSUME NEW K \in SUBSET Keys, NEW q \in Orders(K)
  PROVE  q \in Seq(K) /\ DOMAIN q = 1..Len(q)
<1>1. Cardinality(K) \in Nat BY Counted
<1>2. q \in [1..Cardinality(K) -> K] BY DEF Orders
<1> QED BY <1>1, <1>2, SeqMade

\* Lines made of such an order are a list of lines.
LEMMA LinesOfOrder ==
  ASSUME NEW K \in SUBSET Keys, NEW q \in Orders(K), NEW g \in [DOMAIN q -> Line]
  PROVE  g \in Seq(Line)
<1>1. q \in Seq(K) /\ DOMAIN q = 1..Len(q) BY OrderIsSeq
<1>2. Len(q) \in Nat BY <1>1, SeqIs
<1> QED BY <1>1, <1>2, SeqMade

\* The store starts well typed.
LEMMA InitTyped == Init => TypeInv
<1> SUFFICES ASSUME Init PROVE TypeInv OBVIOUS
<1> USE DEF Init
<1>1. NoEntry \in Entry BY DEF NoEntry, Entry
<1>2. IdleOp \in OpRecord BY SMT DEF IdleOp, OpRecord
<1>3. index \in [Keys -> Entry] /\ maybe \in [Keys -> SUBSET Entry] BY <1>1
<1>4. op \in [Sessions -> OpRecord] BY <1>2
<1>5. disk \in [index : [Keys -> Entry], header : Nat] BY <1>3
<1>6. walCh \in Seq(Queued) /\ wal \in Seq(Line \cup {Garbage}) BY SMT
<1>7. /\ status = "down" /\ cpc = "idle" /\ torn = FALSE /\ commits = {}
      /\ now = 0 /\ header = 0 /\ entryCount = 0 /\ rpos = 1
      /\ nops = 0 /\ ncompacts = 0 /\ ncrashes = 0 /\ expiry \in [Keys -> Nat]
  OBVIOUS
<1> HIDE DEF Init
<1>8. torn \in BOOLEAN /\ commits \in SUBSET [ver : Nat, keys : SUBSET Keys] BY <1>7
<1> QED BY <1>3, <1>4, <1>5, <1>6, <1>7, <1>8, SMT DEF TypeInv, TypeOK, Queued

\* The first line of a non-empty list of lines, and the rest.
LEMMA HeadLine ==
  ASSUME NEW q \in Seq(Line), q # <<>>
  PROVE  Head(q) \in Line /\ Tail(q) \in Seq(Line) /\ EntryOf(Head(q)) \in Entry
<1>1. \A l \in Line : EntryOf(l) \in Entry BY SMT DEF Line, Entry, EntryOf
<1> QED BY <1>1, SeqTail

\* The queue holds a hand-over only while Compact waits.
LEMMA SwapKept == TypeInv /\ SwapOnce /\ [Next]_vars => SwapOnce'
<1> SUFFICES ASSUME TypeInv, SwapOnce, [Next]_vars PROVE SwapOnce' OBVIOUS
<1>0. walCh \in Seq(Queued) /\ Len(walCh) \in Nat BY SeqIs DEF TypeInv, TypeOK,
    Queued
<1>1. ASSUME NEW s \in Sessions, Log(s) PROVE SwapOnce'
  <2> DEFINE m == [from |-> s, line |-> Head(op[s].log)]
  <2>1. m \in [from : Sessions, line : Line]
    <3>1. op[s].log \in Seq(Line) BY DEF TypeInv, TypeOK, OpRecord
    <3> QED BY <1>1, <3>1, HeadLine DEF Log
  <2>2. m # Swap BY <2>1, StoreConstants
  <2>3. (walCh' = Append(walCh, m) \/ walCh' = walCh) /\ cpc' = cpc BY <1>1 DEF Log, Enqueue
  <2> HIDE DEF m
  <2>4. CASE walCh' = Append(walCh, m) BY <1>0, <2>2, <2>3, <2>4, SeqAppend, SMT DEF SwapOnce
  <2>5. CASE walCh' = walCh BY <2>3, <2>5 DEF SwapOnce
  <2> QED BY <2>3, <2>4, <2>5
<1>2. ASSUME NEW n \in 1..WalCap, Flush(n) \/ FlushFails(n) PROVE SwapOnce'
  <2>1. n \in 1..Len(walCh) /\ walCh' = SubSeq(walCh, n + 1, Len(walCh)) /\ cpc' = cpc
    BY <1>2 DEF Flush, FlushFails
  <2>2. Len(walCh') = Len(walCh) - n /\ \A i \in 1..Len(walCh') : walCh'[i] = walCh[i + n]
    BY <1>0, <2>1, SeqFrom, SMT
  <2>3. \A i \in 1..Len(walCh') : i + n \in 1..Len(walCh) BY <1>0, <2>1, <2>2, SMTT(30)
  <2>4. \A i \in 1..Len(walCh') : walCh'[i] = Swap => cpc' = "await"
    BY <2>1, <2>2, <2>3 DEF SwapOnce
  <2>5. ASSUME NEW i \in 1..Len(walCh'), NEW j \in 1..Len(walCh'), walCh'[i] = Swap, walCh'[j] = Swap
        PROVE  i = j
    <3>1. i + n = j + n BY <2>2, <2>3, <2>5 DEF SwapOnce
    <3>2. i \in Nat /\ j \in Nat /\ n \in Nat BY <2>5, SMT
    <3> QED BY <3>1, <3>2, SMT
  <2> QED BY <2>4, <2>5 DEF SwapOnce
<1>3. CASE FlushSwap
  <2>1. walCh # <<>> /\ walCh[1] = Swap /\ walCh' = Tail(walCh) BY <1>3, SMT DEF FlushSwap
  <2>2. Len(walCh') = Len(walCh) - 1 /\ \A i \in 1..Len(walCh') : walCh'[i] = walCh[i + 1]
    BY <1>0, <2>1, SeqTail
  <2>3. 1 \in 1..Len(walCh) BY <1>0, <2>1, SeqIs, SMT
  <2> QED BY <1>0, <2>1, <2>2, <2>3, SMT DEF SwapOnce
<1>4. CASE CompactSwap
  <2>1. cpc = "swap" /\ cpc' = "await" /\ walCh' = Append(walCh, Swap) BY <1>4 DEF
      CompactSwap
  <2> QED BY <1>0, <2>1, SeqAppend, SMT DEF SwapOnce, Queued
<1>5. CASE Close \/ Crash \/ PowerLoss \/ ReplayFails
  <2>1. walCh' = <<>> BY <1>5 DEF Close, Crash, PowerLoss, ReplayFails, CountedHalt, Halt
  <2> QED BY <2>1, SMTT(30) DEF SwapOnce
<1>6. CASE walCh' = walCh /\ (cpc' = cpc \/ cpc # "await")
  BY <1>6 DEF SwapOnce
<1>7. ASSUME NEW s \in Sessions, NEW k \in Keys, NEW kind, NEW ttl,
             BeginSet(s, kind, k, ttl) \/ BeginDelete(s, kind, k) \/ Persist(s, k)
      PROVE  SwapOnce'
  BY <1>6, <1>7 DEF BeginSet, BeginDelete, Begin, Persist
<1>8. ASSUME NEW s \in Sessions, NEW ttl, NEW sets, NEW dels, BeginCommit(s, sets, dels, ttl)
      PROVE  SwapOnce'
  BY <1>6, <1>8, SMTT(30) DEF BeginCommit, Begin
<1>9. ASSUME NEW s \in Sessions, ApplySet(s) \/ ApplyDelete(s) \/ ApplyFails(s) \/ Finish(s)
      PROVE  SwapOnce'
  BY <1>6, <1>9, ZenonT(30) DEF ApplySet, ApplyDelete, ApplyFails, AfterError, Finish
<1>10. CASE Tick \/ EvictExpired \/ CompactIndex \/ CompactTruncate \/ CompactRewrite
            \/ CompactFails \/ WriteBack \/ Open \/ ReplayLine \/ ReplayEnd \/ Serve
  BY <1>6, <1>10 DEF Tick, EvictExpired, CompactIndex, CompactTruncate, CompactRewrite,
       CompactFails, WriteBack, Open, ReplayLine, ReplayEnd, Serve, Locked, volatile
<1>11. CASE UNCHANGED vars BY <1>6, <1>11 DEF vars, volatile
<1> QED BY <1>1, <1>2, <1>3, <1>4, <1>5, <1>7, <1>8, <1>9, <1>10, <1>11 DEF Next

\* What a failing flush of n lines leaves in the file: m of them, and perhaps a part of
\* the next.
FailedPart(n, m) ==
  \/ wal' = wal \o [i \in 1..m |-> walCh[i].line] /\ torn' = torn
  \/ m < n /\ wal' = Append(wal \o [i \in 1..m |-> walCh[i].line], Garbage) /\ torn' = TRUE

LEMMA FlushFailsIs ==
  ASSUME NEW n, FlushFails(n)
  PROVE  \E m \in 0..n : FailedPart(n, m)
BY DEF FlushFails, FailedPart

\* Every step keeps the types.
LEMMA NextTyped == TypeInv /\ SwapOnce /\ [Next]_vars => TypeInv'
\* What settles is the index's entry.
<1>SettleTyped.
    ASSUME TypeInv, NEW s \in Sessions, Settle(s, index)
    PROVE  maybe' \in [Keys -> SUBSET Entry]
  <2> USE <1>SettleTyped
  <2> SUFFICES ASSUME NEW k \in Keys PROVE maybe'[k] \in SUBSET Entry BY DEF Settle
  <2>1. index[k] \in Entry /\ maybe[k] \in SUBSET Entry BY DEF TypeInv, TypeOK
  <2> QED BY <2>1 DEF Settle

\* Set, Delete, blob, replication and commit calls start well typed.
<1>BeginTyped.
    ASSUME TypeInv, NEW s \in Sessions, NEW kind \in AllKinds, NEW K \in SUBSET Keys,
           NEW todo \in Seq(Line), NEW log \in Seq(Line), Begin(s, kind, K, todo, log),
           commits' \in SUBSET [ver : Nat, keys : SUBSET Keys]
    PROVE  TypeInv'
  <2> USE <1>BeginTyped
  <2> USE DEF TypeInv, TypeOK, Begin, files
  <2>1. op' \in [Sessions -> OpRecord] BY SMT DEF OpRecord
  <2>2. maybe' \in [Keys -> SUBSET Entry]
    <3>1. \A i \in DOMAIN todo : EntryOf(todo[i]) \in Entry
      <4> SUFFICES ASSUME NEW i \in DOMAIN todo PROVE EntryOf(todo[i]) \in Entry OBVIOUS
      <4>1. todo[i] \in Line BY SeqIs
      <4> QED BY <4>1 DEF Line, Entry, EntryOf
    <3> QED BY <3>1, SMT
  <2>3. nops' \in Nat BY SMT
  <2> QED BY <2>1, <2>2, <2>3

\* One line is a list of lines.
<1>BeginOneTyped.
    ASSUME TypeInv, NEW s \in Sessions, NEW k \in Keys
    PROVE  /\ \A kind \in AllKinds, ttl \in Nat : BeginSet(s, kind, k, ttl) => TypeInv'
           /\ \A kind \in AllKinds : BeginDelete(s, kind, k) => TypeInv'
  <2> USE <1>BeginOneTyped
  <2> USE DEF TypeInv, TypeOK
  <2>1. ASSUME NEW kind \in AllKinds, NEW ttl \in Nat, BeginSet(s, kind, k, ttl) PROVE TypeInv'
    <3>1. ExpiresAt(ttl) \in Nat BY SMT DEF ExpiresAt
    <3>2. LineOf(k, nops + 1, ExpiresAt(ttl)) \in Line BY <3>1, SMT DEF LineOf, Line
    <3>3. <<LineOf(k, nops + 1, ExpiresAt(ttl))>> \in Seq(Line) BY <3>2, SMT
    <3> QED BY <2>1, <3>3, <1>BeginTyped DEF BeginSet
  <2>2. ASSUME NEW kind \in AllKinds, BeginDelete(s, kind, k) PROVE TypeInv'
    <3>1. DeleteOf(k, nops + 1) \in Line BY SMT DEF DeleteOf, Line
    <3>2. <<DeleteOf(k, nops + 1)>> \in Seq(Line) BY <3>1, SMT
    <3> QED BY <2>2, <3>2, <1>BeginTyped DEF BeginDelete
  <2> QED BY <2>1, <2>2

\* A commit applies and logs its keys in some order.
<1>BeginCommitTyped.
    ASSUME TypeInv, NEW s \in Sessions, NEW sets \in SUBSET Keys, NEW dels \in SUBSET Keys,
           NEW ttl \in Nat, BeginCommit(s, sets, dels, ttl)
    PROVE  TypeInv'
  <2> USE <1>BeginCommitTyped
  <2> USE DEF TypeInv, TypeOK
  <2> DEFINE ver == nops + 1
             Pending(q) == [i \in DOMAIN q |-> LineOf(q[i], ver, ExpiresAt(ttl))]
             Dels(q) == [i \in DOMAIN q |-> DeleteOf(q[i], ver)]
  <2>1. PICK a \in Orders(sets), d \in Orders(dels), e \in Orders(dels) :
          Begin(s, "commit", sets \cup dels, Pending(a) \o Dels(d), Pending(a) \o Dels(e))
    BY DEF BeginCommit
  <2>2. Pending(a) \in Seq(Line)
    <3>1. ExpiresAt(ttl) \in Nat BY SMT DEF ExpiresAt
    <3>2. \A i \in DOMAIN a : a[i] \in Keys BY OrderIsSeq, SeqIs
    <3>3. Pending(a) \in [DOMAIN a -> Line] BY <3>1, <3>2, SMT DEF LineOf, Line
    <3> HIDE DEF Pending
    <3> QED BY <3>3, LinesOfOrder
  <2>3. ASSUME NEW q \in Orders(dels) PROVE Dels(q) \in Seq(Line)
    <3>2. \A i \in DOMAIN q : q[i] \in Keys BY OrderIsSeq, SeqIs
    <3>3. Dels(q) \in [DOMAIN q -> Line] BY <3>2, SMT DEF DeleteOf, Line
    <3> HIDE DEF Dels
    <3> QED BY <3>3, LinesOfOrder
  <2>4. Pending(a) \o Dels(d) \in Seq(Line) /\ Pending(a) \o Dels(e) \in Seq(Line)
    BY <2>2, <2>3, SeqJoin
  <2>5. commits' \in SUBSET [ver : Nat, keys : SUBSET Keys] BY SMT DEF BeginCommit
  <2> HIDE DEF Pending, Dels, TypeInv
  <2> QED BY <2>1, <2>4, <2>5, <1>BeginTyped DEF AllKinds

\* Removing the applied line keeps the operation well formed.
<1>AppliedTyped.
    ASSUME TypeInv, NEW s \in Sessions, op[s].todo # <<>>
    PROVE  (Applied(s) \/ Finished(s)) => op' \in [Sessions -> OpRecord]
  <2> USE <1>AppliedTyped
  <2>1. op[s] \in OpRecord BY DEF TypeInv, TypeOK
  <2>2. Tail(op[s].todo) \in Seq(Line) BY <2>1, SeqTail DEF OpRecord
  <2>3. IdleOp \in OpRecord BY SMT DEF IdleOp, OpRecord
  <2>4. ASSUME Applied(s) PROVE op' \in [Sessions -> OpRecord]
    <3> DEFINE pc == IF Len(op[s].todo) = 1 THEN "log" ELSE "locked"
               r == [op[s] EXCEPT !.todo = Tail(op[s].todo), !.pc = pc]
    <3>1. r \in OpRecord BY <2>1, <2>2 DEF OpRecord
    <3>2. op' = [op EXCEPT ![s] = r] BY <2>1, <2>4 DEF Applied, TypeInv, TypeOK, OpRecord
    <3> QED BY <3>1, <3>2 DEF TypeInv, TypeOK
  <2>5. ASSUME Finished(s) PROVE op' \in [Sessions -> OpRecord]
    BY <2>3, <2>5 DEF Finished, TypeInv, TypeOK
  <2> QED BY <2>4, <2>5

\* Index, cache and counter stay well typed when a session applies a line.
<1>ApplyTyped.
    ASSUME TypeInv, NEW s \in Sessions, ApplySet(s) \/ ApplyDelete(s) \/ ApplyFails(s)
    PROVE  TypeInv'
  <2> USE <1>ApplyTyped
  <2> DEFINE l == Head(op[s].todo)
  <2>1. op[s].todo \in Seq(Line) /\ op[s].todo # <<>>
    BY DEF TypeInv, TypeOK, OpRecord, ApplySet, ApplyDelete, ApplyFails, MayUpdate
  <2>2. l \in Line /\ EntryOf(l) \in Entry BY <2>1, HeadLine
  <2>3. l.key \in Keys /\ l.exp \in Nat BY <2>2 DEF Line
  <2>0. index \in [Keys -> Entry] /\ entryCount \in Nat /\ expiry \in [Keys -> Nat]
    BY DEF TypeInv, TypeOK
  <2> HIDE DEF l
  <2>4. op' \in [Sessions -> OpRecord]
    BY <2>1, <1>AppliedTyped, ZenonT(30) DEF ApplySet, ApplyDelete, ApplyFails, AfterError
  <2>5. CASE ApplySet(s)
    <3>1. /\ index' = [index EXCEPT ![l.key] = EntryOf(l)] /\ expiry' = [expiry EXCEPT ![l.key] = l.exp]
          /\ CountSet
      BY <2>5 DEF ApplySet, l
    <3>2. index' \in [Keys -> Entry] /\ expiry' \in [Keys -> Nat] BY <2>0, <2>2, <2>3, <3>1
    <3>3. entryCount' \in Nat BY <2>0, <3>1, SMT DEF CountSet
    <3> QED BY <2>4, <2>5, <3>2, <3>3, ZenonT(30) DEF TypeInv, TypeOK, ApplySet, counters, history
  <2>6. CASE ApplyDelete(s)
    <3>1. maybe' \in [Keys -> SUBSET Entry]
      <4>1. maybe' = maybe \/ Settle(s, index) BY <2>6 DEF ApplyDelete
      <4> QED BY <4>1, <1>SettleTyped DEF TypeInv, TypeOK
    <3>2. index' \in [Keys -> Entry] /\ entryCount' \in Nat /\ expiry' \in [Keys -> Nat]
      <4>1. index' = [index EXCEPT ![l.key] = EntryOf(l)] \/ index' = index
        BY <2>6, ZenonT(30) DEF ApplyDelete, l
      <4>2. CountDelete \/ entryCount' = entryCount BY <2>6, ZenonT(30) DEF ApplyDelete
      <4>3. expiry' = [expiry EXCEPT ![l.key] = 0] \/ expiry' = expiry
        BY <2>6 DEF ApplyDelete, l
      <4>4. index' \in [Keys -> Entry] BY <2>0, <2>2, <2>3, <4>1
      <4>5. entryCount' \in Nat BY <2>0, <4>2, SMT DEF CountDelete
      <4>a. 0 \in Nat BY SMT
      <4>6. expiry' \in [Keys -> Nat] BY <2>0, <2>3, <4>3, <4>a
      <4> QED BY <4>4, <4>5, <4>6
    <3> QED BY <2>4, <2>6, <3>1, <3>2 DEF TypeInv, TypeOK, ApplyDelete, counters
  <2>7. CASE ApplyFails(s)
    <3>1. index' \in [Keys -> Entry] /\ entryCount' \in Nat /\ expiry' \in [Keys -> Nat]
      <4>1. index' = [index EXCEPT ![l.key] = EntryOf(l)] \/ index' = index
        BY <2>7, ZenonT(30) DEF ApplyFails, l
      <4>2. CountSet \/ CountDelete \/ entryCount' = entryCount BY <2>7, ZenonT(30) DEF ApplyFails
      <4>3. expiry' = [expiry EXCEPT ![l.key] = l.exp] \/ expiry' = expiry
        BY <2>7 DEF ApplyFails, l
      <4>4. index' \in [Keys -> Entry] BY <2>0, <2>2, <2>3, <4>1
      <4>5. entryCount' \in Nat BY <2>0, <4>2, SMT DEF CountSet, CountDelete
      <4>6. expiry' \in [Keys -> Nat] BY <2>0, <2>3, <4>3
      <4> QED BY <4>4, <4>5, <4>6
    <3> QED BY <2>4, <2>7, <3>1, ZenonT(30) DEF TypeInv, TypeOK, ApplyFails, counters, history
  <2> QED BY <2>5, <2>6, <2>7

\* writeWAL, the return of an operation and Persist.
<1>SessionTyped.
    ASSUME TypeInv, NEW s \in Sessions, Log(s) \/ Finish(s) \/ (\E k \in Keys : Persist(s, k))
    PROVE  TypeInv'
  <2> USE <1>SessionTyped
  <2>1. CASE Log(s) /\ Enqueue(s)
    <3>1. op[s] \in OpRecord /\ op[s].log \in Seq(Line) BY DEF TypeInv, TypeOK, OpRecord
    <3>2. Head(op[s].log) \in Line /\ Tail(op[s].log) \in Seq(Line)
      BY <2>1, <3>1, HeadLine DEF Log
    <3> DEFINE r == [op[s] EXCEPT !.log = Tail(op[s].log),
                                  !.pc = IF FsyncAlways THEN "await" ELSE "log"]
    <3>3. r \in OpRecord BY <3>1, <3>2 DEF OpRecord
    <3>4. op' = [op EXCEPT ![s] = r] BY <2>1, <3>1 DEF Enqueue, AfterLog, TypeInv, TypeOK, OpRecord
    <3>5. op' \in [Sessions -> OpRecord] BY <3>3, <3>4 DEF TypeInv, TypeOK
    <3>6. walCh' \in Seq(Queued)
      <4>1. walCh \in Seq(Queued) BY DEF TypeInv, TypeOK, Queued
      <4>2. [from |-> s, line |-> Head(op[s].log)] \in Queued BY <3>2 DEF Queued
      <4> QED BY <2>1, <4>1, <4>2, SeqAppend DEF Enqueue
    <3> QED BY <2>1, <3>5, <3>6 DEF Log, TypeInv, TypeOK, Queued, files, counters, history
  <2>4. CASE Log(s) /\ Finished(s) /\ UNCHANGED walCh
    <3>1. IdleOp \in OpRecord BY SMT DEF IdleOp, OpRecord
    <3>2. op' \in [Sessions -> OpRecord] BY <2>4, <3>1 DEF Finished, TypeInv, TypeOK
    <3> QED BY <2>4, <3>2 DEF Log, TypeInv, TypeOK, Queued, files, counters, history
  <2>2. CASE Finish(s)
    <3>1. IdleOp \in OpRecord BY SMT DEF IdleOp, OpRecord
    <3>2. op' \in [Sessions -> OpRecord] BY <2>2, <3>1 DEF Finish, Finished, TypeInv, TypeOK
    <3>3. maybe' \in [Keys -> SUBSET Entry] BY <2>2, <1>SettleTyped DEF Finish
    <3> QED BY <2>2, <3>2, <3>3 DEF Finish, TypeInv, TypeOK, files, counters
  <2>3. ASSUME NEW k \in Keys, Persist(s, k) PROVE TypeInv'
    <3> DEFINE new == [index EXCEPT ![k].exp = 0]
    <3>1. \A e \in Entry : [e EXCEPT !.exp = 0] \in Entry BY DEF Entry
    <3>2. index \in [Keys -> Entry] /\ entryCount \in Nat /\ maybe \in [Keys -> SUBSET Entry]
      BY DEF TypeInv, TypeOK
    <3> USE <3>2
    <3>3. new \in [Keys -> Entry] BY <3>1
    <3>4. index' \in [Keys -> Entry] /\ entryCount' \in Nat
      BY <2>3, <3>3, SMT DEF Persist, CountSet
    <3>5. maybe' \in [Keys -> SUBSET Entry]
      <4>1. new[k] \in Entry BY <3>3
      <4>2. {[e EXCEPT !.exp = 0] : e \in maybe[k]} \in SUBSET Entry BY <3>1
      <4>3. \/ maybe' = [maybe EXCEPT ![k] = maybe[k] \cup {[e EXCEPT !.exp = 0] : e \in maybe[k]}]
            \/ maybe' = [maybe EXCEPT ![k] = {new[k]}]
        BY <2>3 DEF Persist
      <4> QED BY <4>1, <4>2, <4>3, SMT
    <3>6. expiry' \in [Keys -> Nat] BY <2>3 DEF Persist, TypeInv, TypeOK
    <3> QED BY <2>3, <3>4, <3>5, <3>6 DEF Persist, TypeInv, TypeOK, counters
  <2>5. Log(s) => Enqueue(s) \/ (Finished(s) /\ UNCHANGED walCh) BY DEF Log
  <2> QED BY <2>1, <2>2, <2>3, <2>4, <2>5

\* The flusher moves lines from the queue to the file.
<1>FlushTyped.
    ASSUME TypeInv, (\E n \in 1..WalCap : Flush(n) \/ FlushFails(n)) \/ FlushSwap
    PROVE  TypeInv'
  <2> USE <1>FlushTyped
  <2>0. walCh \in Seq(Queued) /\ wal \in Seq(Line \cup {Garbage}) BY DEF TypeInv, TypeOK, Queued
  <2> USE <2>0
  <2>1. ASSUME NEW n \in 1..WalCap, Flush(n) PROVE TypeInv'
    <3>1. n \in 1..Len(walCh) /\ n \in Nat /\ Len(walCh) \in Nat BY <2>1, SeqIs, SMT DEF Flush
    <3>2. [i \in 1..n |-> walCh[i].line] \in Seq(Line \cup {Garbage})
      <4>1. ASSUME NEW i \in 1..n PROVE walCh[i].line \in Line
        <5>1. walCh[i] \in Queued /\ walCh[i] # Swap BY <2>1, <3>1, SeqIs, SMT DEF Flush
        <5> QED BY <5>1 DEF Queued
      <4> QED BY <3>1, <4>1, SeqMade
    <3>3. wal' \in Seq(Line \cup {Garbage}) BY <2>1, <3>2, SeqJoin DEF Flush
    <3>4. walCh' \in Seq(Queued) BY <2>1, <3>1, SeqFrom, SMTT(30) DEF Flush
    <3>5. op' \in [Sessions -> OpRecord]
      <4>1. \A r \in OpRecord : [r EXCEPT !.pc = "log"] \in OpRecord BY DEF OpRecord
      <4> QED BY <2>1, <4>1 DEF Flush, TypeInv, TypeOK
    <3> QED BY <2>1, <3>3, <3>4, <3>5 DEF Flush, TypeInv, TypeOK, Queued, counters, history
  <2>2. CASE FlushSwap
    <3>1. walCh' \in Seq(Queued) BY <2>2, SeqTail DEF FlushSwap
    <3> QED BY <2>2, <3>1 DEF FlushSwap, TypeInv, TypeOK, Queued, files, counters, history
  <2>3. ASSUME NEW n \in 1..WalCap, FlushFails(n) PROVE TypeInv'
    <3>1. n \in 1..Len(walCh) /\ n \in Nat /\ Len(walCh) \in Nat BY <2>3, SeqIs, SMT DEF FlushFails
    <3>2. PICK m \in 0..n : FailedPart(n, m) BY <2>3, FlushFailsIs
    <3>3. m \in Nat /\ \A i \in 1..m : i \in 1..n /\ i \in 1..Len(walCh) BY <3>1, <3>2, SMT
    <3> DEFINE lines == [i \in 1..m |-> walCh[i].line]
    <3>4. lines \in Seq(Line \cup {Garbage})
      <4>1. ASSUME NEW i \in 1..m PROVE walCh[i].line \in Line
        <5>1. walCh[i] \in Queued /\ walCh[i] # Swap BY <2>3, <3>1, <3>3, SeqIs DEF FlushFails
        <5> QED BY <5>1 DEF Queued
      <4> QED BY <3>3, <4>1, SeqMade
    <3> HIDE DEF lines
    <3>5. wal \o lines \in Seq(Line \cup {Garbage}) BY <3>4, SeqJoin
    <3>6. wal' \in Seq(Line \cup {Garbage}) /\ torn' \in BOOLEAN
      <4>1. torn \in BOOLEAN BY DEF TypeInv, TypeOK
      <4>2. \/ wal' = wal \o lines /\ torn' = torn
            \/ wal' = Append(wal \o lines, Garbage) /\ torn' = TRUE
        BY <3>2 DEF FailedPart, lines
      <4>3. Garbage \in Line \cup {Garbage} OBVIOUS
      <4>4. Append(wal \o lines, Garbage) \in Seq(Line \cup {Garbage}) BY <3>5, <4>3, SeqAppend
      <4> QED BY <3>5, <4>1, <4>2, <4>4
    <3>7. walCh' \in Seq(Queued) BY <2>3, <3>1, SeqFrom, SMTT(30) DEF FlushFails
    <3>8. op' \in [Sessions -> OpRecord]
      <4>1. IdleOp \in OpRecord BY SMT DEF IdleOp, OpRecord
      <4> QED BY <2>3, <4>1 DEF FlushFails, TypeInv, TypeOK
    <3> QED BY <2>3, <3>6, <3>7, <3>8 DEF FlushFails, TypeInv, TypeOK, Queued, counters
  <2> QED BY <2>1, <2>2, <2>3

\* An entry that is taken out of the index is still an entry.
<1>DeadEntry. \A e \in Entry : [e EXCEPT !.live = FALSE] \in Entry
  BY DEF Entry

\* The clock and the eviction sweep.
<1>SweepTyped.
    ASSUME TypeInv, Tick \/ EvictExpired
    PROVE  TypeInv'
  <2> USE <1>SweepTyped
  <2>1. CASE Tick BY <2>1, SMT DEF Tick, TypeInv, TypeOK, volatile, files, counters, history
  <2>2. CASE EvictExpired
    <3> DEFINE gone == {k \in Keys : expiry[k] > 0 /\ now > expiry[k]}
    <3>1. PICK done \in SUBSET gone :
            /\ index' = [k \in Keys |-> IF k \in done THEN [index[k] EXCEPT !.live = FALSE] ELSE index[k]]
            /\ entryCount' = IF entryCount > Cardinality(done) THEN entryCount - Cardinality(done) ELSE 0
      BY <2>2 DEF EvictExpired
    <3>2. Cardinality(done) \in Nat BY Counted
    <3>3. index' \in [Keys -> Entry] BY <3>1, <1>DeadEntry DEF TypeInv, TypeOK
    <3>4. entryCount' \in Nat BY <3>1, <3>2, SMT DEF TypeInv, TypeOK
    <3>5. expiry' \in [Keys -> Nat] BY <2>2 DEF EvictExpired, TypeInv, TypeOK
    <3> QED BY <2>2, <3>3, <3>4, <3>5 DEF EvictExpired, TypeInv, TypeOK, counters, history
  <2> QED BY <2>1, <2>2

\* Compact.
<1>CompactTyped.
    ASSUME TypeInv,
           CompactIndex \/ CompactTruncate \/ CompactRewrite \/ CompactFails \/ CompactSwap
    PROVE  TypeInv'
  <2> USE <1>CompactTyped
  <2>0. /\ walCh \in Seq(Queued) /\ wal \in Seq(Line \cup {Garbage})
        /\ index \in [Keys -> Entry]
    BY DEF TypeInv, TypeOK, Queued
  <2>g. <<Garbage>> \in Seq(Line \cup {Garbage}) BY SMT
  <2>1. CASE CompactIndex
    <3> DEFINE kept == {k \in Keys : index[k].live /\ ~Expired(index[k], now)}
    <3>1. Cardinality(kept) \in Nat BY Counted
    <3>2. header' = Cardinality(kept) /\ entryCount' = Cardinality(kept) BY <2>1 DEF
        CompactIndex
    <3>3. index' \in [Keys -> Entry] BY <2>0, <2>1, <1>DeadEntry DEF CompactIndex
    <3>4. disk' \in [index : [Keys -> Entry], header : Nat]
      BY <2>1, <3>3 DEF CompactIndex, TypeInv, TypeOK
    <3> HIDE DEF kept
    <3> QED BY <2>1, <3>1, <3>2, <3>3, <3>4, SMTT(30) DEF CompactIndex, TypeInv, TypeOK, history
  <2>2. CASE CompactTruncate
    <3>1. wal' \in Seq(Line \cup {Garbage}) BY <2>2, SMTT(30) DEF CompactTruncate
    <3> QED BY <2>2, <3>1 DEF CompactTruncate, TypeInv, TypeOK, counters, history
  <2>3. CASE CompactRewrite
    <3> DEFINE live == {k \in Keys : index[k].live}
               Lines(q) == [i \in DOMAIN q |-> LineOf(q[i], index[q[i]].ver, index[q[i]].exp)]
    <3>1. PICK q \in Orders(live) :
            \/ wal' = Lines(q) \o wal
            \/ \E j \in 1..Len(wal) :
                 \/ wal' = Lines(q) \o SubSeq(wal, j + 1, Len(wal))
                 \/ wal' = Lines(q) \o <<Garbage>> \o SubSeq(wal, j + 1, Len(wal))
      BY <2>3 DEF CompactRewrite
    <3>2. Lines(q) \in Seq(Line \cup {Garbage})
      <4>0. q \in Seq(live) BY OrderIsSeq
      <4>1. \A i \in DOMAIN q : q[i] \in Keys BY <4>0, SeqIs, SMT
      <4>2. Lines(q) \in [DOMAIN q -> Line] BY <2>0, <4>1 DEF LineOf, Line, Entry
      <4> HIDE DEF Lines
      <4>3. Lines(q) \in Seq(Line) BY <4>2, LinesOfOrder
      <4> QED BY <4>3, SeqMade, SMT
    <3>3. \A j \in 1..Len(wal) : SubSeq(wal, j + 1, Len(wal)) \in Seq(Line \cup {Garbage})
      BY <2>0, SeqFrom, SeqIs, SMT
    <3> HIDE DEF Lines
    <3>4. wal' \in Seq(Line \cup {Garbage})
      <4> DEFINE S == Seq(Line \cup {Garbage})
      <4>1. Lines(q) \o wal \in S BY <2>0, <3>2, SeqJoin
      <4>2. \A j \in 1..Len(wal) : Lines(q) \o SubSeq(wal, j + 1, Len(wal)) \in S
        BY <3>2, <3>3, SeqJoin
      <4>3. Lines(q) \o <<Garbage>> \in S BY <2>g, <3>2, SeqJoin
      <4>4. \A j \in 1..Len(wal) : Lines(q) \o <<Garbage>> \o SubSeq(wal, j + 1, Len(wal)) \in S
        BY <3>3, <4>3, SeqJoin
      <4> QED BY <3>1, <4>1, <4>2, <4>4, ZenonT(30)
    <3>5. torn' \in BOOLEAN BY <2>3 DEF CompactRewrite, TypeInv, TypeOK
    <3> QED BY <2>3, <3>4, <3>5, ZenonT(30) DEF CompactRewrite, TypeInv, TypeOK, counters
  <2>4. CASE CompactFails
    <3>1. wal' = wal \/ wal' = <<Garbage>> \o wal BY <2>4 DEF CompactFails
    <3>2. wal' \in Seq(Line \cup {Garbage}) BY <2>0, <2>g, <3>1, SeqJoin
    <3>3. torn' \in BOOLEAN BY <2>4, ZenonT(30) DEF CompactFails, TypeInv, TypeOK
    <3> QED BY <2>4, <3>2, <3>3 DEF CompactFails, TypeInv, TypeOK, counters
  <2>5. CASE CompactSwap
    <3>1. walCh' \in Seq(Queued) BY <2>0, <2>5, SeqAppend DEF CompactSwap, Queued
    <3> QED BY <2>5, <3>1 DEF CompactSwap, TypeInv, TypeOK, Queued, files, counters, history
  <2> QED BY <2>1, <2>2, <2>3, <2>4, <2>5

\* The end of the process, orderly or not.
<1>HaltTyped.
    ASSUME TypeInv, SwapOnce, Close \/ Crash \/ PowerLoss \/ ReplayFails
    PROVE  TypeInv'
  <2> USE <1>HaltTyped
  <2>1. Halt BY DEF Close, Crash, PowerLoss, ReplayFails, CountedHalt
  <2>2. op' \in [Sessions -> OpRecord] BY <2>1, SMT DEF Halt, IdleOp, OpRecord
  <2>3. walCh' \in Seq(Queued) BY <2>1, SMT DEF Halt
  <2>4. ncrashes' \in Nat BY SMT DEF Close, Crash, PowerLoss, ReplayFails, CountedHalt, TypeInv, TypeOK
  <2>5. /\ index' \in [Keys -> Entry] /\ header' \in Nat
        /\ disk' \in [index : [Keys -> Entry], header : Nat]
    BY DEF Close, Crash, PowerLoss, ReplayFails, TypeInv, TypeOK
  <2>6. wal' \in Seq(Line \cup {Garbage})
    <3>0. wal \in Seq(Line \cup {Garbage}) BY DEF TypeInv, TypeOK
    <3>1. CASE Close /\ Quiet /\ wal' = wal \o [i \in 1..Len(walCh) |-> walCh[i].line]
      <4>0. walCh \in Seq(Queued) /\ wal \in Seq(Line \cup {Garbage}) BY DEF TypeInv, TypeOK,
          Queued
      <4>1. Len(walCh) \in Nat BY <4>0, SeqIs
      <4>2. ASSUME NEW i \in 1..Len(walCh) PROVE walCh[i].line \in Line
        <5>1. walCh[i] \in Queued BY <4>0, SeqIs
        <5>2. walCh[i] # Swap BY <3>1 DEF Quiet, SwapOnce
        <5> QED BY <5>1, <5>2 DEF Queued
      <4>3. [i \in 1..Len(walCh) |-> walCh[i].line] \in Seq(Line \cup {Garbage})
        BY <4>1, <4>2, SeqMade, SMT
      <4> QED BY <3>1, <4>0, <4>3, SeqJoin
    <3>2. CASE wal' = wal BY <3>0, <3>2
    <3>3. CASE wal' = Append(wal, Garbage) BY <3>0, <3>3, SeqAppend
    <3> QED BY <3>1, <3>2, <3>3 DEF Close, Crash, PowerLoss, ReplayFails, TornTail
  <2>7. maybe' \in [Keys -> SUBSET Entry]
    <3>1. maybe \in [Keys -> SUBSET Entry] /\ disk.index \in [Keys -> Entry] BY DEF TypeInv,
        TypeOK
    <3>2. CASE PowerLoss BY <3>1, <3>2 DEF PowerLoss
    <3>3. CASE ~PowerLoss BY <3>1, <3>3 DEF Close, Crash, ReplayFails
    <3> QED BY <3>2, <3>3
  <2>8. torn' \in BOOLEAN BY DEF Close, Crash, PowerLoss, ReplayFails, TornTail, TypeInv, TypeOK
  <2> QED BY <2>1, <2>2, <2>3, <2>4, <2>5, <2>6, <2>7, <2>8, SMTT(30) DEF Halt, TypeInv, TypeOK, Queued

\* Recovery.
<1>RecoveryTyped.
    ASSUME TypeInv, WriteBack \/ Open \/ ReplayLine \/ ReplayEnd \/ Serve
    PROVE  TypeInv'
  <2> USE <1>RecoveryTyped
  <2>0. \A k \in Keys : index[k] \in Entry /\ index[k].exp \in Nat BY DEF TypeInv, TypeOK, Entry
  <2>1. CASE WriteBack
    BY <2>1 DEF WriteBack, TypeInv, TypeOK, volatile, counters, history
  <2>2. CASE Open
    <3>1. expiry' \in [Keys -> Nat]
      <4>1. CASE header = 0 BY <2>2, <4>1 DEF Open, TypeInv, TypeOK
      <4>2. CASE header # 0
        <5>1. expiry' = [k \in Keys |-> IF index[k].live /\ ~Expired(index[k], now)
                                         THEN index[k].exp ELSE 0]
          BY <2>2, <4>2 DEF Open
        <5> QED BY <2>0, <5>1
      <4> QED BY <4>1, <4>2
    <3> QED BY <2>2, <3>1 DEF Open, TypeInv, TypeOK, files, counters, history
  <2>3. CASE ReplayLine
    <3> DEFINE l == wal[rpos]
    <3>1. l \in Line
      <4>0. wal \in Seq(Line \cup {Garbage}) /\ rpos \in Nat \ {0} BY DEF TypeInv, TypeOK
      <4>1. rpos <= Len(wal) /\ l # Garbage BY <2>3 DEF ReplayLine
      <4>2. rpos \in 1..Len(wal) BY <4>0, <4>1, SeqIs, SMTT(30)
      <4> QED BY <4>0, <4>1, <4>2, SeqIs, SMT
    <3>2. l.key \in Keys /\ l.exp \in Nat /\ EntryOf(l) \in Entry BY <3>1 DEF Line, Entry,
        EntryOf
    <3>3. /\ index' = index \/ index' = [index EXCEPT ![l.key] = EntryOf(l)]
          /\ expiry' = expiry \/ expiry' = [expiry EXCEPT ![l.key] = l.exp]
          /\ CountSet \/ CountDelete \/ entryCount' = entryCount
      BY <2>3 DEF ReplayLine
    <3> HIDE DEF l
    <3>4. index' \in [Keys -> Entry] BY <3>2, <3>3 DEF TypeInv, TypeOK
    <3>5. expiry' \in [Keys -> Nat] BY <3>2, <3>3 DEF TypeInv, TypeOK
    <3>6. entryCount' \in Nat BY <3>3, SMT DEF CountSet, CountDelete, TypeInv, TypeOK
    <3>7. /\ rpos' = rpos + 1
          /\ UNCHANGED <<status, now, op, walCh, cpc, header, wal, disk, counters, history>>
      BY <2>3 DEF ReplayLine
    <3> QED BY <3>4, <3>5, <3>6, <3>7, SMT DEF TypeInv, TypeOK, counters, history
  <2>4. CASE ReplayEnd
    BY <2>4 DEF ReplayEnd, TypeInv, TypeOK, volatile, files, counters, history
  <2>5. CASE Serve
    <3>1. maybe' \in [Keys -> SUBSET Entry] BY <2>0, <2>5 DEF Serve
    <3> QED BY <2>5, <3>1 DEF Serve, TypeInv, TypeOK, volatile, files, counters
  <2> QED BY <2>1, <2>2, <2>3, <2>4, <2>5
<1> SUFFICES ASSUME TypeInv, SwapOnce, [Next]_vars PROVE TypeInv' OBVIOUS
<1>1. ASSUME NEW s \in Sessions, NEW k \in Keys, NEW kind \in Kinds, NEW ttl \in TTLs,
             BeginSet(s, kind, k, ttl) \/ BeginDelete(s, kind, k)
      PROVE  TypeInv'
  BY <1>1, <1>BeginOneTyped, StoreConstants
<1>2. ASSUME NEW s \in Sessions, NEW k \in Keys, NEW kind \in Kinds, BeginDelete(s, kind, k)
      PROVE  TypeInv'
  BY <1>2, <1>BeginOneTyped, StoreConstants
<1>3. ASSUME NEW s \in Sessions, NEW ttl \in TTLs, NEW sets \in SUBSET Keys, NEW dels \in SUBSET Keys,
             BeginCommit(s, sets, dels, ttl)
      PROVE  TypeInv'
  BY <1>3, <1>BeginCommitTyped, StoreConstants
<1>4. CASE UNCHANGED vars
  BY <1>4 DEF vars, volatile, files, counters, history, TypeInv, TypeOK
<1> QED BY <1>1, <1>2, <1>3, <1>4, <1>ApplyTyped, <1>SessionTyped, <1>FlushTyped, <1>SweepTyped, <1>CompactTyped,
    <1>HaltTyped, <1>RecoveryTyped DEF Next

\* Store is well typed in every reachable state.
THEOREM TypeCorrect == Spec => []TypeOK
<1>1. Init => SwapOnce BY SMT DEF Init, SwapOnce
<1>2. Spec => [](TypeInv /\ SwapOnce) BY <1>1, InitTyped, NextTyped, SwapKept, PTL DEF Spec
<1>3. TypeInv => TypeOK BY DEF TypeInv
<1> QED BY <1>2, <1>3, PTL

-----------------------------------------------------------------------------
(* The eviction sweep.  The index accepts its writes (~IndexFails): SetBlob and
   a commit update the TTL cache before they know whether the index did, so an
   index that refuses the write keeps the old entry under the new expiry. *)

\* Every step keeps cache and index in step.
LEMMA NextSound ==
  ~IndexFails => (TypeInv /\ CacheSound /\ [Next]_vars => CacheSound')
\* Writing one entry to index and cache alike keeps them in step.
<1>WriteSound.
    ASSUME TypeInv, CacheSound, NEW k \in Keys, NEW e \in Entry,
           index' = [index EXCEPT ![k] = e],
           expiry' = [expiry EXCEPT ![k] = e.exp]
    PROVE  CacheSound'
  BY <1>WriteSound DEF CacheSound, TypeInv, TypeOK, Entry

\* Forgetting a key's cached expiry, or the key itself, is always sound.
<1>ForgetSound.
    ASSUME TypeInv, CacheSound,
           \A k \in Keys : \/ expiry'[k] = 0
                           \/ ~index'[k].live
                           \/ expiry'[k] = expiry[k] /\ index'[k] = index[k]
    PROVE  CacheSound'
  BY <1>ForgetSound, SMT DEF CacheSound

\* The operations of a session.
<1>ApplySound.
    ASSUME ~IndexFails, TypeInv, CacheSound, NEW s \in Sessions, ApplySet(s) \/ ApplyDelete(s)
    PROVE  CacheSound'
  <2> USE <1>ApplySound
  <2> DEFINE l == Head(op[s].todo)
  <2>1. op[s].todo \in Seq(Line) /\ op[s].todo # <<>>
    BY DEF TypeInv, TypeOK, OpRecord, ApplySet, ApplyDelete, MayUpdate
  <2>2. l \in Line /\ EntryOf(l) \in Entry BY <2>1, HeadLine
  <2>3. l.key \in Keys /\ EntryOf(l).exp = l.exp /\ EntryOf(l).live = l.live
    BY <2>2 DEF Line, EntryOf
  <2> HIDE DEF l
  <2>4. CASE ApplySet(s)
    <3>1. index' = [index EXCEPT ![l.key] = EntryOf(l)] /\ expiry' = [expiry EXCEPT ![l.key] = l.exp]
      BY <2>4 DEF ApplySet, l
    <3> QED BY <2>2, <2>3, <3>1, <1>WriteSound, ZenonT(30)
  <2>5. CASE ApplyDelete(s)
    <3>1. /\ ~l.live
          /\ index' = [index EXCEPT ![l.key] = EntryOf(l)] \/ index' = index
          /\ expiry' = [expiry EXCEPT ![l.key] = 0] \/ expiry' = expiry
      BY <2>5, ZenonT(30) DEF ApplyDelete, l
    <3>2. index' = index \/ ~index'[l.key].live BY <2>3, <3>1, ZenonT(30) DEF TypeInv, TypeOK
    <3> QED BY <2>3, <3>1, <3>2, <1>ForgetSound DEF TypeInv, TypeOK
  <2> QED BY <2>4, <2>5
<1> SUFFICES ASSUME ~IndexFails
             PROVE  TypeInv /\ CacheSound /\ [Next]_vars => CacheSound'
  OBVIOUS
<1> SUFFICES ASSUME TypeInv, CacheSound, [Next]_vars PROVE CacheSound' OBVIOUS
<1>0. index \in [Keys -> Entry] /\ expiry \in [Keys -> Nat] BY DEF TypeInv, TypeOK
<1>1. CASE UNCHANGED <<index, expiry>> BY <1>1 DEF CacheSound
<1>2. ASSUME NEW s \in Sessions, NEW k \in Keys, Persist(s, k) PROVE CacheSound'
  <2>1. expiry' = [expiry EXCEPT ![k] = 0] /\ \A j \in Keys \ {k} : index'[j] = index[j]
    BY <1>0, <1>2 DEF Persist
  <2> QED BY <1>0, <2>1, <1>ForgetSound
<1>3. CASE EvictExpired
  <2> DEFINE gone == {k \in Keys : expiry[k] > 0 /\ now > expiry[k]}
  <2>1. /\ expiry' = [k \in Keys |-> IF k \in gone THEN 0 ELSE expiry[k]]
        /\ index' = [k \in Keys |-> IF k \in gone THEN [index[k] EXCEPT !.live = FALSE] ELSE index[k]]
    BY <1>3 DEF EvictExpired
  <2> HIDE DEF gone
  <2> QED BY <2>1, <1>ForgetSound
<1>4. CASE CompactIndex
  <2>1. expiry' = expiry
    BY <1>4 DEF CompactIndex
  <2>2. \A k \in Keys : index'[k] = index[k] \/ index'[k] = [index[k] EXCEPT !.live = FALSE]
    BY <1>4 DEF CompactIndex
  <2>3. \A k \in Keys : index'[k] = index[k] \/ ~index'[k].live BY <1>0, <2>2, ZenonT(30) DEF Entry
  <2> QED BY <2>1, <2>3, <1>ForgetSound
<1>5. CASE Close \/ Crash \/ PowerLoss \/ ReplayFails
  <2>1. expiry' = [k \in Keys |-> 0]
    BY <1>5 DEF Close, Crash, PowerLoss, ReplayFails, CountedHalt, Halt
  <2> QED BY <2>1, <1>ForgetSound
<1>6. CASE Open
  <2>1. index' = index BY <1>6 DEF Open, files
  <2>2. \A k \in Keys : expiry'[k] \in {0, expiry[k], index[k].exp}
    BY <1>0, <1>6 DEF Open
  <2> QED BY <1>0, <2>1, <2>2, SMT DEF CacheSound
<1>7. CASE ReplayLine
  <2> DEFINE l == wal[rpos]
  <2>1. l \in Line
    <3>1. wal \in Seq(Line \cup {Garbage}) /\ rpos \in 1..Len(wal) /\ l # Garbage
      BY <1>7, SeqIs, SMTT(30) DEF ReplayLine, TypeInv, TypeOK
    <3> QED BY <3>1, SeqIs, SMTT(30)
  <2>2. l.key \in Keys /\ EntryOf(l) \in Entry /\ EntryOf(l).exp = l.exp
    BY <2>1 DEF Line, Entry, EntryOf
  <2>3. \/ UNCHANGED <<index, expiry>>
        \/ /\ index' = [index EXCEPT ![l.key] = EntryOf(l)]
           /\ expiry' = [expiry EXCEPT ![l.key] = l.exp]
    BY <1>7 DEF ReplayLine
  <2> HIDE DEF l
  <2> QED BY <1>1, <2>2, <2>3, <1>WriteSound
<1>8. ASSUME NEW s \in Sessions, NEW k \in Keys, NEW kind, NEW ttl,
             BeginSet(s, kind, k, ttl) \/ BeginDelete(s, kind, k)
      PROVE  CacheSound'
  BY <1>1, <1>8, ZenonT(30) DEF BeginSet, BeginDelete, Begin, files
<1>9. ASSUME NEW s \in Sessions, NEW ttl, NEW sets, NEW dels, BeginCommit(s, sets, dels, ttl)
      PROVE  CacheSound'
  BY <1>1, <1>9, ZenonT(30) DEF BeginCommit, Begin, files
<1>10. ASSUME NEW s \in Sessions, Log(s) \/ Finish(s) PROVE CacheSound'
  BY <1>1, <1>10 DEF Log, Finish, files
<1>11. ASSUME NEW s \in Sessions, ApplyFails(s) PROVE CacheSound' BY <1>11 DEF ApplyFails
<1>12. ASSUME NEW n, Flush(n) \/ FlushFails(n) PROVE CacheSound' BY <1>1, <1>12 DEF Flush, FlushFails
<1>13. CASE Tick \/ FlushSwap \/ CompactTruncate \/ CompactRewrite \/ CompactFails \/ CompactSwap
            \/ WriteBack \/ ReplayEnd \/ Serve \/ UNCHANGED vars
  BY <1>1, <1>13 DEF Tick, FlushSwap, CompactTruncate, CompactRewrite, CompactFails, CompactSwap,
       WriteBack, ReplayEnd, Serve, vars, volatile, files
<1> QED BY <1>2, <1>3, <1>4, <1>5, <1>6, <1>7, <1>8, <1>9, <1>10, <1>11, <1>12, <1>13, <1>ApplySound DEF Next

\* evictExpired never removes a key before its time, through every operation,
\* compaction, crash and recovery, as long as the index accepts its writes.
THEOREM EvictionIsSafe ==
  ASSUME ~IndexFails
  PROVE  Spec => []EvictionSafe
<1>1. Init => TypeInv /\ SwapOnce /\ CacheSound
  BY InitTyped, SMT DEF Init, SwapOnce, CacheSound, NoEntry
<1>2. Spec => [](TypeInv /\ SwapOnce /\ CacheSound)
  BY <1>1, NextTyped, SwapKept, NextSound, PTL DEF Spec
<1>3. TypeInv /\ CacheSound => EvictionSafe
  BY DEF TypeInv, TypeOK, CacheSound, EvictionSafe, Expired, Entry
<1> QED BY <1>2, <1>3, PTL

-----------------------------------------------------------------------------
(* What the last two parts share. *)

\* Each key has one session that writes it.
OneWriter == \A s, t \in Sessions, k \in Keys : <<s, k>> \in MayWrite /\ <<t, k>> \in MayWrite => s = t

\* The elements of a list, and whether it mentions a key.
Elems(q) == {q[i] : i \in DOMAIN q}
HasLine(q, k) == \E l \in Elems(q) : l.key = k

\* The last line about k in a list of lines: a set of one line, or none.
Final(q, k) ==
  {q[i] : i \in {i \in DOMAIN q : q[i].key = k /\ \A j \in DOMAIN q : j > i => q[j].key # k}}

\* An operation: it has updates to make as long as it holds or wants its locks, it
\* logs what it applies, and all its lines are about keys it may write.
OpOK(s, r) ==
  /\ r.pc = "idle" => r.log = <<>>
  /\ r.pc \in {"lock", "locked"} <=> r.todo # <<>>
  /\ r.kind = "delete" => r.pc # "locked" /\ Len(r.todo) <= 1
  /\ \A k \in r.keys : <<s, k>> \in MayWrite
  /\ \A l \in Elems(r.log) : l.key \in r.keys
  /\ \A l \in Elems(r.todo) : /\ HasLine(r.log, l.key)
                              /\ \A m \in Elems(r.log) : m.key = l.key => m = l

-----------------------------------------------------------------------------
\* The elements of lists that are taken apart and joined.
LEMMA ElemsOf ==
  ASSUME NEW S, NEW q \in Seq(S)
  PROVE  Elems(q) \subseteq S /\ (q = <<>> => Elems(q) = {})
BY SeqIs, SMT DEF Elems

LEMMA ElemsTail ==
  ASSUME NEW S, NEW q \in Seq(S), q # <<>>
  PROVE  /\ Head(q) \in Elems(q) /\ Elems(Tail(q)) \subseteq Elems(q)
         /\ Elems(q) \subseteq {Head(q)} \cup Elems(Tail(q))
<1>0. Len(q) \in Nat /\ DOMAIN q = 1..Len(q) /\ Len(q) > 0 BY SeqIs
<1>1. /\ Head(q) = q[1] /\ 1 \in DOMAIN q
      /\ \A i \in 1..(Len(q) - 1) : Tail(q)[i] = q[i + 1] /\ i + 1 \in DOMAIN q
  BY SeqTail
<1>2. DOMAIN Tail(q) = 1..(Len(q) - 1) BY <1>0, SeqTail, SeqIs
<1>3. \A i \in DOMAIN q : i # 1 => i - 1 \in 1..(Len(q) - 1) /\ Tail(q)[i - 1] = q[i]
  <2> SUFFICES ASSUME NEW i \in DOMAIN q, i # 1
               PROVE  i - 1 \in 1..(Len(q) - 1) /\ Tail(q)[i - 1] = q[i]
    OBVIOUS
  <2>1. i - 1 \in 1..(Len(q) - 1) /\ (i - 1) + 1 = i BY <1>0, SMT
  <2> QED BY <1>1, <2>1
<1>4. Elems(Tail(q)) \subseteq Elems(q)
  <2>1. \A i \in DOMAIN Tail(q) : \E j \in DOMAIN q : Tail(q)[i] = q[j] BY <1>1, <1>2
  <2> QED BY <2>1 DEF Elems
<1>5. Elems(q) \subseteq {Head(q)} \cup Elems(Tail(q))
  <2>1. \A i \in DOMAIN q : q[i] = Head(q) \/ \E j \in DOMAIN Tail(q) : q[i] = Tail(q)[j]
    BY <1>1, <1>2, <1>3
  <2> QED BY <2>1 DEF Elems
<1> QED BY <1>1, <1>4, <1>5 DEF Elems

LEMMA ElemsAppend ==
  ASSUME NEW S, NEW q \in Seq(S), NEW e \in S
  PROVE  Elems(Append(q, e)) = Elems(q) \cup {e}
<1> DEFINE a == Append(q, e)
<1>1. Len(q) \in Nat /\ DOMAIN q = 1..Len(q) BY SeqIs
<1>2. a \in Seq(S) /\ Len(a) = Len(q) + 1 /\ a[Len(q) + 1] = e BY SeqAppend
<1>3. \A i \in 1..Len(q) : a[i] = q[i] BY SeqAppend, SMT
<1>4. DOMAIN a = 1..(Len(q) + 1) BY <1>2, SeqIs
<1> HIDE DEF a
<1>5. Len(q) + 1 \in DOMAIN a /\ \A i \in DOMAIN q : i \in DOMAIN a BY <1>1, <1>4, SMT
<1>6. \A i \in DOMAIN a : i \in DOMAIN q \/ i = Len(q) + 1 BY <1>1, <1>4, SMT
<1>7. Elems(a) \subseteq Elems(q) \cup {e} BY <1>1, <1>2, <1>3, <1>6 DEF Elems
<1>8. Elems(q) \cup {e} \subseteq Elems(a) BY <1>1, <1>2, <1>3, <1>5 DEF Elems
<1> QED BY <1>7, <1>8 DEF a

\* p \o q holds what p and q hold; the last line about a key is that of q, or that
\* of p if q does not mention the key.
LEMMA ElemsJoin ==
  ASSUME NEW S, NEW p \in Seq(S), NEW q \in Seq(S)
  PROVE  /\ Elems(p \o q) = Elems(p) \cup Elems(q)
         /\ \A k : \A l \in Final(p \o q, k) :
              l \in Final(q, k) \/ (l \in Final(p, k) /\ ~HasLine(q, k))
<1> DEFINE a == p \o q
           n == Len(p)
<1>1. /\ n \in Nat /\ DOMAIN p = 1..n
      /\ Len(q) \in Nat /\ DOMAIN q = 1..Len(q)
  BY SeqIs
<1>2. /\ \A i \in 1..n : a[i] = p[i]
      /\ \A i \in 1..Len(q) : a[n + i] = q[i]
      /\ DOMAIN a = 1..(n + Len(q))
  BY SeqJoin, SeqIs, SMT
<1> HIDE DEF a, n
<1>3. /\ \A i \in DOMAIN p : i \in DOMAIN a /\ a[i] = p[i]
      /\ \A i \in DOMAIN q : n + i \in DOMAIN a /\ a[n + i] = q[i]
  BY <1>1, <1>2, SMT
<1> USE <1>3
<1>4. \A i \in DOMAIN a : i \in DOMAIN p \/ (i - n \in DOMAIN q /\ n + (i - n) = i) BY <1>1, <1>2, SMT
<1>5. Elems(a) \subseteq Elems(p) \cup Elems(q)
  <2> SUFFICES ASSUME NEW i \in DOMAIN a PROVE a[i] \in Elems(p) \cup Elems(q) BY DEF Elems
  <2>1. CASE i \in DOMAIN p BY <2>1 DEF Elems
  <2>2. CASE i - n \in DOMAIN q /\ n + (i - n) = i
    <3>1. a[n + (i - n)] = q[i - n] BY <2>2
    <3>2. a[i] = q[i - n] BY <2>2, <3>1
    <3> QED BY <2>2, <3>2 DEF Elems
  <2> QED BY <1>4, <2>1, <2>2
<1>6. Elems(p) \cup Elems(q) \subseteq Elems(a) BY DEF Elems
<1>7. ASSUME NEW k, NEW i \in DOMAIN a, a[i].key = k, \A j \in DOMAIN a : j > i => a[j].key # k
      PROVE  a[i] \in Final(q, k) \/ (a[i] \in Final(p, k) /\ ~HasLine(q, k))
  <2>1. CASE i \in DOMAIN p
    <3>1. \A j \in DOMAIN q : n + j > i BY <1>1, <2>1, SMT
    <3>2. \A j \in DOMAIN q : q[j].key # k BY <1>7, <3>1
    <3>3. \A j \in DOMAIN p : j > i => p[j].key # k BY <1>7
    <3> QED BY <1>7, <2>1, <3>2, <3>3 DEF Final, HasLine, Elems
  <2>2. CASE i - n \in DOMAIN q /\ n + (i - n) = i
    <3> DEFINE d == i - n
    <3>0. a[i] = q[d]
      <4>1. a[n + d] = q[d] BY <2>2
      <4> QED BY <2>2, <4>1
    <3>1. \A j \in DOMAIN q : j > d => n + j > i BY <1>1, <1>2, <2>2, SMT
    <3> HIDE DEF d
    <3>2. \A j \in DOMAIN q : j > d => q[j].key # k BY <1>7, <3>1
    <3>3. d \in DOMAIN q BY <2>2 DEF d
    <3> QED BY <1>7, <3>0, <3>2, <3>3 DEF Final
  <2> QED BY <1>4, <2>1, <2>2
<1>8. \A k : \A l \in Final(a, k) : l \in Final(q, k) \/ (l \in Final(p, k) /\ ~HasLine(q, k))
  BY <1>7, SMT DEF Final
<1> QED BY <1>5, <1>6, <1>8 DEF a

\* The first n elements of a list and the others.
LEMMA ElemsFrom ==
  ASSUME NEW S, NEW q \in Seq(S), NEW n \in 0..Len(q)
  PROVE  /\ Elems(SubSeq(q, n + 1, Len(q))) \subseteq Elems(q)
         /\ \A x \in Elems(q) : x \in Elems(SubSeq(q, n + 1, Len(q))) \/ \E i \in 1..n : x = q[i]
<1> DEFINE r == SubSeq(q, n + 1, Len(q))
<1>1. Len(q) \in Nat /\ DOMAIN q = 1..Len(q) /\ n \in Nat BY SeqIs, SMT
<1>2. DOMAIN r = 1..(Len(q) - n) BY <1>1, SeqFrom, SeqIs
<1>3. \A i \in 1..(Len(q) - n) : r[i] = q[i + n] /\ i + n \in DOMAIN q BY SeqFrom
<1> HIDE DEF r
<1>4. \A i \in DOMAIN q : i \in 1..n \/ (i - n \in 1..(Len(q) - n) /\ (i - n) + n = i) BY <1>1, SMT
<1>5. Elems(r) \subseteq Elems(q) BY <1>2, <1>3 DEF Elems
<1>6. ASSUME NEW i \in DOMAIN q PROVE q[i] \in Elems(r) \/ \E j \in 1..n : q[i] = q[j]
  <2>1. CASE i \in 1..n BY <2>1
  <2>2. CASE i - n \in 1..(Len(q) - n) /\ (i - n) + n = i
    <3>1. r[i - n] = q[(i - n) + n] BY <1>3, <2>2
    <3>2. q[i] = r[i - n] BY <2>2, <3>1
    <3> QED BY <1>2, <2>2, <3>2 DEF Elems
  <2> QED BY <1>4, <2>1, <2>2
<1> QED BY <1>5, <1>6 DEF r, Elems

-----------------------------------------------------------------------------
\* What the steps do to the operations.
LEMMA OpIs ==
  ASSUME TypeInv, NEW s \in Sessions
  PROVE  /\ op[s] \in OpRecord /\ op[s].keys \in SUBSET Keys /\ op[s].kind \in AllKinds \cup {"none"}
         /\ op[s].todo \in Seq(Line) /\ op[s].log \in Seq(Line)
         /\ Elems(op[s].todo) \subseteq Line /\ Elems(op[s].log) \subseteq Line
<1>1. op[s] \in OpRecord BY DEF TypeInv, TypeOK
<1>2. /\ op[s].keys \in SUBSET Keys /\ op[s].kind \in AllKinds \cup {"none"}
      /\ op[s].todo \in Seq(Line) /\ op[s].log \in Seq(Line)
  BY <1>1 DEF OpRecord
<1> QED BY <1>1, <1>2, ElemsOf

LEMMA AppliedIs ==
  ASSUME TypeInv, NEW s \in Sessions, Applied(s)
  PROVE  /\ \A t \in Sessions : t # s => op'[t] = op[t]
         /\ op'[s].todo = Tail(op[s].todo)
         /\ op'[s].pc = IF Len(op[s].todo) = 1 THEN "log" ELSE "locked"
         /\ op'[s].log = op[s].log /\ op'[s].keys = op[s].keys /\ op'[s].kind = op[s].kind
<1>1. op[s] \in OpRecord /\ op \in [Sessions -> OpRecord] BY DEF TypeInv, TypeOK
<1> DEFINE r == [op[s] EXCEPT !.todo = Tail(op[s].todo),
                              !.pc = IF Len(op[s].todo) = 1 THEN "log" ELSE "locked"]
<1>2. op' = [op EXCEPT ![s] = r] BY <1>1 DEF Applied, OpRecord
<1>3. /\ r.todo = Tail(op[s].todo) /\ r.pc = IF Len(op[s].todo) = 1 THEN "log" ELSE "locked"
      /\ r.log = op[s].log /\ r.keys = op[s].keys /\ r.kind = op[s].kind
  BY <1>1 DEF OpRecord
<1> HIDE DEF r
<1> QED BY <1>1, <1>2, <1>3

LEMMA FlushIs ==
  ASSUME TypeInv, NEW n, Flush(n), NEW s \in Sessions
  PROVE  /\ op'[s].log = op[s].log /\ op'[s].todo = op[s].todo
         /\ op'[s].keys = op[s].keys /\ op'[s].kind = op[s].kind
         /\ op'[s] = op[s] \/ (op[s].pc = "await" /\ op'[s].pc = "log")
         /\ (\A i \in 1..n : walCh[i].from # s) => op'[s] = op[s]
<1>1. op[s] \in OpRecord BY DEF TypeInv, TypeOK
<1> DEFINE r == [op[s] EXCEPT !.pc = "log"]
<1>2. /\ r.pc = "log" /\ r.log = op[s].log /\ r.todo = op[s].todo
      /\ r.keys = op[s].keys /\ r.kind = op[s].kind
  BY <1>1 DEF OpRecord
<1>3. op'[s] = IF op[s].pc = "await" /\ \E i \in 1..n : walCh[i].from = s THEN r ELSE op[s]
  BY DEF Flush
<1> HIDE DEF r
<1> QED BY <1>2, <1>3

LEMMA FinishedIs ==
  ASSUME TypeInv, NEW s \in Sessions, Finished(s)
  PROVE  /\ \A t \in Sessions : t # s => op'[t] = op[t]
         /\ op'[s] = IdleOp
BY DEF Finished, TypeInv, TypeOK

\* An operation that has not begun.
LEMMA IdleIs ==
  /\ IdleOp.pc = "idle" /\ IdleOp.log = <<>> /\ IdleOp.todo = <<>> /\ IdleOp.keys = {}
  /\ Elems(IdleOp.log) = {} /\ Elems(IdleOp.todo) = {}
  /\ \A s : OpOK(s, IdleOp)
<1>1. /\ IdleOp.pc = "idle" /\ IdleOp.log = <<>> /\ IdleOp.todo = <<>> /\ IdleOp.keys = {}
      /\ IdleOp.kind = "none"
  BY DEF IdleOp
<1>2. Elems(<<>>) = {} BY SMT DEF Elems
<1> QED BY <1>1, <1>2, SMTT(30) DEF OpOK

-----------------------------------------------------------------------------
(* LogBehindIndex, until the process first ends.  Sessions write keys of their own,
   there is no COMMIT (it logs the DELETE of a key that the index does not hold),
   and no replicated write if index writes fail (it ignores their errors). *)

OwnWrites == OneWriter /\ "commit" \notin Kinds /\ (IndexFails => "repl" \notin Kinds)

\* The index ix holds the update of line l, or a later one.
Old(l, ix) == l.ver <= ix[l.key].ver
Logged(q, ix) == \A l \in Elems(q) : l # Garbage => Old(l, ix)
Waiting(q, ix) == \A m \in Elems(q) : m # Swap => Old(m.line, ix)

\* The update that the operation r is about to make is newer than the index.
Due(r, l, ix, n) ==
  /\ r.todo = <<l>> /\ r.log = <<l>> /\ l.key \in r.keys
  /\ ix[l.key].ver <= l.ver /\ l.ver <= n
  /\ l.live \/ r.kind \in {"delete", "repl"}

\* An operation of s is about to make its one update, or has only lines to log
\* that the index holds.
OpFine(s, r, ix, n) ==
  /\ \A k \in r.keys : <<s, k>> \in MayWrite
  /\ r.pc # "locked" /\ (r.pc # "idle" => r.kind \in Kinds)
  /\ r.pc \in {"log", "await"} => Logged(r.log, ix)
  /\ r.pc = "lock" => \E l \in Line : Due(r, l, ix, n)

Rest == wal = <<>> /\ walCh = <<>> /\ cpc = "idle" /\ \A s \in Sessions : op[s].pc = "idle"

Behind ==
  /\ \A k \in Keys : index[k].ver <= nops
  /\ Logged(wal, index) /\ Waiting(walCh, index)
  /\ \A s \in Sessions : OpFine(s, op[s], index, nops)
  /\ status # "up" => Rest

LEMMA IdleFine == \A s, ix, n : OpFine(s, IdleOp, ix, n)
<1>1. ~(IdleOp.pc \in {"log", "await"}) /\ IdleOp.pc # "lock" /\ IdleOp.pc # "locked" BY IdleIs
<1> QED BY <1>1, IdleIs DEF OpFine

\* The other steps, before the process first ends.
LEMMA NextBehind ==
  OwnWrites /\ TypeInv /\ TypeInv' /\ (ncrashes = 0 => Behind) /\ [Next]_vars /\ ncrashes' = 0 => Behind'
\* What two lists in a row hold.
<1>JoinHolds.
    ASSUME NEW S, NEW p \in Seq(S), NEW q \in Seq(S)
    PROVE  p \o q \in Seq(S) /\ \A l : l \in Elems(p \o q) <=> l \in Elems(p) \/ l \in Elems(q)
  <2>1. Elems(p \o q) = Elems(p) \cup Elems(q) BY ElemsJoin, SMT
  <2>2. p \o q \in Seq(S) BY SeqJoin
  <2> QED BY <2>1, <2>2

\* A later version in the index covers the lines that an earlier one covered.
<1>LinesStayOld.
    ASSUME NEW ix \in [Keys -> Entry], NEW iy \in [Keys -> Entry], \A k \in Keys : ix[k].ver <= iy[k].ver
    PROVE  /\ \A q \in Seq(Line \cup {Garbage}) : Logged(q, ix) => Logged(q, iy)
           /\ \A q \in Seq([from : Sessions, line : Line] \cup {Swap}) : Waiting(q, ix) => Waiting(q, iy)
  <2> USE <1>LinesStayOld
  <2>1. ASSUME NEW l \in Line, Old(l, ix) PROVE Old(l, iy)
    <3>1. l.key \in Keys /\ l.ver \in Nat BY DEF Line
    <3>2. ix[l.key] \in Entry /\ iy[l.key] \in Entry BY <3>1
    <3>3. ix[l.key].ver \in Nat /\ iy[l.key].ver \in Nat BY <3>2 DEF Entry
    <3>4. ix[l.key].ver <= iy[l.key].ver BY <3>1
    <3>5. l.ver <= ix[l.key].ver BY <2>1 DEF Old
    <3>a. \A x, y, z \in Nat : x <= y /\ y <= z => x <= z BY SMT
    <3> QED BY <3>1, <3>3, <3>4, <3>5, <3>a DEF Old
  <2>2. ASSUME NEW q \in Seq(Line \cup {Garbage}), Logged(q, ix) PROVE Logged(q, iy)
    <3>1. Elems(q) \subseteq Line \cup {Garbage} BY ElemsOf
    <3> QED BY <2>1, <2>2, <3>1 DEF Logged
  <2>3. ASSUME NEW q \in Seq([from : Sessions, line : Line] \cup {Swap}), Waiting(q, ix) PROVE Waiting(q, iy)
    <3>1. Elems(q) \subseteq [from : Sessions, line : Line] \cup {Swap} BY ElemsOf
    <3>2. \A m \in [from : Sessions, line : Line] : m.line \in Line OBVIOUS
    <3> QED BY <2>1, <2>3, <3>1, <3>2 DEF Waiting
  <2> QED BY <2>2, <2>3

\* An operation stays fine while the keys it is about to update stay as they are.
<1>FineStays.
    ASSUME NEW ix \in [Keys -> Entry], NEW iy \in [Keys -> Entry], \A k \in Keys : ix[k].ver <= iy[k].ver,
           NEW n \in Nat, NEW m \in Nat, n <= m, NEW s, NEW r \in OpRecord, OpFine(s, r, ix, n),
           r.pc = "lock" => \A k \in r.keys : iy[k].ver = ix[k].ver
    PROVE  OpFine(s, r, iy, m)
  <2> USE <1>FineStays
  <2>1. r.pc \in {"log", "await"} => Logged(r.log, iy)
    <3>1. r.log \in Seq(Line) BY DEF OpRecord
    <3>2. r.log \in Seq(Line \cup {Garbage}) BY <3>1, SMT
    <3> QED BY <3>2, <1>LinesStayOld DEF OpFine
  <2>2. ASSUME NEW l \in Line, r.pc = "lock", Due(r, l, ix, n) PROVE Due(r, l, iy, m)
    <3>1. l.ver \in Nat /\ l.ver <= n BY <2>2 DEF Line, Due
    <3>2. l.ver <= m BY <3>1, SMT
    <3>3. iy[l.key].ver = ix[l.key].ver BY <2>2 DEF Due
    <3> QED BY <2>2, <3>2, <3>3 DEF Due
  <2> QED BY <2>1, <2>2 DEF OpFine

<1>BehindTypes.
    ASSUME TypeInv
    PROVE  /\ index \in [Keys -> Entry] /\ nops \in Nat /\ op \in [Sessions -> OpRecord]
           /\ wal \in Seq(Line \cup {Garbage})
           /\ walCh \in Seq([from : Sessions, line : Line] \cup {Swap})
           /\ \A k \in Keys : index[k].ver \in Nat
  <2> USE <1>BehindTypes
  <2>1. index \in [Keys -> Entry] BY DEF TypeInv, TypeOK
  <2>2. \A k \in Keys : index[k].ver \in Nat BY <2>1 DEF Entry
  <2> QED BY <2>1, <2>2 DEF TypeInv, TypeOK

\* A step that changes no version in the index.
<1>BehindStays.
    ASSUME TypeInv, TypeInv', Behind, \A k \in Keys : index'[k].ver = index[k].ver, nops' = nops,
           Logged(wal', index), Waiting(walCh', index),
           \A s \in Sessions : OpFine(s, op'[s], index, nops), status' # "up" => Rest'
    PROVE  Behind'
  <2> USE <1>BehindStays
  <2>1. /\ index \in [Keys -> Entry] /\ nops \in Nat /\ \A k \in Keys : index[k].ver \in Nat
    BY <1>BehindTypes
  <2>2. /\ index' \in [Keys -> Entry] /\ op' \in [Sessions -> OpRecord]
        /\ wal' \in Seq(Line \cup {Garbage})
        /\ walCh' \in Seq([from : Sessions, line : Line] \cup {Swap})
    BY DEF TypeInv, TypeOK
  <2>a. \A x \in Nat : x <= x BY SMT
  <2>3. (\A k \in Keys : index[k].ver <= index'[k].ver) /\ nops <= nops BY <2>1, <2>a
  <2>4. \A k \in Keys : index'[k].ver <= nops' BY DEF Behind
  <2>5. Logged(wal', index') /\ Waiting(walCh', index') BY <2>1, <2>2, <2>3, <1>LinesStayOld
  <2>6. ASSUME NEW s \in Sessions PROVE OpFine(s, op'[s], index', nops')
    <3>1. op'[s] \in OpRecord /\ op'[s].keys \subseteq Keys BY <2>2 DEF OpRecord
    <3>2. \A k \in op'[s].keys : index'[k].ver = index[k].ver BY <3>1
    <3>3. OpFine(s, op'[s], index', nops) BY <2>1, <2>2, <2>3, <3>1, <3>2, <1>FineStays
    <3> QED BY <3>3
  <2> QED BY <2>4, <2>5, <2>6 DEF Behind

\* A write starts with an update that is newer than everything in the index.
<1>BeginBehind.
    ASSUME TypeInv, TypeInv', Behind, NEW s \in Sessions, NEW kind \in Kinds, NEW l \in Line,
           l.ver = nops + 1, l.live \/ kind \in {"delete", "repl"},
           Begin(s, kind, {l.key}, <<l>>, <<l>>)
    PROVE  Behind'
  <2> USE <1>BeginBehind
  <2> DEFINE r == [pc |-> IF <<l>> = <<>> THEN "log" ELSE "lock", kind |-> kind, ver |-> nops + 1,
                   keys |-> {l.key}, todo |-> <<l>>, log |-> <<l>>]
  <2>1. /\ op' = [op EXCEPT ![s] = r] /\ nops' = nops + 1 /\ \A k \in {l.key} : <<s, k>> \in MayWrite
        /\ status = "up" /\ UNCHANGED <<status, walCh, cpc, index, wal>>
    BY DEF Begin, files
  <2>2. /\ index \in [Keys -> Entry] /\ nops \in Nat /\ op \in [Sessions -> OpRecord]
        /\ \A k \in Keys : index[k].ver \in Nat
    BY <1>BehindTypes
  <2> USE <2>2
  <2>3. r.pc = "lock" /\ r.kind = kind /\ r.keys = {l.key} /\ r.todo = <<l>> /\ r.log = <<l>> OBVIOUS
  <2> HIDE DEF r
  <2>4. nops + 1 \in Nat /\ nops <= nops + 1 /\ nops + 1 <= nops + 1 BY SMT
  <2>a. \A x, y \in Nat : x <= y => x <= y + 1 BY SMT
  <2>5. \A k \in Keys : index[k].ver <= nops + 1 BY <2>a DEF Behind
  <2>6. l.key \in Keys BY DEF Line
  <2>7. OpFine(s, r, index, nops + 1)
    <3>1. Due(r, l, index, nops + 1) BY <2>3, <2>4, <2>5, <2>6 DEF Due
    <3>2. ~(r.pc \in {"log", "await"}) /\ r.pc # "locked" BY <2>3
    <3> QED BY <2>1, <2>3, <3>1, <3>2 DEF OpFine
  <2>8. ASSUME NEW t \in Sessions PROVE OpFine(t, op'[t], index, nops + 1)
    <3>1. CASE t = s BY <2>1, <2>7, <3>1
    <3>2. CASE t # s
      <4>1. op'[t] = op[t] /\ op[t] \in OpRecord /\ OpFine(t, op[t], index, nops)
        BY <2>1, <3>2 DEF Behind
      <4>a. \A x \in Nat : x <= x BY SMT
      <4>2. \A k \in Keys : index[k].ver <= index[k].ver BY <4>a
      <4>3. OpFine(t, op[t], index, nops + 1) BY <2>4, <4>1, <4>2, <1>FineStays
      <4> QED BY <4>1, <4>3
    <3> QED BY <3>1, <3>2
  <2> QED BY <2>1, <2>5, <2>8 DEF Behind

\* An update of the index, with its line still to be logged or not at all.
<1>UpdateBehind.
    ASSUME OneWriter, TypeInv, TypeInv', Behind, NEW s \in Sessions, op[s].pc = "lock",
           NEW l \in Line, Due(op[s], l, index, nops),
           index' = [index EXCEPT ![l.key] = EntryOf(l)] \/ (index' = index /\ Finished(s)),
           Applied(s) \/ Finished(s), UNCHANGED <<status, walCh, wal, cpc, nops>>
    PROVE  Behind'
  <2> USE <1>UpdateBehind
  <2>1. /\ index \in [Keys -> Entry] /\ nops \in Nat /\ op \in [Sessions -> OpRecord]
        /\ wal \in Seq(Line \cup {Garbage})
        /\ walCh \in Seq([from : Sessions, line : Line] \cup {Swap})
        /\ \A k \in Keys : index[k].ver \in Nat
    BY <1>BehindTypes
  <2>2. index' \in [Keys -> Entry] BY DEF TypeInv, TypeOK
  <2>3. l.key \in Keys /\ l.ver \in Nat BY DEF Line
  <2>4. l.key \in op[s].keys /\ index[l.key].ver <= l.ver /\ l.ver <= nops BY DEF Due
  <2>5. EntryOf(l).ver = l.ver BY DEF EntryOf
  <2>6. /\ \A k \in Keys : k # l.key => index'[k] = index[k]
        /\ index'[l.key].ver = l.ver \/ (index' = index /\ Finished(s))
    BY <2>1, <2>3, <2>5
  <2>a. \A x \in Nat : x <= x BY SMT
  <2>7. ASSUME NEW k \in Keys PROVE index[k].ver <= index'[k].ver /\ index'[k].ver <= nops
    <3>1. CASE k = l.key /\ index'[l.key].ver = l.ver BY <2>4, <3>1
    <3>2. CASE index'[k] = index[k] BY <2>1, <2>a, <3>2 DEF Behind
    <3> QED BY <2>6, <3>1, <3>2
  <2>8. Logged(wal', index') /\ Waiting(walCh', index')
    <3>1. Logged(wal, index') /\ Waiting(walCh, index')
      BY <2>1, <2>2, <2>7, <1>LinesStayOld DEF Behind
    <3> QED BY <3>1
  <2>9. status = "up"
    <3>1. op[s].pc # "idle" OBVIOUS
    <3> QED BY <3>1 DEF Behind, Rest
  <2>10. ASSUME NEW t \in Sessions, t # s PROVE OpFine(t, op[t], index', nops)
    <3>1. op[t] \in OpRecord /\ OpFine(t, op[t], index, nops) /\ OpFine(s, op[s], index, nops)
      BY <2>1 DEF Behind
    <3>2. op[t].keys \subseteq Keys BY <3>1 DEF OpRecord
    <3>3. l.key \notin op[t].keys BY <2>3, <2>4, <2>10, <3>1 DEF OpFine, OneWriter
    <3>4. \A k \in op[t].keys : index'[k].ver = index[k].ver BY <2>6, <3>2, <3>3
    <3>5. nops <= nops BY <2>1, <2>a
    <3> QED BY <2>1, <2>2, <2>7, <3>1, <3>4, <3>5, <1>FineStays
  <2>11. CASE Finished(s)
    <3>1. (\A t \in Sessions : t # s => op'[t] = op[t]) /\ op'[s] = IdleOp BY <2>11, FinishedIs
    <3>2. \A t \in Sessions : OpFine(t, op'[t], index', nops') BY <2>10, <3>1, IdleFine
    <3> QED BY <2>7, <2>8, <2>9, <3>2 DEF Behind
  <2>12. CASE Applied(s) /\ index'[l.key].ver = l.ver
    <3>1. /\ \A t \in Sessions : t # s => op'[t] = op[t]
          /\ op'[s].pc = IF Len(op[s].todo) = 1 THEN "log" ELSE "locked"
          /\ op'[s].log = op[s].log /\ op'[s].keys = op[s].keys /\ op'[s].kind = op[s].kind
      BY <2>12, AppliedIs
    <3>2. op[s].todo = <<l>> /\ op[s].log = <<l>> BY DEF Due
    <3>3. op'[s].pc = "log" BY <3>1, <3>2
    <3>4. Elems(<<l>>) = {l} BY SMT DEF Elems
    <3>5. Logged(op'[s].log, index')
      <4>1. Old(l, index') BY <2>3, <2>12, <2>a DEF Old
      <4>2. Logged(<<l>>, index') BY <3>4, <4>1 DEF Logged
      <4> QED BY <3>1, <3>2, <4>2
    <3>6. op'[s].pc # "locked" /\ op'[s].pc # "lock" BY <3>3
    <3>7. (\A k \in op[s].keys : <<s, k>> \in MayWrite) /\ op[s].kind \in Kinds
      <4>1. op[s].pc # "idle" OBVIOUS
      <4>2. OpFine(s, op[s], index, nops) BY DEF Behind
      <4> QED BY <4>1, <4>2 DEF OpFine
    <3>8. OpFine(s, op'[s], index', nops) BY <3>1, <3>5, <3>6, <3>7 DEF OpFine
    <3>9. \A t \in Sessions : OpFine(t, op'[t], index', nops') BY <2>10, <3>1, <3>8
    <3> QED BY <2>7, <2>8, <2>9, <3>9 DEF Behind
  <2> QED BY <2>6, <2>11, <2>12

\* An operation that is about to update the index, and holds its locks.
<1>SessionBehind.
    ASSUME OwnWrites, TypeInv, TypeInv', Behind, NEW s \in Sessions,
           ApplySet(s) \/ ApplyDelete(s) \/ ApplyFails(s)
    PROVE  Behind'
  <2> USE <1>SessionBehind
  <2>0. OneWriter BY DEF OwnWrites
  <2>1. MayUpdate(s) /\ UNCHANGED <<status, walCh, wal, cpc, nops>>
    BY DEF ApplySet, ApplyDelete, ApplyFails, counters
  <2>2. op[s].pc = "lock" BY <2>1 DEF MayUpdate, HoldsLocks, Behind, OpFine
  <2>3. PICK l \in Line : Due(op[s], l, index, nops) BY <2>2 DEF Behind, OpFine
  <2>4. Head(op[s].todo) = l
    <3>1. op[s].todo = <<l>> BY <2>3 DEF Due
    <3> QED BY <3>1, SMT
  <2>5. CASE ApplySet(s)
    <3>1. index' = [index EXCEPT ![l.key] = EntryOf(l)] /\ Applied(s) BY <2>4, <2>5 DEF ApplySet
    <3> QED BY <2>0, <2>1, <2>2, <2>3, <3>1, <1>UpdateBehind
  <2>6. CASE ApplyDelete(s)
    <3>1. /\ ~l.live
          /\ index' = IF index[l.key].live \/ op[s].kind = "repl"
                        THEN [index EXCEPT ![l.key] = EntryOf(l)] ELSE index
          /\ IF ~index[l.key].live /\ op[s].kind = "delete" THEN Finished(s) ELSE Applied(s)
      BY <2>4, <2>6 DEF ApplyDelete
    <3>2. op[s].kind = "delete" \/ op[s].kind = "repl"
      <4>1. l.live \/ op[s].kind \in {"delete", "repl"} BY <2>3 DEF Due
      <4> QED BY <3>1, <4>1
    <3>3. /\ index' = [index EXCEPT ![l.key] = EntryOf(l)] \/ (index' = index /\ Finished(s))
          /\ Applied(s) \/ Finished(s)
      BY <3>1, <3>2
    <3> QED BY <2>0, <2>1, <2>2, <2>3, <3>3, <1>UpdateBehind
  <2>7. CASE ApplyFails(s)
    <3>1. op[s].kind # "repl"
      <4>1. op[s].pc # "idle" BY <2>2
      <4>2. op[s].kind \in Kinds BY <4>1 DEF Behind, OpFine
      <4>3. IndexFails BY <2>7 DEF ApplyFails
      <4> QED BY <4>2, <4>3 DEF OwnWrites
    <3>2. Finished(s) BY <2>7, <3>1 DEF ApplyFails, AfterError
    <3>3. index' = [index EXCEPT ![l.key] = EntryOf(l)] \/ index' = index
      BY <2>4, <2>7 DEF ApplyFails
    <3> QED BY <2>0, <2>1, <2>2, <2>3, <3>2, <3>3, <1>UpdateBehind
  <2> QED BY <2>5, <2>6, <2>7

\* An operation that is at work, and Compact at work, say that the store is up.
<1>WorkIsUp.
    ASSUME Behind
    PROVE  /\ \A s \in Sessions : op[s].pc # "idle" => status = "up"
           /\ cpc # "idle" => status = "up"
  BY <1>WorkIsUp DEF Behind, Rest

\* writeWAL queues a line that the index holds.
<1>LogBehind.
    ASSUME TypeInv, TypeInv', Behind, NEW s \in Sessions, Log(s), Enqueue(s)
    PROVE  Behind'
  <2> USE <1>LogBehind
  <2> DEFINE l == Head(op[s].log)
             msg == [from |-> s, line |-> l]
             r == [op[s] EXCEPT !.log = Tail(op[s].log), !.pc = AfterLog]
  <2>1. /\ op[s].pc = "log" /\ op[s].log # <<>> /\ walCh' = Append(walCh, msg)
        /\ UNCHANGED <<status, index, cpc, wal, nops>>
    BY DEF Log, Enqueue, files, counters
  <2> USE <2>1
  <2>2. op[s] \in OpRecord /\ op \in [Sessions -> OpRecord] BY DEF TypeInv, TypeOK
  <2>3. op' = [op EXCEPT ![s] = r] BY <2>2 DEF Enqueue, OpRecord
  <2>4. r.log = Tail(op[s].log) /\ r.pc = AfterLog /\ r.keys = op[s].keys /\ r.kind = op[s].kind
    BY <2>2 DEF OpRecord
  <2> HIDE DEF r
  <2>5. l \in Elems(op[s].log) /\ Elems(Tail(op[s].log)) \subseteq Elems(op[s].log)
    BY OpIs, ElemsTail
  <2>6. OpFine(s, op[s], index, nops) /\ Logged(op[s].log, index)
    <3>1. op[s].pc \in {"log", "await"} OBVIOUS
    <3> QED BY <3>1 DEF Behind, OpFine
  <2>7. l \in Line /\ l # Garbage BY <2>5, OpIs, StoreConstants
  <2>8. Old(l, index) BY <2>5, <2>6, <2>7 DEF Logged
  <2> HIDE DEF l
  <2>9. msg \in [from : Sessions, line : Line] /\ msg.line = l BY <2>7
  <2> HIDE DEF msg
  <2>10. Waiting(walCh', index)
    <3>1. walCh \in Seq(Queued) /\ msg \in Queued BY <2>9 DEF TypeInv, TypeOK, Queued
    <3>2. Elems(walCh') = Elems(walCh) \cup {msg} BY <3>1, ElemsAppend, SMT
    <3> QED BY <2>8, <2>9, <3>2 DEF Behind, Waiting
  <2>11. OpFine(s, r, index, nops)
    <3>1. r.pc # "locked" /\ r.pc # "lock" /\ r.pc # "idle" BY <2>4 DEF AfterLog
    <3>2. Logged(r.log, index) BY <2>4, <2>5, <2>6 DEF Logged
    <3>3. op[s].pc # "idle" OBVIOUS
    <3> QED BY <2>4, <2>6, <3>1, <3>2, <3>3 DEF OpFine
  <2>12. \A t \in Sessions : OpFine(t, op'[t], index, nops) BY <2>2, <2>3, <2>11 DEF Behind
  <2>13. status' = "up"
    <3>1. op[s].pc # "idle" OBVIOUS
    <3> QED BY <3>1, <1>WorkIsUp
  <2>14. Logged(wal', index) /\ \A k \in Keys : index'[k].ver = index[k].ver BY DEF Behind
  <2> QED BY <2>10, <2>12, <2>13, <2>14, <1>BehindStays

\* The first lines of the queue may be logged: the index holds them.
<1>MovedLines.
    ASSUME TypeInv, Behind, NEW n \in 1..Len(walCh), \A i \in 1..n : walCh[i] # Swap, NEW m \in 0..n
    PROVE  /\ wal \o [i \in 1..m |-> walCh[i].line] \in Seq(Line \cup {Garbage})
           /\ Logged(wal \o [i \in 1..m |-> walCh[i].line], index)
           /\ Waiting(SubSeq(walCh, n + 1, Len(walCh)), index)
  <2> USE <1>MovedLines
  <2> DEFINE lines == [i \in 1..m |-> walCh[i].line]
  <2>2. walCh \in Seq(Queued) /\ wal \in Seq(Line \cup {Garbage}) BY DEF TypeInv, TypeOK, Queued
  <2>3. /\ n \in Nat /\ n \in 0..Len(walCh) /\ m \in Nat
        /\ \A i \in 1..m : i \in 1..n /\ i \in DOMAIN walCh
    <3>1. Len(walCh) \in Nat /\ DOMAIN walCh = 1..Len(walCh) BY <2>2, SeqIs
    <3> QED BY <3>1, SMT
  <2>4. \A i \in 1..m : walCh[i] \in Elems(walCh) /\ walCh[i] # Swap /\ walCh[i].line \in Line
    <3>0. \A i \in 1..m : walCh[i] \in Queued BY <2>2, <2>3, SeqIs
    <3>1. \A i \in 1..m : walCh[i] \in Elems(walCh) /\ walCh[i] \in Queued
      BY <2>3, <3>0 DEF Elems
    <3> QED BY <2>3, <3>1 DEF Queued
  <2>5. \A i \in 1..m : lines[i] = walCh[i].line OBVIOUS
  <2>6. lines \in [1..m -> Line \cup {Garbage}] /\ DOMAIN lines = 1..m BY <2>4
  <2> HIDE DEF lines
  <2>7. lines \in Seq(Line \cup {Garbage}) BY <2>3, <2>6, SeqMade
  <2>8. wal \o lines \in Seq(Line \cup {Garbage}) /\ Elems(wal \o lines) = Elems(wal) \cup Elems(lines)
    BY <2>2, <2>7, ElemsJoin, SeqJoin, SMT
  <2>9. Logged(wal \o lines, index)
    <3>0. \A l \in Elems(lines) : \E i \in 1..m : l = lines[i] BY <2>6 DEF Elems
    <3>1. \A l \in Elems(lines) : \E x \in Elems(walCh) : x # Swap /\ x.line = l
      <4> SUFFICES ASSUME NEW l \in Elems(lines) PROVE \E x \in Elems(walCh) : x # Swap /\ x.line = l
        OBVIOUS
      <4>1. PICK i \in 1..m : l = lines[i] BY <3>0
      <4>2. walCh[i] \in Elems(walCh) /\ walCh[i] # Swap /\ walCh[i].line = l BY <2>4, <2>5, <4>1
      <4> QED BY <4>2
    <3>2. \A l \in Elems(lines) : Old(l, index) BY <3>1 DEF Behind, Waiting
    <3> QED BY <2>8, <3>2 DEF Behind, Logged
  <2>10. Waiting(SubSeq(walCh, n + 1, Len(walCh)), index)
    <3> DEFINE q == SubSeq(walCh, n + 1, Len(walCh))
    <3>1. Elems(q) \subseteq Elems(walCh) BY <2>2, <2>3, ElemsFrom
    <3> HIDE DEF q
    <3>2. Waiting(q, index) BY <3>1 DEF Behind, Waiting
    <3> QED BY <3>2 DEF q
  <2> QED BY <2>8, <2>9, <2>10 DEF lines

\* The flusher moves lines from the queue to the file.
<1>FlushBehind.
    ASSUME TypeInv, TypeInv', Behind, NEW n, Flush(n)
    PROVE  Behind'
  <2> USE <1>FlushBehind
  <2>1. /\ status = "up" /\ n \in 1..Len(walCh) /\ (\A i \in 1..n : walCh[i] # Swap)
        /\ wal' = wal \o [i \in 1..n |-> walCh[i].line] /\ walCh' = SubSeq(walCh, n + 1, Len(walCh))
        /\ UNCHANGED <<status, index, nops>>
    BY DEF Flush, counters
  <2>2. n \in 0..n
    <3>1. Len(walCh) \in Nat BY SeqIs DEF TypeInv, TypeOK
    <3> QED BY <2>1, <3>1, SMT
  <2>3. Logged(wal', index) /\ Waiting(walCh', index) BY <2>1, <2>2, <1>MovedLines
  <2>11. ASSUME NEW s \in Sessions PROVE OpFine(s, op'[s], index, nops)
    <3>0. OpFine(s, op[s], index, nops) BY DEF Behind
    <3>1. CASE op'[s] = op[s] BY <3>0, <3>1
    <3>2. CASE op[s].pc = "await" /\ op'[s].pc = "log"
      <4>1. op'[s].log = op[s].log /\ op'[s].keys = op[s].keys /\ op'[s].kind = op[s].kind
        BY FlushIs
      <4>2. /\ op'[s].pc # "locked" /\ op'[s].pc # "lock"
            /\ op[s].pc # "idle" /\ op[s].pc \in {"log", "await"}
        BY <3>2
      <4> QED BY <3>0, <4>1, <4>2 DEF OpFine
    <3> QED BY <3>1, <3>2, FlushIs
  <2>12. \A k \in Keys : index'[k].ver = index[k].ver BY <2>1
  <2>13. status' = "up" BY <2>1
  <2> QED BY <2>1, <2>3, <2>11, <2>12, <2>13, <1>BehindStays

\* A flush fails: fewer lines reach the file, and who waits for one gives up.
<1>FlushFailsBehind.
    ASSUME TypeInv, TypeInv', Behind, NEW n, FlushFails(n)
    PROVE  Behind'
  <2> USE <1>FlushFailsBehind
  <2>1. /\ status = "up" /\ n \in 1..Len(walCh) /\ (\A i \in 1..n : walCh[i] # Swap)
        /\ walCh' = SubSeq(walCh, n + 1, Len(walCh))
        /\ \A s \in Sessions : op'[s] = op[s] \/ op'[s] = IdleOp
        /\ UNCHANGED <<status, index, nops>>
    BY DEF FlushFails, counters
  <2>2. PICK m \in 0..n : FailedPart(n, m) BY FlushFailsIs
  <2> DEFINE part == wal \o [i \in 1..m |-> walCh[i].line]
  <2>3. part \in Seq(Line \cup {Garbage}) /\ Logged(part, index) /\ Waiting(walCh', index)
    BY <2>1, <1>MovedLines
  <2>4. wal' = part \/ wal' = Append(part, Garbage) BY <2>2 DEF FailedPart
  <2> HIDE DEF part
  <2>5. Elems(wal') \subseteq Elems(part) \cup {Garbage}
    <3>1. CASE wal' = part BY <3>1
    <3>2. CASE wal' = Append(part, Garbage)
      <4>0. part \in Seq(Line \cup {Garbage}) /\ Garbage \in Line \cup {Garbage} BY <2>3
      <4>1. Elems(Append(part, Garbage)) = Elems(part) \cup {Garbage} BY <4>0, ElemsAppend, SMT
      <4> QED BY <3>2, <4>1
    <3> QED BY <2>4, <3>1, <3>2
  <2>6. Logged(wal', index) BY <2>3, <2>5 DEF Logged
  <2>7. \A s \in Sessions : OpFine(s, op'[s], index, nops) BY <2>1, IdleFine DEF Behind
  <2>8. \A k \in Keys : index'[k].ver = index[k].ver BY <2>1
  <2>9. status' = "up" BY <2>1
  <2> QED BY <2>1, <2>3, <2>6, <2>7, <2>8, <2>9, <1>BehindStays

\* The list of one element.
<1>OneElem.
    ASSUME NEW S, NEW e \in S
    PROVE  <<e>> \in Seq(S) /\ Elems(<<e>>) = {e}
  <2>1. <<e>> \in Seq(S) BY SMT
  <2>2. Elems(<<e>>) = {e} BY SMT DEF Elems
  <2> QED BY <2>1, <2>2

\* Clearing an expiry or burying an entry leaves its version.
<1>VersionsStay.
    ASSUME TypeInv, (\E s \in Sessions, k \in Keys : Persist(s, k)) \/ EvictExpired \/ CompactIndex
    PROVE  \A k \in Keys : index'[k].ver = index[k].ver
  <2> USE <1>VersionsStay
  <2>1. index \in [Keys -> Entry] BY <1>BehindTypes
  <2>2. \A e \in Entry : [e EXCEPT !.live = FALSE].ver = e.ver /\ [e EXCEPT !.exp = 0].ver = e.ver
    BY DEF Entry
  <2>3. ASSUME NEW s \in Sessions, NEW k \in Keys, Persist(s, k)
        PROVE  \A j \in Keys : index'[j].ver = index[j].ver
    <3>1. index' = [index EXCEPT ![k].exp = 0] \/ index' = index BY <2>3 DEF Persist
    <3>2. [index EXCEPT ![k].exp = 0] = [index EXCEPT ![k] = [index[k] EXCEPT !.exp = 0]] OBVIOUS
    <3>3. [index[k] EXCEPT !.exp = 0].ver = index[k].ver BY <2>1, <2>2
    <3> QED BY <2>1, <3>1, <3>2, <3>3
  <2>4. ASSUME EvictExpired \/ CompactIndex, NEW k \in Keys PROVE index'[k].ver = index[k].ver
    <3>1. index'[k] = index[k] \/ index'[k] = [index[k] EXCEPT !.live = FALSE]
      BY <2>4 DEF EvictExpired, CompactIndex
    <3> QED BY <2>1, <2>2, <3>1
  <2> QED BY <2>3, <2>4

\* Compact writes the lines of the index over what it finds in wal.log.
<1>RewriteBehind.
    ASSUME TypeInv, Behind, CompactRewrite
    PROVE  Logged(wal', index)
  <2> USE <1>RewriteBehind
  <2> DEFINE m == Len(wal)
             LinesOf(q) == [i \in DOMAIN q |-> LineOf(q[i], index[q[i]].ver, index[q[i]].exp)]
             present == {k \in Keys : index[k].live}
             S == Line \cup {Garbage}
  <2>1. PICK q \in Orders(present) :
          \/ wal' = LinesOf(q) \o wal
          \/ \E j \in 1..m : \/ wal' = LinesOf(q) \o SubSeq(wal, j + 1, m)
                             \/ wal' = LinesOf(q) \o <<Garbage>> \o SubSeq(wal, j + 1, m)
    BY DEF CompactRewrite
  <2>2. wal \in Seq(S) /\ index \in [Keys -> Entry] BY DEF TypeInv, TypeOK
  <2>3. \A k \in Keys : index[k].ver \in Nat /\ index[k].exp \in Nat BY <2>2 DEF Entry
  <2> DEFINE ln(k) == LineOf(k, index[k].ver, index[k].exp)
  <2>4. ASSUME NEW k \in Keys PROVE ln(k) \in Line /\ Old(ln(k), index)
    <3>1. ln(k) \in Line /\ ln(k).key = k /\ ln(k).ver = index[k].ver BY <2>3 DEF LineOf, Line
    <3>a. \A x \in Nat : x <= x BY SMT
    <3>2. index[k].ver <= index[k].ver BY <2>3, <3>a
    <3> HIDE DEF ln
    <3> QED BY <3>1, <3>2 DEF Old
  <2>5. \A i \in DOMAIN q : LinesOf(q)[i] = ln(q[i]) OBVIOUS
  <2>6. DOMAIN LinesOf(q) = DOMAIN q OBVIOUS
  <2>7. \A i \in DOMAIN q : q[i] \in Keys BY DEF Orders
  <2> HIDE DEF ln
  <2>8. \A i \in DOMAIN q : LinesOf(q)[i] \in Line /\ Old(LinesOf(q)[i], index) BY <2>4, <2>5, <2>7
  <2>9. LinesOf(q) \in [DOMAIN q -> Line]
    <3>1. \A i \in DOMAIN q : LineOf(q[i], index[q[i]].ver, index[q[i]].exp) \in Line BY <2>8
    <3> QED BY <3>1
  <2> HIDE DEF LinesOf
  <2>10. LinesOf(q) \in Seq(Line)
    <3>1. present \in SUBSET Keys OBVIOUS
    <3> QED BY <2>9, <3>1, LinesOfOrder
  <2>11. LinesOf(q) \in Seq(S) BY <2>10, SMT
  <2>12. \A l \in Elems(LinesOf(q)) : Old(l, index) BY <2>6, <2>8 DEF Elems
  <2>13. Logged(wal, index) BY DEF Behind
  <2>14. CASE wal' = LinesOf(q) \o wal
    <3>1. \A l : l \in Elems(wal') <=> l \in Elems(LinesOf(q)) \/ l \in Elems(wal)
      <4> HIDE DEF S
      <4> QED BY <2>2, <2>11, <2>14, <1>JoinHolds
    <3> QED BY <2>12, <2>13, <3>1 DEF Logged
  <2>15. ASSUME NEW j \in 1..m, \/ wal' = LinesOf(q) \o SubSeq(wal, j + 1, m)
                                \/ wal' = LinesOf(q) \o <<Garbage>> \o SubSeq(wal, j + 1, m)
         PROVE  Logged(wal', index)
    <3>1. j \in 0..Len(wal) BY <2>2, SMT
    <3> DEFINE r == SubSeq(wal, j + 1, m)
               g == <<Garbage>>
               p == LinesOf(q)
    <3>2. r \in Seq(S) /\ Elems(r) \subseteq Elems(wal) BY <2>2, <3>1, SeqFrom, ElemsFrom
    <3>b. Garbage \in S OBVIOUS
    <3>3. g \in Seq(S) /\ Elems(g) = {Garbage}
      <4> HIDE DEF S
      <4> QED BY <3>b, <1>OneElem
    <3>4. wal' = p \o r \/ wal' = p \o g \o r BY <2>15
    <3>5. p \in Seq(S) /\ \A l \in Elems(p) : Old(l, index) BY <2>11, <2>12
    <3> HIDE DEF r, g, p, S
    <3> DEFINE pg == p \o g
    <3>6. \A l : l \in Elems(p \o r) <=> l \in Elems(p) \/ l \in Elems(r) BY <3>2, <3>5, <1>JoinHolds
    <3>7. pg \in Seq(S) /\ \A l : l \in Elems(pg) <=> l \in Elems(p) \/ l \in Elems(g)
      BY <3>3, <3>5, <1>JoinHolds
    <3> HIDE DEF pg
    <3>8. \A l : l \in Elems(pg \o r) <=> l \in Elems(pg) \/ l \in Elems(r) BY <3>2, <3>7, <1>JoinHolds
    <3>9. \A l \in Elems(wal') : l \in Elems(p) \/ l \in Elems(wal) \/ l = Garbage
      <4>1. wal' = p \o r \/ wal' = pg \o r BY <3>4 DEF pg
      <4> QED BY <3>2, <3>3, <3>6, <3>7, <3>8, <4>1
    <3> QED BY <2>13, <3>5, <3>9 DEF Logged
  <2> QED BY <2>1, <2>14, <2>15

\* Compact empties wal.log, rewrites it, or gives up.
<1>CompactBehind.
    ASSUME TypeInv, TypeInv', Behind,
           CompactIndex \/ CompactTruncate \/ CompactRewrite \/ CompactFails \/ CompactSwap \/ FlushSwap
    PROVE  Behind'
  <2> USE <1>CompactBehind
  <2>1. UNCHANGED <<status, op, nops>> /\ (CompactIndex \/ UNCHANGED index)
    BY DEF CompactIndex, CompactTruncate, CompactRewrite, CompactFails, CompactSwap, FlushSwap,
                 files, counters
  <2>2. status' = "up"
    <3>1. cpc # "idle" \/ status = "up"
      BY DEF CompactIndex, CompactTruncate, CompactRewrite, CompactFails, CompactSwap, FlushSwap
    <3> QED BY <2>1, <3>1, <1>WorkIsUp
  <2>3. \A k \in Keys : index'[k].ver = index[k].ver BY <2>1, <1>VersionsStay
  <2>4. Logged(wal, index) /\ Waiting(walCh, index) /\ \A s \in Sessions : OpFine(s, op'[s], index, nops)
    BY <2>1 DEF Behind
  <2>5. wal \in Seq(Line \cup {Garbage}) /\ walCh \in Seq(Queued) /\ Swap \in Queued
    BY DEF TypeInv, TypeOK, Queued
  <2>6. Logged(wal', index)
    <3>1. CASE UNCHANGED wal BY <2>4, <3>1
    <3>2. CASE wal' = <<>>
      <4>1. Elems(wal') = {} BY <3>2, SMT DEF Elems
      <4> QED BY <4>1 DEF Logged
    <3>3. CASE wal' = <<Garbage>> \o wal
      <4>0. Garbage \in Line \cup {Garbage} OBVIOUS
      <4>1. <<Garbage>> \in Seq(Line \cup {Garbage}) /\ Elems(<<Garbage>>) = {Garbage}
        BY <4>0, <1>OneElem
      <4> DEFINE g == <<Garbage>>
      <4>2. g \in Seq(Line \cup {Garbage}) /\ Elems(g) = {Garbage} /\ wal' = g \o wal BY <3>3, <4>1
      <4> HIDE DEF g
      <4>3. Elems(g \o wal) = Elems(g) \cup Elems(wal) BY <2>5, <4>2, ElemsJoin, SMT
      <4> QED BY <2>4, <4>2, <4>3 DEF Logged
    <3>4. CASE CompactRewrite BY <3>4, <1>RewriteBehind
    <3> QED BY <3>1, <3>2, <3>3, <3>4
               DEF CompactIndex, CompactTruncate, CompactFails, CompactSwap, FlushSwap, files
  <2>7. Waiting(walCh', index)
    <3>1. CASE UNCHANGED walCh BY <2>4, <3>1
    <3>2. CASE walCh' = Append(walCh, Swap)
      <4>1. Elems(walCh') = Elems(walCh) \cup {Swap} BY <2>5, <3>2, ElemsAppend, SMT
      <4> QED BY <2>4, <4>1 DEF Waiting
    <3>3. CASE walCh # <<>> /\ walCh' = Tail(walCh)
      <4>1. Elems(walCh') \subseteq Elems(walCh) BY <2>5, <3>3, ElemsTail
      <4> QED BY <2>4, <4>1 DEF Waiting
    <3> QED BY <3>1, <3>2, <3>3
               DEF CompactIndex, CompactTruncate, CompactRewrite, CompactFails, CompactSwap, FlushSwap
  <2> QED BY <2>1, <2>2, <2>3, <2>4, <2>6, <2>7, <1>BehindStays
<1> SUFFICES ASSUME OwnWrites, TypeInv, TypeInv', ncrashes = 0 => Behind, [Next]_vars, ncrashes' = 0
             PROVE  Behind'
  OBVIOUS
<1>0. ncrashes \in Nat BY DEF TypeInv, TypeOK
<1>1. ~Close /\ ~Crash /\ ~PowerLoss
  <2>1. CountedHalt => ncrashes' # 0 BY <1>0, SMT DEF CountedHalt
  <2> QED BY <2>1 DEF Close, Crash, PowerLoss
<1>2. ncrashes = 0
  <2>1. ncrashes' = ncrashes
    <3>1. CASE UNCHANGED vars BY <3>1 DEF vars, counters
    <3>2. ASSUME NEW s, NEW k, NEW kind, NEW ttl,
                 BeginSet(s, kind, k, ttl) \/ BeginDelete(s, kind, k) \/ Persist(s, k)
          PROVE  ncrashes' = ncrashes
      BY <3>2 DEF BeginSet, BeginDelete, Begin, Persist, counters
    <3>3. ASSUME NEW s, NEW sets, NEW dels, NEW ttl, BeginCommit(s, sets, dels, ttl)
          PROVE  ncrashes' = ncrashes
      BY <3>3 DEF BeginCommit, Begin
    <3>4. ASSUME NEW s, ApplySet(s) \/ ApplyDelete(s) \/ ApplyFails(s) \/ Log(s) \/ Finish(s)
          PROVE  ncrashes' = ncrashes
      BY <3>4 DEF ApplySet, ApplyDelete, ApplyFails, Log, Finish, counters
    <3>5. ASSUME NEW n, Flush(n) \/ FlushFails(n) PROVE ncrashes' = ncrashes
      BY <3>5 DEF Flush, FlushFails, counters
    <3>6. CASE FlushSwap \/ Tick \/ EvictExpired \/ CompactIndex \/ CompactTruncate \/ CompactRewrite
               \/ CompactFails \/ CompactSwap
      BY <3>6 DEF FlushSwap, Tick, EvictExpired, CompactIndex, CompactTruncate, CompactRewrite,
                         CompactFails, CompactSwap, counters
    <3>7. CASE WriteBack \/ Open \/ ReplayLine \/ ReplayFails \/ ReplayEnd \/ Serve
      BY <3>7 DEF WriteBack, Open, ReplayLine, ReplayFails, ReplayEnd, Serve, counters
    <3> QED BY <1>1, <3>1, <3>2, <3>3, <3>4, <3>5, <3>6, <3>7 DEF Next
  <2> QED BY <2>1
<1>3. Behind BY <1>2
<1> USE <1>3
<1>4. nops \in Nat BY <1>BehindTypes
<1>5. ASSUME NEW s \in Sessions, NEW k \in Keys, NEW kind \in Kinds \cap {"set", "blob", "repl"},
             NEW ttl \in TTLs, BeginSet(s, kind, k, ttl)
      PROVE  Behind'
  <2> DEFINE l == LineOf(k, nops + 1, ExpiresAt(ttl))
  <2>1. ExpiresAt(ttl) \in Nat
    <3>1. ttl \in Nat /\ now \in Nat BY StoreConstants DEF TypeInv, TypeOK
    <3> QED BY <3>1, SMT DEF ExpiresAt
  <2>2. l \in Line /\ l.key = k /\ l.ver = nops + 1 /\ l.live BY <1>4, <2>1, SMT DEF LineOf, Line
  <2>3. Begin(s, kind, {k}, <<l>>, <<l>>) /\ kind \in Kinds BY <1>5 DEF BeginSet
  <2> HIDE DEF l
  <2> QED BY <2>2, <2>3, <1>BeginBehind
<1>6. ASSUME NEW s \in Sessions, NEW k \in Keys, NEW kind \in Kinds \cap {"delete", "repl"},
             BeginDelete(s, kind, k)
      PROVE  Behind'
  <2> DEFINE l == DeleteOf(k, nops + 1)
  <2>1. l \in Line /\ l.key = k /\ l.ver = nops + 1 BY <1>4, SMT DEF DeleteOf, Line
  <2>2. Begin(s, kind, {k}, <<l>>, <<l>>) /\ kind \in Kinds /\ kind \in {"delete", "repl"}
    BY <1>6 DEF BeginDelete
  <2> HIDE DEF l
  <2> QED BY <2>1, <2>2, <1>BeginBehind
<1>7. ASSUME Kinds \cap {"commit"} # {} PROVE Behind' BY <1>7 DEF OwnWrites
<1>8. ASSUME NEW s \in Sessions, ApplySet(s) \/ ApplyDelete(s) \/ ApplyFails(s) \/ (Log(s) /\ Enqueue(s))
      PROVE  Behind'
  BY <1>8, <1>SessionBehind, <1>LogBehind
<1>9. ASSUME NEW n \in 1..WalCap, Flush(n) \/ FlushFails(n) PROVE Behind'
  BY <1>9, <1>FlushBehind, <1>FlushFailsBehind
<1>10. CASE FlushSwap \/ CompactIndex \/ CompactTruncate \/ CompactRewrite \/ CompactFails \/ CompactSwap
  BY <1>10, <1>CompactBehind
<1>11. ASSUME \A k \in Keys : index'[k].ver = index[k].ver, UNCHANGED <<op, walCh, wal, cpc, nops>>,
              status' = status \/ status # "up" \/ status' = "up"
       PROVE  Behind'
  <2>1. Logged(wal', index) /\ Waiting(walCh', index) /\ \A s \in Sessions : OpFine(s, op'[s], index, nops)
    BY <1>11 DEF Behind
  <2>2. status' # "up" => Rest' BY <1>11 DEF Behind, Rest
  <2> QED BY <1>11, <2>1, <2>2, <1>BehindStays
<1>12. ASSUME NEW s \in Sessions, Finish(s) \/ (Log(s) /\ ~Enqueue(s)) PROVE Behind'
  <2>1. /\ op[s].pc = "log" /\ Finished(s) /\ UNCHANGED <<status, walCh, cpc, index, wal, nops>>
    BY <1>12 DEF Finish, Log, files, counters
  <2> USE <2>1
  <2>2. (\A t \in Sessions : t # s => op'[t] = op[t]) /\ op'[s] = IdleOp BY FinishedIs
  <2>3. \A t \in Sessions : OpFine(t, op'[t], index, nops) BY <2>2, IdleFine DEF Behind
  <2>4. op[s].pc # "idle" OBVIOUS
  <2>5. status' = "up" BY <2>4, <1>WorkIsUp
  <2>6. Logged(wal', index) /\ Waiting(walCh', index) /\ \A k \in Keys : index'[k].ver = index[k].ver
    BY DEF Behind
  <2> QED BY <2>3, <2>5, <2>6, <1>BehindStays
<1>13. ASSUME (\E s \in Sessions, k \in Keys : Persist(s, k)) \/ EvictExpired PROVE Behind'
  <2>1. UNCHANGED <<op, walCh, wal, cpc, nops, status>>
    BY <1>13 DEF Persist, EvictExpired, counters
  <2>2. \A k \in Keys : index'[k].ver = index[k].ver BY <1>13, <1>VersionsStay
  <2> QED BY <1>11, <2>1, <2>2
<1>14. CASE Tick \/ WriteBack \/ Open \/ ReplayEnd \/ Serve \/ UNCHANGED vars
  <2>1. UNCHANGED <<op, walCh, wal, cpc, nops, index>>
    BY <1>14 DEF Tick, WriteBack, Open, ReplayEnd, Serve, vars, volatile, files, counters
  <2>2. status' = status \/ status # "up" \/ status' = "up"
    <3>1. "down" # "up" /\ "replay" # "up" OBVIOUS
    <3> QED BY <1>14, <3>1 DEF Tick, WriteBack, Open, ReplayEnd, Serve, vars
  <2> QED BY <1>11, <2>1, <2>2
<1>15. ~ReplayLine /\ ~ReplayFails
  <2>1. ASSUME status = "replay" PROVE ~(rpos <= Len(wal))
    <3>1. status # "up" BY <2>1
    <3>2. wal = <<>> BY <3>1 DEF Behind, Rest
    <3>3. rpos \in Nat \ {0} BY DEF TypeInv
    <3> QED BY <3>2, <3>3, SMT
  <2> QED BY <2>1 DEF ReplayLine, ReplayFails
<1> QED BY <1>1, <1>5, <1>6, <1>7, <1>8, <1>9, <1>10, <1>12, <1>13, <1>14, <1>15 DEF Next

\* LogBehindIndex, for any number of keys and sessions, any schedule, index and log
\* writes that fail, any number of Compacts and any fsync mode, until the process first
\* ends: if every key has one writing session, writeWAL never queues an update
\* that the index does not hold, and neither Compact nor the flusher puts one into
\* wal.log.  COMMIT is left out, as it logs the DELETE of an absent key, and so is
\* ApplyReplicationEntry if index writes fail, as it logs all the same.
THEOREM LogStaysBehind ==
  ASSUME OwnWrites
  PROVE  Spec => [](ncrashes = 0 => LogBehindIndex)
<1> DEFINE Inv == TypeInv /\ SwapOnce /\ (ncrashes = 0 => Behind)
<1>1. Init => Inv
  <2> SUFFICES ASSUME Init PROVE Inv OBVIOUS
  <2>0. SwapOnce BY SMT DEF Init, SwapOnce
  <2>1. /\ status = "down" /\ wal = <<>> /\ walCh = <<>> /\ cpc = "idle" /\ nops = 0
        /\ op = [s \in Sessions |-> IdleOp] /\ index = [k \in Keys |-> NoEntry]
    BY DEF Init
  <2> USE <2>1
  <2>2. NoEntry.ver = 0 BY DEF NoEntry
  <2>a. 0 <= 0 BY SMT
  <2>3. \A k \in Keys : index[k].ver <= nops BY <2>2, <2>a
  <2>4. Elems(wal) = {} /\ Elems(walCh) = {} BY SMT DEF Elems
  <2>5. Logged(wal, index) /\ Waiting(walCh, index) BY <2>4 DEF Logged, Waiting
  <2>6. \A s \in Sessions : op[s] = IdleOp OBVIOUS
  <2>7. (\A s \in Sessions : OpFine(s, op[s], index, nops)) /\ Rest
    BY <2>6, IdleFine, IdleIs DEF Rest
  <2> QED BY <2>0, <2>3, <2>5, <2>7, InitTyped DEF Behind
<1>2. Inv /\ [Next]_vars => Inv' BY NextTyped, SwapKept, NextBehind
<1>3. Inv => (ncrashes = 0 => LogBehindIndex)
  <2> SUFFICES ASSUME Behind PROVE LogBehindIndex OBVIOUS
  <2>1. \A i \in DOMAIN wal : wal[i] # Garbage => Old(wal[i], index)
    BY DEF Behind, Logged, Elems
  <2>2. \A i \in DOMAIN walCh : walCh[i] # Swap => Old(walCh[i].line, index)
    BY DEF Behind, Waiting, Elems
  <2> QED BY <2>1, <2>2 DEF LogBehindIndex, Old
<1> QED BY <1>1, <1>2, <1>3, PTL DEF Spec

-----------------------------------------------------------------------------
(* What clients were told survives a crash.  The theorem is about FsyncAlways,
   an index that accepts its writes, no PERSIST (which is not logged) and keys
   with one writing session each: without any one of these the code does not
   have the property. *)

Setting == FsyncAlways /\ ~IndexFails /\ "persist" \notin Kinds /\ OneWriter

\* The lines in the queue, with their senders.
Sent == Elems(walCh) \ {Swap}

\* Nobody updates the index while Compact works, or while the store is down.
OpsInv ==
  /\ \A s \in Sessions : OpOK(s, op[s]) /\ (op[s].pc = "locked" => cpc = "idle")
  /\ status # "up" => walCh = <<>> /\ cpc = "idle" /\ \A s \in Sessions : op[s].pc = "idle"

\* A session waits for the one line it has in the queue.
SentInv ==
  /\ \A m \in Sent : op[m.from].pc = "await" /\ m.line.key \in op[m.from].keys
  /\ \A i, j \in DOMAIN walCh :
       walCh[i] # Swap /\ walCh[j] # Swap /\ walCh[i].from = walCh[j].from => i = j

\* Entries that Get answers alike, now and from now on.
Same(e, f) == View(e, now) = View(f, now)

\* e is what a client may find under k.
Held(e, k) == \E f \in maybe[k] : Same(e, f)
HeldAll == \A k \in Keys : Held(index[k], k)

\* k may have been updated by an operation whose line is not in the file yet.
Unlogged(k) ==
  \/ \E s \in Sessions : op[s].pc # "lock" /\ HasLine(op[s].log, k)
  \/ \E m \in Sent : m.line.key = k

\* A power loss leaves an index whose header counts nothing.
DiskCounts == PowerFails /\ disk.header = 0

\* What replayWAL would make of k now: its last line, or what is below the WAL.
Rebuilt(e, k) ==
  \/ \E l \in Final(wal, k) : e = EntryOf(l)
  \/ DiskCounts /\ ~HasLine(wal, k) /\ e = disk.index[k]

\* What an operation is going to write counts among what its keys may hold.
Planned ==
  \A s \in Sessions :
    \A l \in Elems(op[s].log) \cup Elems(op[s].todo) : EntryOf(l) \in maybe[l.key]

\* A replay shows a state that clients may find, and the index's own unless the
\* key has an update that is not logged.
ImageInv ==
  \A k \in Keys, e \in Entry :
    Rebuilt(e, k) => Held(e, k) /\ (~Unlogged(k) => Same(e, index[k]))

\* Lines to be logged, and lines queued, are what the index shows.
LinesInv ==
  /\ \A s \in Sessions : \A l \in Elems(op[s].log) :
       ~HasLine(op[s].todo, l.key) => Same(EntryOf(l), index[l.key])
  /\ \A m \in Sent : Same(EntryOf(m.line), index[m.line.key])

\* While Compact rewrites wal.log, index.hash has everything.
CompactInv ==
  /\ cpc \in {"truncate", "rewrite"} /\ DiskCounts => \A k \in Keys : Same(disk.index[k], index[k])
  /\ cpc = "rewrite" => \A l \in Elems(wal) : Same(EntryOf(l), index[l.key])

InStep == ImageInv /\ LinesInv /\ CompactInv

\* What replayWAL has done so far for k: nothing yet, or the last line it has read.
Reached(k) ==
  \/ \A j \in DOMAIN wal : j < rpos => wal[j].key # k
  \/ \E i \in DOMAIN wal : /\ i < rpos /\ wal[i].key = k /\ index[k] = EntryOf(wal[i])
                           /\ \A j \in DOMAIN wal : i < j /\ j < rpos => wal[j].key # k

\* Recovery ends in a state that clients may find.
ReplayInv ==
  /\ status \in {"down", "replay"} /\ header = 0 =>
       \A k \in Keys : /\ \A l \in Final(wal, k) : Held(EntryOf(l), k)
                       /\ ~HasLine(wal, k) => Held(index[k], k)
  /\ status = "replay" => header = 0 /\ \A k \in Keys : Reached(k)
  /\ status = "down" => rpos = 1 /\ (header # 0 => HeldAll)
  /\ status \in {"recovered", "up"} => HeldAll

\* The process dies only at rest, and the machine never.
Calm == QuietHalts /\ ~PowerFails

\* Index and WAL are in step until the process dies, and again after a recovery from
\* a death at rest.  After one in the middle of an operation they need not be: an
\* index that was trusted may be ahead of the WAL, and a second death may go back.
Trusted == ncrashes = 0 \/ (Calm /\ (header # 0 \/ status \in {"recovered", "up"}))

Usable == ~torn /\ (ncrashes <= 1 \/ Calm)

Clean == Garbage \notin Elems(wal)

Recoverable ==
  Usable => /\ Clean /\ Planned /\ ReplayInv
            /\ Trusted => InStep
            /\ ncrashes = 0 /\ status # "up" => wal = <<>>

Bounded == now <= MaxTime /\ ncrashes <= MaxCrashes

-----------------------------------------------------------------------------
\* A last line is a line about the key, and there is one at most.
LEMMA FinalIs ==
  ASSUME NEW S, NEW q \in Seq(S), NEW k
  PROVE  /\ \A l \in Final(q, k) : l \in Elems(q) /\ l.key = k
         /\ \A l, m \in Final(q, k) : l = m
<1>1. DOMAIN q \subseteq Nat BY SeqIs, SMT
<1>2. ASSUME NEW i \in DOMAIN q, NEW j \in DOMAIN q,
             \A m \in DOMAIN q : m > i => q[m].key # k, q[i].key = k,
             \A m \in DOMAIN q : m > j => q[m].key # k, q[j].key = k
      PROVE  i = j
  <2>1. ~(i > j) /\ ~(j > i) BY <1>2
  <2> QED BY <1>1, <2>1, SMT
<1> QED BY <1>2 DEF Final, Elems

\* A session puts its next line in the queue.
LEMMA LogIs ==
  ASSUME TypeInv, FsyncAlways, NEW s \in Sessions, Log(s)
  PROVE  /\ \A t \in Sessions : t # s => op'[t] = op[t]
         /\ op'[s].log = Tail(op[s].log) /\ op'[s].pc = "await"
         /\ op'[s].todo = op[s].todo /\ op'[s].keys = op[s].keys /\ op'[s].kind = op[s].kind
<1>1. op[s] \in OpRecord /\ op \in [Sessions -> OpRecord] BY DEF TypeInv, TypeOK
<1> DEFINE r == [op[s] EXCEPT !.log = Tail(op[s].log), !.pc = "await"]
<1>2. op' = [op EXCEPT ![s] = r] BY <1>1 DEF Log, Enqueue, AfterLog, OpRecord
<1>3. /\ r.log = Tail(op[s].log) /\ r.pc = "await"
      /\ r.todo = op[s].todo /\ r.keys = op[s].keys /\ r.kind = op[s].kind
  BY <1>1 DEF OpRecord
<1> HIDE DEF r
<1> QED BY <1>1, <1>2, <1>3

\* The update or the line an operation has done with leaves it in order.
LEMMA OpSteps ==
  ASSUME NEW s, NEW r \in OpRecord, OpOK(s, r), NEW u, u.keys = r.keys, u.kind = r.kind
  PROVE  /\ /\ r.todo # <<>> /\ u.todo = Tail(r.todo) /\ u.log = r.log
            /\ u.pc = IF Len(r.todo) = 1 THEN "log" ELSE "locked"
            => OpOK(s, u)
         /\ /\ r.pc = "log" /\ r.log # <<>> /\ u.log = Tail(r.log) /\ u.todo = r.todo /\ u.pc = "await"
            => OpOK(s, u)
         /\ /\ r.pc = "await" /\ u.log = r.log /\ u.todo = r.todo /\ u.pc = "log"
            => OpOK(s, u)
<1>0. r.todo \in Seq(Line) /\ r.log \in Seq(Line) BY DEF OpRecord
<1>1. ASSUME r.todo # <<>>, u.todo = Tail(r.todo), u.log = r.log,
             u.pc = IF Len(r.todo) = 1 THEN "log" ELSE "locked"
      PROVE  OpOK(s, u)
  <2>1. Elems(u.todo) \subseteq Elems(r.todo) BY <1>0, <1>1, ElemsTail
  <2>2. u.pc = "locked" <=> u.todo # <<>>
    <3>1. Len(u.todo) = Len(r.todo) - 1 /\ Len(r.todo) \in Nat /\ u.todo \in Seq(Line)
      BY <1>0, <1>1, SeqTail, SeqIs, SMT
    <3>2. u.todo # <<>> <=> Len(u.todo) > 0 BY <3>1, SeqIs
    <3>3. Len(r.todo) > 0 BY <1>0, <1>1, SeqIs
    <3>a. \A n \in Nat : n > 0 => (n # 1 <=> n - 1 > 0) BY SMT
    <3>4. Len(r.todo) # 1 <=> Len(u.todo) > 0 BY <3>1, <3>3, <3>a
    <3>5. u.pc = "locked" <=> Len(r.todo) # 1 BY <1>1
    <3> QED BY <3>2, <3>4, <3>5
  <2>3. u.kind = "delete" => u.pc # "locked" /\ Len(u.todo) <= 1
    <3>1. Len(u.todo) = Len(r.todo) - 1 /\ Len(r.todo) \in Nat /\ Len(r.todo) > 0
      BY <1>0, <1>1, SeqTail, SeqIs
    <3>2. u.kind = "delete" => Len(r.todo) <= 1 BY DEF OpOK
    <3>a. \A n \in Nat : n > 0 /\ n <= 1 => n = 1 /\ n - 1 <= 1 BY SMT
    <3>3. u.kind = "delete" => Len(r.todo) = 1 /\ Len(u.todo) <= 1 BY <3>1, <3>2, <3>a
    <3>4. Len(r.todo) = 1 => u.pc # "locked" BY <1>1
    <3> QED BY <3>3, <3>4
  <2>4. u.pc # "idle" /\ u.pc # "lock" BY <1>1
  <2> QED BY <1>1, <2>1, <2>2, <2>3, <2>4 DEF OpOK
<1>2. ASSUME r.pc = "log", r.log # <<>>, u.log = Tail(r.log), u.todo = r.todo, u.pc = "await"
      PROVE  OpOK(s, u)
  <2>1. Elems(u.log) \subseteq Elems(r.log) BY <1>0, <1>2, ElemsTail
  <2>2. r.todo = <<>> /\ Elems(r.todo) = {} BY <1>0, <1>2, ElemsOf DEF OpOK
  <2>3. Len(u.todo) <= 1 BY <1>2, <2>2, SMT
  <2> QED BY <1>2, <2>1, <2>2, <2>3 DEF OpOK
<1>3. ASSUME r.pc = "await", u.log = r.log, u.todo = r.todo, u.pc = "log"
      PROVE  OpOK(s, u)
  BY <1>3, SMTT(30) DEF OpOK
<1> QED BY <1>1, <1>2, <1>3

\* What an operation begins with: it logs what it applies, and each key once.
Matched(kind, K, todo, log) ==
  /\ \A l \in Elems(log) : l \in Elems(todo) /\ l.key \in K
  /\ \A l \in Elems(todo) : /\ HasLine(log, l.key)
                            /\ \A m \in Elems(log) : m.key = l.key => m = l
  /\ kind = "delete" => Len(todo) <= 1
  /\ todo = <<>> => log = <<>>

LEMMA BeginIs ==
  ASSUME TypeInv, NEW s \in Sessions, NEW kind, NEW K \in SUBSET Keys,
         NEW todo \in Seq(Line), NEW log \in Seq(Line), Begin(s, kind, K, todo, log),
         Matched(kind, K, todo, log)
  PROVE  /\ \A t \in Sessions : t # s => op'[t] = op[t]
         /\ op'[s].todo = todo /\ op'[s].log = log /\ op'[s].keys = K
         /\ op'[s].pc \in {"log", "lock"} /\ OpOK(s, op'[s])
<1> DEFINE r == [pc |-> IF todo = <<>> THEN "log" ELSE "lock", kind |-> kind, ver |-> nops + 1,
                 keys |-> K, todo |-> todo, log |-> log]
<1>1. op' = [op EXCEPT ![s] = r] /\ op \in [Sessions -> OpRecord] BY DEF Begin, TypeInv, TypeOK
<1>2. /\ r.todo = todo /\ r.log = log /\ r.keys = K /\ r.kind = kind
      /\ r.pc = IF todo = <<>> THEN "log" ELSE "lock"
  OBVIOUS
<1> USE <1>2
<1> HIDE DEF r
<1>3. OpOK(s, r)
  <2>1. \A k \in K : <<s, k>> \in MayWrite BY DEF Begin
  <2>2. r.pc \in {"lock", "locked"} <=> r.todo # <<>> OBVIOUS
  <2>3. r.pc # "idle" /\ r.pc # "locked" OBVIOUS
  <2> QED BY <2>1, <2>2, <2>3 DEF OpOK, Matched
<1>4. r.pc \in {"log", "lock"} OBVIOUS
<1> QED BY <1>1, <1>3, <1>4

\* One line, and the lines of a commit, are matched.
LEMMA OneMatched ==
  ASSUME NEW kind, NEW l
  PROVE  Matched(kind, {l.key}, <<l>>, <<l>>)
<1>1. Elems(<<l>>) = {l} BY SMT DEF Elems
<1>2. Len(<<l>>) = 1 /\ <<l>> # <<>> OBVIOUS
<1> QED BY <1>1, <1>2, SMTT(30) DEF Matched, HasLine

\* Lines p of which each is about a key of its own, followed by x or by y, which
\* hold the same lines in any orders.
LEMMA CommitMatched ==
  ASSUME NEW K, NEW p \in Seq(Line), NEW x \in Seq(Line), NEW y \in Seq(Line),
         \A l : l \in Elems(x) <=> l \in Elems(y),
         \A l \in Elems(p) : l.key \in K, \A l \in Elems(x) : l.key \in K,
         \A l, m \in Elems(p) : l.key = m.key => l = m,
         \A l, m \in Elems(x) : l.key = m.key => l = m,
         \A l \in Elems(p), m \in Elems(x) : l.key # m.key
  PROVE  /\ p \o x \in Seq(Line) /\ p \o y \in Seq(Line)
         /\ Matched("commit", K, p \o x, p \o y)
<1> DEFINE todo == p \o x
           log == p \o y
<1>1. todo \in Seq(Line) /\ log \in Seq(Line) BY SeqJoin
<1>2. \A l : l \in Elems(todo) <=> l \in Elems(p) \/ l \in Elems(x)
  <2>1. Elems(p \o x) = Elems(p) \cup Elems(x) BY ElemsJoin, SMT
  <2> QED BY <2>1
<1> USE <1>2
<1>3. \A l : l \in Elems(log) <=> l \in Elems(p) \/ l \in Elems(x)
  <2>1. Elems(p \o y) = Elems(p) \cup Elems(y) BY ElemsJoin, SMT
  <2> QED BY <2>1
<1> HIDE DEF todo, log
<1>4. \A l, m \in Elems(todo) : l.key = m.key => l = m OBVIOUS
<1>5. todo = <<>> => log = <<>>
  <2>1. todo = <<>> => Elems(todo) = {} BY <1>1, ElemsOf
  <2>2. log # <<>> => Head(log) \in Elems(log) BY <1>1, ElemsTail
  <2> QED BY <1>3, <2>1, <2>2
<1>6. Matched("commit", K, todo, log)
  <2>1. \A l \in Elems(log) : l \in Elems(todo) /\ l.key \in K BY <1>3
  <2>2. \A l \in Elems(todo) : /\ HasLine(log, l.key)
                               /\ \A m \in Elems(log) : m.key = l.key => m = l
    BY <1>3, <1>4 DEF HasLine
  <2> QED BY <1>5, <2>1, <2>2 DEF Matched
<1> QED BY <1>1, <1>6 DEF todo, log

\* The lines of a commit, in the orders in which Go ranges over its maps.
SetLines(a, ver, exp) == [i \in DOMAIN a |-> LineOf(a[i], ver, exp)]
DeleteLines(d, ver) == [i \in DOMAIN d |-> DeleteOf(d[i], ver)]

\* They are matched, whatever the orders.
LEMMA CommitLines ==
  ASSUME NEW sets \in SUBSET Keys, NEW dels \in SUBSET Keys, sets \cap dels = {},
         NEW ver \in Nat, NEW exp \in Nat,
         NEW a \in Orders(sets), NEW d \in Orders(dels), NEW e \in Orders(dels)
  PROVE  /\ SetLines(a, ver, exp) \o DeleteLines(d, ver) \in Seq(Line)
         /\ SetLines(a, ver, exp) \o DeleteLines(e, ver) \in Seq(Line)
         /\ Matched("commit", sets \cup dels, SetLines(a, ver, exp) \o DeleteLines(d, ver),
                                              SetLines(a, ver, exp) \o DeleteLines(e, ver))
<1> DEFINE p == SetLines(a, ver, exp)
           x == DeleteLines(d, ver)
           y == DeleteLines(e, ver)
<1>a. DOMAIN p = DOMAIN a /\ \A i \in DOMAIN a : p[i] = LineOf(a[i], ver, exp) BY DEF SetLines
<1>b. DOMAIN x = DOMAIN d /\ \A i \in DOMAIN d : x[i] = DeleteOf(d[i], ver) BY DEF DeleteLines
<1>c. DOMAIN y = DOMAIN e /\ \A i \in DOMAIN e : y[i] = DeleteOf(e[i], ver) BY DEF DeleteLines
<1>1. \A K \in SUBSET Keys : \A q \in Orders(K) :
        (\A i \in DOMAIN q : q[i] \in K) /\ \A k \in K : \E i \in DOMAIN q : q[i] = k
  BY DEF Orders
<1>2. \A k \in Keys : LineOf(k, ver, exp) \in Line /\ LineOf(k, ver, exp).key = k BY DEF LineOf, Line
<1>3. \A k \in Keys : DeleteOf(k, ver) \in Line /\ DeleteOf(k, ver).key = k BY DEF DeleteOf, Line
<1>4. p \in Seq(Line)
  <2>1. p \in [DOMAIN a -> Line] BY <1>1, <1>2 DEF SetLines
  <2> QED BY <2>1, LinesOfOrder
<1>5. x \in Seq(Line)
  <2>1. x \in [DOMAIN d -> Line] BY <1>1, <1>3 DEF DeleteLines
  <2> QED BY <2>1, LinesOfOrder
<1>6. y \in Seq(Line)
  <2>1. y \in [DOMAIN e -> Line] BY <1>1, <1>3 DEF DeleteLines
  <2> QED BY <2>1, LinesOfOrder
<1> HIDE DEF p, x, y
<1>7. Elems(p) = {LineOf(k, ver, exp) : k \in sets}
  <2>1. \A i \in DOMAIN a : p[i] = LineOf(a[i], ver, exp) /\ a[i] \in sets BY <1>1, <1>a
  <2>2. DOMAIN p = DOMAIN a BY <1>a
  <2>3. Elems(p) \subseteq {LineOf(k, ver, exp) : k \in sets} BY <2>1, <2>2 DEF Elems
  <2>4. {LineOf(k, ver, exp) : k \in sets} \subseteq Elems(p)
    <3>1. \A k \in sets : \E i \in DOMAIN a : a[i] = k BY <1>1
    <3>2. \A k \in sets : \E i \in DOMAIN p : p[i] = LineOf(k, ver, exp) BY <2>1, <2>2, <3>1
    <3>3. \A k \in sets : LineOf(k, ver, exp) \in Elems(p) BY <3>2 DEF Elems
    <3> QED BY <3>3
  <2> QED BY <2>3, <2>4
<1>8. Elems(x) = {DeleteOf(k, ver) : k \in dels}
  <2>1. \A i \in DOMAIN d : x[i] = DeleteOf(d[i], ver) /\ d[i] \in dels BY <1>1, <1>b
  <2>2. DOMAIN x = DOMAIN d BY <1>b
  <2>3. Elems(x) \subseteq {DeleteOf(k, ver) : k \in dels} BY <2>1, <2>2 DEF Elems
  <2>4. {DeleteOf(k, ver) : k \in dels} \subseteq Elems(x)
    <3>1. \A k \in dels : \E i \in DOMAIN d : d[i] = k BY <1>1
    <3>2. \A k \in dels : \E i \in DOMAIN x : x[i] = DeleteOf(k, ver) BY <2>1, <2>2, <3>1
    <3>3. \A k \in dels : DeleteOf(k, ver) \in Elems(x) BY <3>2 DEF Elems
    <3> QED BY <3>3
  <2> QED BY <2>3, <2>4
<1>9. Elems(y) = {DeleteOf(k, ver) : k \in dels}
  <2>1. \A i \in DOMAIN e : y[i] = DeleteOf(e[i], ver) /\ e[i] \in dels BY <1>1, <1>c
  <2>2. DOMAIN y = DOMAIN e BY <1>c
  <2>3. Elems(y) \subseteq {DeleteOf(k, ver) : k \in dels} BY <2>1, <2>2 DEF Elems
  <2>4. {DeleteOf(k, ver) : k \in dels} \subseteq Elems(y)
    <3>1. \A k \in dels : \E i \in DOMAIN e : e[i] = k BY <1>1
    <3>2. \A k \in dels : \E i \in DOMAIN y : y[i] = DeleteOf(k, ver) BY <2>1, <2>2, <3>1
    <3>3. \A k \in dels : DeleteOf(k, ver) \in Elems(y) BY <3>2 DEF Elems
    <3> QED BY <3>3
  <2> QED BY <2>3, <2>4
<1>10. \A l \in Elems(p) : l.key \in sets /\ \A m \in Elems(p) : l.key = m.key => l = m
  <2>1. \A l \in Elems(p) : \E k \in sets : l = LineOf(k, ver, exp) BY <1>7
  <2>2. \A l \in Elems(p) : l.key \in sets /\ l = LineOf(l.key, ver, exp) BY <1>2, <2>1
  <2> QED BY <2>2
<1>11. \A l \in Elems(x) : l.key \in dels /\ \A m \in Elems(x) : l.key = m.key => l = m
  <2>1. \A l \in Elems(x) : \E k \in dels : l = DeleteOf(k, ver) BY <1>8
  <2>2. \A l \in Elems(x) : l.key \in dels /\ l = DeleteOf(l.key, ver) BY <1>3, <2>1
  <2> QED BY <2>2
<1>12. \A l \in Elems(p), m \in Elems(x) : l.key # m.key BY <1>10, <1>11
<1>13. \A l : l \in Elems(x) <=> l \in Elems(y) BY <1>8, <1>9
<1> DEFINE K == sets \cup dels
<1>14. (\A l \in Elems(p) : l.key \in K) /\ (\A l \in Elems(x) : l.key \in K) BY <1>10, <1>11
<1> HIDE DEF K
<1>15. /\ p \o x \in Seq(Line) /\ p \o y \in Seq(Line)
       /\ Matched("commit", K, p \o x, p \o y)
  BY <1>4, <1>5, <1>6, <1>10, <1>11, <1>12, <1>13, <1>14, CommitMatched
<1> QED BY <1>15 DEF K, p, x, y

\* A session begins an operation.
Starts(s) ==
  \E kind \in AllKinds, K \in SUBSET Keys, todo, log \in Seq(Line) :
    Begin(s, kind, K, todo, log) /\ Matched(kind, K, todo, log)

LEMMA AllStart ==
  ASSUME TypeInv, NEW s \in Sessions
  PROVE  /\ \A k \in Keys, kind \in AllKinds, ttl \in Nat : BeginSet(s, kind, k, ttl) => Starts(s)
         /\ \A k \in Keys, kind \in AllKinds : BeginDelete(s, kind, k) => Starts(s)
         /\ \A sets, dels \in SUBSET Keys, ttl \in Nat :
              sets \cap dels = {} /\ BeginCommit(s, sets, dels, ttl) => Starts(s)
<1>0. nops + 1 \in Nat /\ now \in Nat BY SMT DEF TypeInv, TypeOK
<1>1. \A ttl \in Nat : ExpiresAt(ttl) \in Nat BY <1>0, SMT DEF ExpiresAt
<1>2. ASSUME NEW k \in Keys, NEW kind \in AllKinds, NEW ttl \in Nat, BeginSet(s, kind, k, ttl)
      PROVE  Starts(s)
  <2> DEFINE l == LineOf(k, nops + 1, ExpiresAt(ttl))
  <2>1. l \in Line /\ l.key = k BY <1>0, <1>1 DEF LineOf, Line
  <2>2. Begin(s, kind, {k}, <<l>>, <<l>>) BY <1>2 DEF BeginSet
  <2> HIDE DEF l
  <2>3. <<l>> \in Seq(Line) /\ {k} \in SUBSET Keys BY <2>1, SMT
  <2>4. Matched(kind, {k}, <<l>>, <<l>>) BY <2>1, OneMatched
  <2> QED BY <2>2, <2>3, <2>4 DEF Starts
<1>3. ASSUME NEW k \in Keys, NEW kind \in AllKinds, BeginDelete(s, kind, k) PROVE Starts(s)
  <2> DEFINE l == DeleteOf(k, nops + 1)
  <2>1. l \in Line /\ l.key = k BY <1>0 DEF DeleteOf, Line
  <2>2. Begin(s, kind, {k}, <<l>>, <<l>>) BY <1>3 DEF BeginDelete
  <2> HIDE DEF l
  <2>3. <<l>> \in Seq(Line) /\ {k} \in SUBSET Keys BY <2>1, SMT
  <2>4. Matched(kind, {k}, <<l>>, <<l>>) BY <2>1, OneMatched
  <2> QED BY <2>2, <2>3, <2>4 DEF Starts
<1>4. ASSUME NEW sets \in SUBSET Keys, NEW dels \in SUBSET Keys, NEW ttl \in Nat,
             sets \cap dels = {}, BeginCommit(s, sets, dels, ttl)
      PROVE  Starts(s)
  <2> DEFINE p(a) == SetLines(a, nops + 1, ExpiresAt(ttl))
             x(d) == DeleteLines(d, nops + 1)
  <2>1. PICK a \in Orders(sets), d \in Orders(dels), e \in Orders(dels) :
          Begin(s, "commit", sets \cup dels, p(a) \o x(d), p(a) \o x(e))
    BY <1>4 DEF BeginCommit, SetLines, DeleteLines
  <2>2. /\ p(a) \o x(d) \in Seq(Line) /\ p(a) \o x(e) \in Seq(Line)
        /\ Matched("commit", sets \cup dels, p(a) \o x(d), p(a) \o x(e))
    BY <1>0, <1>1, <1>4, CommitLines
  <2>3. sets \cup dels \in SUBSET Keys /\ "commit" \in AllKinds BY DEF AllKinds
  <2> HIDE DEF p, x
  <2> QED BY <2>1, <2>2, <2>3 DEF Starts
<1> QED BY <1>2, <1>3, <1>4

-----------------------------------------------------------------------------
\* The whole inductive invariant, and what it says while the store serves clients.
Settled == OpsInv /\ SentInv /\ Bounded /\ Recoverable

UpInv == Clean /\ Planned /\ HeldAll /\ (ncrashes = 0 \/ Calm => InStep)

LEMMA UpKept ==
  ASSUME Recoverable, status = "up", status' = "up", ncrashes' = ncrashes, torn => torn',
         UpInv /\ ~torn' => UpInv'
  PROVE  Recoverable'
<1> SUFFICES ASSUME Usable' PROVE Recoverable' BY DEF Recoverable
<1>1. Usable /\ ~torn' BY DEF Usable, Calm
<1>2. status \in {"recovered", "up"} /\ ~(status \in {"down", "replay"}) /\ status # "replay" /\ status # "down"
  OBVIOUS
<1>3. UpInv BY <1>1, <1>2 DEF Recoverable, UpInv, ReplayInv, Trusted
<1>4. UpInv' BY <1>1, <1>3
<1>5. /\ ~(status' \in {"down", "replay"}) /\ status' # "replay" /\ status' # "down"
  OBVIOUS
<1>6. ReplayInv' BY <1>4, <1>5 DEF UpInv, ReplayInv
<1>7. Trusted' => ncrashes' = 0 \/ Calm BY DEF Trusted, Calm
<1> QED BY <1>4, <1>6, <1>7 DEF Recoverable, UpInv, Calm

\* Messages have a sender and a line.
LEMMA SentIs == TypeInv => Sent \subseteq [from : Sessions, line : Line]
<1> SUFFICES ASSUME TypeInv PROVE Sent \subseteq [from : Sessions, line : Line] OBVIOUS
<1>1. walCh \in Seq(Queued) BY DEF TypeInv, TypeOK, Queued
<1>2. Elems(walCh) \subseteq Queued BY <1>1, ElemsOf
<1> QED BY <1>2 DEF Sent, Queued

LEMMA SentKept ==
  ASSUME TypeInv, SentInv, walCh' = walCh,
         \A t \in Sessions : op[t].pc = "await" => op'[t] = op[t]
  PROVE  SentInv' /\ Sent' = Sent
<1>1. Sent' = Sent BY DEF Sent
<1>2. \A m \in Sent : m.from \in Sessions BY SentIs
<1> QED BY <1>1, <1>2 DEF SentInv

\* Replay image and lines stay as they were where nothing but Unlogged changes.
LEMMA FieldsOfLine ==
  \A l \in Line : l.key \in Keys /\ EntryOf(l) \in Entry
BY DEF Line, Entry, EntryOf

\* A log without garbage holds lines.
LEMMA CleanIs ==
  ASSUME TypeInv, Clean
  PROVE  /\ \A l \in Elems(wal) : l \in Line /\ l.key \in Keys /\ EntryOf(l) \in Entry
         /\ \A k : \A l \in Final(wal, k) : l \in Elems(wal) /\ l.key = k
         /\ \A k : \A l, m \in Final(wal, k) : l = m
<1>1. wal \in Seq(Line \cup {Garbage}) BY DEF TypeInv, TypeOK
<1>2. Elems(wal) \subseteq Line \cup {Garbage} BY <1>1, ElemsOf
<1>3. \A l \in Elems(wal) : l \in Line BY <1>2 DEF Clean
<1>4. ASSUME NEW k
      PROVE  /\ \A l \in Final(wal, k) : l \in Elems(wal) /\ l.key = k
             /\ \A l, m \in Final(wal, k) : l = m
  BY <1>1, FinalIs
<1> QED BY <1>3, <1>4, FieldsOfLine

\* An operation begins: its keys may hold what it is going to write.
LEMMA BeginKept ==
  ASSUME Setting, TypeInv, Settled, NEW s \in Sessions, Starts(s)
  PROVE  Settled'
<1>1. PICK kind \in AllKinds, K \in SUBSET Keys, todo \in Seq(Line), log \in Seq(Line) :
        Begin(s, kind, K, todo, log) /\ Matched(kind, K, todo, log)
  BY DEF Starts
<1>2. /\ status = "up" /\ op[s].pc = "idle"
      /\ maybe' = [k \in Keys |->
           maybe[k] \cup {EntryOf(todo[i]) : i \in {j \in DOMAIN todo : todo[j].key = k}}]
      /\ UNCHANGED <<status, now, walCh, cpc, index, header, wal, disk, ncrashes, torn>>
  BY <1>1 DEF Begin, files
<1> USE <1>2
<1>3. /\ \A t \in Sessions : t # s => op'[t] = op[t]
      /\ op'[s].todo = todo /\ op'[s].log = log /\ op'[s].keys = K
      /\ op'[s].pc \in {"log", "lock"} /\ OpOK(s, op'[s])
  BY <1>1, BeginIs
<1>4. op'[s].pc # "locked" /\ op'[s].pc # "idle" BY <1>3
<1>5. OpsInv'
  <2>1. \A t \in Sessions : OpOK(t, op'[t]) /\ (op'[t].pc = "locked" => cpc' = "idle")
    BY <1>3, <1>4 DEF Settled, OpsInv
  <2> QED BY <2>1 DEF OpsInv
<1>6. SentInv' /\ Sent' = Sent
  <2>1. \A t \in Sessions : op[t].pc = "await" => op'[t] = op[t] BY <1>3
  <2> QED BY <2>1, SentKept DEF Settled
<1>7. Bounded' BY DEF Settled, Bounded
<1>8. \A k \in Keys : maybe[k] \subseteq maybe'[k] OBVIOUS
<1>9. ASSUME UpInv PROVE UpInv'
  <2>1. Clean' BY <1>9 DEF UpInv, Clean
  <2>2. Planned'
    <3> SUFFICES ASSUME NEW t \in Sessions, NEW l \in Elems(op'[t].log) \cup Elems(op'[t].todo)
                 PROVE  EntryOf(l) \in maybe'[l.key]
      BY DEF Planned
    <3>1. CASE t = s
      <4>1. l \in Elems(todo) BY <1>1, <1>3, <3>1 DEF Matched
      <4>2. l.key \in Keys BY <4>1, ElemsOf, FieldsOfLine
      <4> QED BY <4>1, <4>2 DEF Elems
    <3>2. CASE t # s
      <4>1. l \in Elems(op[t].log) \cup Elems(op[t].todo) BY <1>3, <3>2
      <4>2. l.key \in Keys BY <4>1, OpIs, FieldsOfLine
      <4> QED BY <1>8, <1>9, <4>1, <4>2 DEF UpInv, Planned
    <3> QED BY <3>1, <3>2
  <2>3. HeldAll' BY <1>8, <1>9 DEF UpInv, HeldAll, Held, Same
  <2>4. ASSUME InStep PROVE InStep'
    <3>1. op[s].log = <<>> /\ Elems(op[s].log) = {}
      BY OpIs, ElemsOf DEF Settled, OpsInv, OpOK
    <3>2. \A k \in Keys : Unlogged(k) => Unlogged(k)'
      BY <1>3, <1>6, <3>1 DEF Unlogged, HasLine
    <3>3. \A k \in Keys, e \in Entry : Rebuilt(e, k)' <=> Rebuilt(e, k)
      BY DEF Rebuilt, DiskCounts
    <3>4. ImageInv'
      <4> SUFFICES ASSUME NEW k \in Keys, NEW e \in Entry, Rebuilt(e, k)
                   PROVE  Held(e, k)' /\ (~Unlogged(k)' => Same(e, index[k])')
        BY <3>3 DEF ImageInv
      <4>1. Held(e, k) /\ (~Unlogged(k) => Same(e, index[k])) BY <2>4 DEF InStep, ImageInv
      <4>2. now' = now /\ index' = index /\ maybe[k] \subseteq maybe'[k] BY <1>8
      <4> QED BY <3>2, <4>1, <4>2 DEF Held, Same
    <3>5. \A l \in Elems(log) : HasLine(todo, l.key) BY <1>1 DEF Matched, HasLine
    <3>6. LinesInv' BY <1>3, <1>6, <2>4, <3>5 DEF InStep, LinesInv, Same
    <3>7. CompactInv' BY <2>4 DEF InStep, CompactInv, DiskCounts, Same
    <3> QED BY <3>4, <3>6, <3>7 DEF InStep
  <2> QED BY <1>9, <2>1, <2>2, <2>3, <2>4 DEF UpInv, Calm
<1>10. Recoverable' BY <1>9, UpKept DEF Settled
<1> QED BY <1>5, <1>6, <1>7, <1>10 DEF Settled

\* Two entries that show nothing.
LEMMA ViewNone == \A e, n : ~e.live \/ Expired(e, n) => View(e, n) = <<0, 0>>
BY DEF View

\* A line of another session, or one in the queue, is about another key.
LEMMA OwnKeys ==
  ASSUME Setting, TypeInv, OpsInv, SentInv, NEW s \in Sessions, NEW k \in op[s].keys
  PROVE  /\ \A t \in Sessions : t # s => k \notin op[t].keys /\ ~HasLine(op[t].log, k)
         /\ op[s].pc # "await" => \A m \in Sent : m.line.key # k
<1>1. k \in Keys /\ \A t \in Sessions : OpOK(t, op[t]) BY OpIs DEF OpsInv
<1>2. \A t \in Sessions : t # s => k \notin op[t].keys
  BY <1>1 DEF OpOK, Setting, OneWriter
<1>a. \A t \in Sessions : \A l \in Elems(op[t].log) : l.key \in op[t].keys BY <1>1 DEF OpOK
<1>3. \A t \in Sessions : t # s => ~HasLine(op[t].log, k) BY <1>2, <1>a DEF HasLine
<1>4. ASSUME op[s].pc # "await", NEW m \in Sent PROVE m.line.key # k
  BY <1>2, <1>4, SentIs DEF SentInv
<1> QED BY <1>2, <1>3, <1>4

\* A session with updates to make: what the invariant says of the first.
LEMMA FirstUpdate ==
  ASSUME TypeInv, Settled, NEW s \in Sessions, MayUpdate(s), NEW l, l = Head(op[s].todo)
  PROVE  /\ l \in Line /\ l \in Elems(op[s].todo)
         /\ Elems(Tail(op[s].todo)) \subseteq Elems(op[s].todo)
         /\ Elems(op[s].todo) \subseteq {l} \cup Elems(Tail(op[s].todo))
         /\ HasLine(op[s].log, l.key) /\ l.key \in op[s].keys
         /\ \A m \in Elems(op[s].log) : m.key = l.key => m = l
         /\ op[s].pc \in {"lock", "locked"} /\ status = "up" /\ cpc = "idle"
<1>1. op[s].todo # <<>> /\ op[s].todo \in Seq(Line) BY OpIs DEF MayUpdate
<1>2. /\ l \in Elems(op[s].todo) /\ Elems(Tail(op[s].todo)) \subseteq Elems(op[s].todo)
      /\ Elems(op[s].todo) \subseteq {l} \cup Elems(Tail(op[s].todo))
  BY <1>1, ElemsTail
<1>3. OpOK(s, op[s]) /\ (op[s].pc = "locked" => cpc = "idle") BY DEF Settled, OpsInv
<1>4. l \in Line BY <1>2, OpIs
<1>5. HasLine(op[s].log, l.key) /\ \A m \in Elems(op[s].log) : m.key = l.key => m = l
  BY <1>2, <1>3 DEF OpOK
<1>6. l.key \in op[s].keys BY <1>3, <1>5 DEF OpOK, HasLine
<1>7. op[s].pc = "lock" \/ op[s].pc = "locked" BY DEF MayUpdate, HoldsLocks
<1>8. cpc = "idle" BY <1>3 DEF MayUpdate, HoldsLocks, Locked
<1>9. status = "up" BY <1>7 DEF Settled, OpsInv
<1> QED BY <1>2, <1>4, <1>5, <1>6, <1>7, <1>8, <1>9

\* One update of the index, under the key's lock.
LEMMA AppliedKept ==
  ASSUME Setting, TypeInv, Settled, NEW s \in Sessions, MayUpdate(s), Applied(s),
         NEW l, l = Head(op[s].todo),
         View(index'[l.key], now) = View(EntryOf(l), now),
         \A j \in Keys : j # l.key => index'[j] = index[j],
         UNCHANGED <<status, now, walCh, cpc, header, wal, disk, ncrashes, maybe, torn>>
  PROVE  Settled'
<1> DEFINE k == l.key
<1>1. /\ l \in Line /\ l \in Elems(op[s].todo)
      /\ Elems(Tail(op[s].todo)) \subseteq Elems(op[s].todo)
      /\ Elems(op[s].todo) \subseteq {l} \cup Elems(Tail(op[s].todo))
      /\ HasLine(op[s].log, k) /\ k \in op[s].keys
      /\ \A m \in Elems(op[s].log) : m.key = k => m = l
      /\ op[s].pc \in {"lock", "locked"} /\ status = "up" /\ cpc = "idle"
  BY FirstUpdate
<1>2. /\ \A t \in Sessions : t # s => op'[t] = op[t]
      /\ op'[s].todo = Tail(op[s].todo) /\ op'[s].log = op[s].log
      /\ op'[s].pc = IF Len(op[s].todo) = 1 THEN "log" ELSE "locked"
      /\ op'[s].keys = op[s].keys /\ op'[s].kind = op[s].kind
  BY AppliedIs
<1>3. k \in Keys BY <1>1, FieldsOfLine
<1>4. op'[s].pc # "lock" /\ op[s].pc # "await" BY <1>1, <1>2
<1>5. OpsInv'
  <2>1. OpOK(s, op'[s]) BY <1>2, OpIs, OpSteps DEF Settled, OpsInv, MayUpdate
  <2>2. \A t \in Sessions : OpOK(t, op'[t]) BY <1>2, <2>1 DEF Settled, OpsInv
  <2> QED BY <1>1, <2>2 DEF OpsInv
<1>6. SentInv' /\ Sent' = Sent
  <2>1. \A t \in Sessions : op[t].pc = "await" => op'[t] = op[t] BY <1>2, <1>4
  <2> QED BY <2>1, SentKept DEF Settled
<1>7. Bounded' BY DEF Settled, Bounded
<1>8. ASSUME UpInv PROVE UpInv'
  <2>0. EntryOf(l) \in maybe[k] BY <1>1, <1>8 DEF UpInv, Planned
  <2>1. Clean' BY <1>8 DEF UpInv, Clean
  <2>2. Planned' BY <1>1, <1>2, <1>8 DEF UpInv, Planned
  <2>3. HeldAll' BY <1>8, <2>0 DEF UpInv, HeldAll, Held, Same
  <2>4. ASSUME InStep PROVE InStep'
    <3>1. Unlogged(k)' BY <1>1, <1>2, <1>4 DEF Unlogged
    <3>2. \A j : Unlogged(j) => Unlogged(j)' BY <1>2, <1>4, <1>6 DEF Unlogged
    <3>3. \A j \in Keys, e \in Entry : Rebuilt(e, j)' <=> Rebuilt(e, j) BY DEF Rebuilt, DiskCounts
    <3>4. ImageInv' BY <2>4, <3>1, <3>2, <3>3 DEF InStep, ImageInv, Held, Same
    <3>5. LinesInv'
      <4>1. ASSUME NEW t \in Sessions, t # s, NEW m \in Elems(op'[t].log), ~HasLine(op'[t].todo, m.key)
            PROVE  Same(EntryOf(m), index[m.key])'
        <5>1. m.key # k BY <1>1, <1>2, <4>1, OwnKeys DEF Settled, HasLine
        <5>2. m.key \in Keys BY <1>2, <4>1, OpIs, FieldsOfLine
        <5> QED BY <1>2, <2>4, <4>1, <5>1, <5>2 DEF InStep, LinesInv, Same
      <4>2. ASSUME NEW m \in Elems(op'[s].log), ~HasLine(op'[s].todo, m.key)
            PROVE  Same(EntryOf(m), index[m.key])'
        <5>1. CASE m.key = k BY <1>1, <1>2, <4>2, <5>1 DEF Same
        <5>2. CASE m.key # k
          <6>1. ~HasLine(op[s].todo, m.key) BY <1>1, <1>2, <4>2, <5>2 DEF HasLine
          <6>2. m.key \in Keys BY <1>2, <4>2, OpIs, FieldsOfLine
          <6> QED BY <1>2, <2>4, <4>2, <5>2, <6>1, <6>2 DEF InStep, LinesInv, Same
        <5> QED BY <5>1, <5>2
      <4>3. ASSUME NEW m \in Sent PROVE Same(EntryOf(m.line), index[m.line.key])'
        <5>1. m.line.key # k BY <1>1, <1>4, OwnKeys DEF Settled
        <5>2. m.line.key \in Keys BY SentIs, FieldsOfLine
        <5> QED BY <2>4, <5>1, <5>2 DEF InStep, LinesInv, Same
      <4> QED BY <1>6, <4>1, <4>2, <4>3 DEF LinesInv
    <3>6. CompactInv' BY <1>1 DEF CompactInv
    <3> QED BY <3>4, <3>5, <3>6 DEF InStep
  <2> QED BY <1>8, <2>1, <2>2, <2>3, <2>4 DEF UpInv, Calm
<1>9. Recoverable' BY <1>1, <1>8, UpKept DEF Settled
<1> QED BY <1>5, <1>6, <1>7, <1>9 DEF Settled

\* An operation ends: its keys have settled, and the WAL agrees.
LEMMA SettleKept ==
  ASSUME Setting, TypeInv, Settled, NEW s \in Sessions, Finished(s), Settle(s, index),
         status = "up", op[s].pc # "await", op[s].pc = "lock" \/ op[s].log = <<>>,
         UNCHANGED <<status, now, index, walCh, cpc, header, wal, disk, ncrashes, torn>>
  PROVE  Settled'
<1>1. (\A t \in Sessions : t # s => op'[t] = op[t]) /\ op'[s] = IdleOp BY FinishedIs
<1>2. IdleOp.pc = "idle" /\ Elems(IdleOp.log) = {} /\ Elems(IdleOp.todo) = {} /\ OpOK(s, IdleOp)
  BY IdleIs
<1>3. OpsInv'
  <2>1. \A t \in Sessions : OpOK(t, op'[t]) /\ (op'[t].pc = "locked" => cpc' = "idle")
    BY <1>1, <1>2 DEF Settled, OpsInv
  <2> QED BY <2>1 DEF OpsInv
<1>4. SentInv' /\ Sent' = Sent
  <2>1. \A t \in Sessions : op[t].pc = "await" => op'[t] = op[t] BY <1>1
  <2> QED BY <2>1, SentKept DEF Settled
<1>5. Bounded' BY DEF Settled, Bounded
<1>6. \A k : op[s].pc # "lock" => ~HasLine(op[s].log, k)
  <2>1. op[s].log = <<>> => Elems(op[s].log) = {} BY OpIs, ElemsOf
  <2> QED BY <2>1 DEF HasLine
<1>7. \A k \in op[s].keys : ~Unlogged(k) BY <1>6, OwnKeys DEF Settled, Unlogged
<1>8. \A k \in Keys : maybe'[k] = maybe[k] \/ (maybe'[k] = {index[k]} /\ k \in op[s].keys)
  BY DEF Settle
<1>9. ASSUME UpInv PROVE UpInv'
  <2>1. Clean' BY <1>9 DEF UpInv, Clean
  <2>2. Planned'
    <3> SUFFICES ASSUME NEW t \in Sessions, NEW l \in Elems(op'[t].log) \cup Elems(op'[t].todo)
                 PROVE  EntryOf(l) \in maybe'[l.key]
      BY DEF Planned
    <3>1. t # s BY <1>1, <1>2
    <3>2. l \in Elems(op[t].log) \cup Elems(op[t].todo) BY <1>1, <3>1
    <3>3. l.key \in Keys BY <3>2, OpIs, FieldsOfLine
    <3>4. HasLine(op[t].log, l.key) BY <3>2 DEF Settled, OpsInv, OpOK, HasLine
    <3>5. l.key \notin op[s].keys BY <3>1, <3>4, OwnKeys DEF Settled
    <3> QED BY <1>8, <1>9, <3>2, <3>3, <3>5 DEF UpInv, Planned
  <2>3. HeldAll' BY <1>8, <1>9 DEF UpInv, HeldAll, Held, Same
  <2>4. ASSUME InStep PROVE InStep'
    <3>1. \A k : Unlogged(k) => Unlogged(k)' BY <1>1, <1>4, <1>6 DEF Unlogged
    <3>2. \A k \in Keys, e \in Entry : Rebuilt(e, k)' <=> Rebuilt(e, k) BY DEF Rebuilt, DiskCounts
    <3>3. ImageInv'
      <4> SUFFICES ASSUME NEW k \in Keys, NEW e \in Entry, Rebuilt(e, k)
                   PROVE  Held(e, k)' /\ (~Unlogged(k)' => Same(e, index[k])')
        BY <3>2 DEF ImageInv
      <4>1. Held(e, k) /\ (~Unlogged(k) => Same(e, index[k])) BY <2>4 DEF InStep, ImageInv
      <4>2. CASE maybe'[k] = maybe[k] BY <3>1, <4>1, <4>2 DEF Held, Same
      <4>3. CASE maybe'[k] = {index[k]} /\ k \in op[s].keys BY <1>7, <4>1, <4>3 DEF Held, Same
      <4> QED BY <1>8, <4>2, <4>3
    <3>4. LinesInv' BY <1>1, <1>2, <1>4, <2>4 DEF InStep, LinesInv, Same
    <3>5. CompactInv' BY <2>4 DEF InStep, CompactInv, DiskCounts, Same
    <3> QED BY <3>3, <3>4, <3>5 DEF InStep
  <2> QED BY <1>9, <2>1, <2>2, <2>3, <2>4 DEF UpInv, Calm
<1>10. Recoverable' BY <1>9, UpKept DEF Settled
<1> QED BY <1>3, <1>4, <1>5, <1>10 DEF Settled

\* The steps of a session.
LEMMA SessionKept ==
  ASSUME Setting, TypeInv, Settled, NEW s \in Sessions, ApplySet(s) \/ ApplyDelete(s) \/ Finish(s)
  PROVE  Settled'
<1> DEFINE l == Head(op[s].todo)
<1>0. index \in [Keys -> Entry] BY DEF TypeInv, TypeOK
<1>1. ASSUME MayUpdate(s) PROVE l.key \in Keys /\ status = "up" /\ op[s].pc \in {"lock", "locked"}
  BY <1>1, FirstUpdate, FieldsOfLine
<1> HIDE DEF l
<1>2. CASE ApplySet(s)
  <2>1. /\ MayUpdate(s) /\ Applied(s) /\ index' = [index EXCEPT ![l.key] = EntryOf(l)]
        /\ UNCHANGED <<status, now, walCh, cpc, header, wal, disk, ncrashes, maybe, torn>>
    BY <1>2 DEF ApplySet, counters, history, l
  <2>2. index'[l.key] = EntryOf(l) /\ \A j \in Keys : j # l.key => index'[j] = index[j]
    BY <1>0, <1>1, <2>1
  <2>3. View(index'[l.key], now) = View(EntryOf(l), now) BY <2>2
  <2> QED BY <2>1, <2>2, <2>3, AppliedKept DEF l
<1>3. CASE ApplyDelete(s)
  <2> DEFINE exists == index[l.key].live
             writes == exists \/ op[s].kind = "repl"
             noop == ~exists /\ op[s].kind = "delete"
  <2>1. /\ MayUpdate(s) /\ ~l.live
        /\ index' = IF writes THEN [index EXCEPT ![l.key] = EntryOf(l)] ELSE index
        /\ IF noop THEN Finished(s) /\ Settle(s, index) ELSE Applied(s) /\ UNCHANGED maybe
        /\ UNCHANGED <<status, now, walCh, cpc, header, wal, disk, ncrashes, torn>>
    BY <1>3 DEF ApplyDelete, counters, l
  <2> USE <2>1
  <2>2. CASE noop
    <3>1. ~writes BY <2>2
    <3>2. index' = index /\ Finished(s) /\ Settle(s, index) BY <2>2, <3>1
    <3>3. op[s].pc = "lock" BY <1>1, <2>2 DEF Settled, OpsInv, OpOK
    <3>4. op[s].pc # "await" BY <3>3
    <3> QED BY <1>1, <3>2, <3>3, <3>4, SettleKept
  <2>3. CASE ~noop
    <3>1. Applied(s) /\ maybe' = maybe BY <2>3
    <3>2. ~EntryOf(l).live BY DEF EntryOf
    <3>3. ~index'[l.key].live /\ \A j \in Keys : j # l.key => index'[j] = index[j]
      BY <1>0, <1>1, <3>2
    <3>4. View(index'[l.key], now) = View(EntryOf(l), now) BY <3>2, <3>3, ViewNone
    <3> QED BY <3>1, <3>3, <3>4, AppliedKept DEF l
  <2> QED BY <2>2, <2>3
<1>4. CASE Finish(s)
  <2>1. /\ op[s].pc = "log" /\ op[s].log = <<>> /\ Finished(s) /\ Settle(s, index)
        /\ UNCHANGED <<status, now, index, walCh, cpc, header, wal, disk, ncrashes, torn>>
    BY <1>4 DEF Finish, files, counters
  <2>2. status = "up" /\ op[s].pc # "await" BY <2>1 DEF Settled, OpsInv
  <2> QED BY <2>1, <2>2, SettleKept
<1> QED BY <1>2, <1>3, <1>4

-----------------------------------------------------------------------------
\* The image of the WAL stays right if every entry it gains is the index's.
LEMMA ImageKept ==
  ASSUME ImageInv, HeldAll, now' = now, maybe' = maybe,
         \A k \in Keys : View(index'[k], now) = View(index[k], now),
         \A k \in Keys, e \in Entry :
           Rebuilt(e, k)' => Same(e, index[k]) \/ (Rebuilt(e, k) /\ (Unlogged(k) => Unlogged(k)'))
  PROVE  ImageInv' /\ HeldAll'
<1>1. HeldAll' BY DEF HeldAll, Held, Same
<1> SUFFICES ASSUME NEW k \in Keys, NEW e \in Entry, Rebuilt(e, k)'
             PROVE  Held(e, k)' /\ (~Unlogged(k)' => Same(e, index[k])')
  BY <1>1 DEF ImageInv
<1>2. CASE Same(e, index[k]) BY <1>2 DEF HeldAll, Held, Same
<1>3. CASE Rebuilt(e, k) /\ (Unlogged(k) => Unlogged(k)') BY <1>3 DEF ImageInv, Held, Same
<1> QED BY <1>2, <1>3

\* A line enters the queue.
LEMMA LogKept ==
  ASSUME Setting, TypeInv, Settled, NEW s \in Sessions, Log(s)
  PROVE  Settled'
<1> DEFINE l == Head(op[s].log)
           msg == [from |-> s, line |-> l]
<1>1. /\ op[s].pc = "log" /\ op[s].log # <<>> /\ walCh' = Append(walCh, msg)
      /\ UNCHANGED <<status, now, index, cpc, header, wal, disk, ncrashes, maybe, torn>>
  BY DEF Setting, Log, Enqueue, files, counters, history
<1> USE <1>1
<1>2. /\ \A t \in Sessions : t # s => op'[t] = op[t]
      /\ op'[s].log = Tail(op[s].log) /\ op'[s].pc = "await"
      /\ op'[s].todo = op[s].todo /\ op'[s].keys = op[s].keys /\ op'[s].kind = op[s].kind
  BY LogIs DEF Setting
<1>3. /\ l \in Elems(op[s].log) /\ Elems(Tail(op[s].log)) \subseteq Elems(op[s].log)
      /\ Elems(op[s].log) \subseteq {l} \cup Elems(Tail(op[s].log))
  BY OpIs, ElemsTail
<1>4. status = "up" /\ op[s].todo = <<>> /\ Elems(op[s].todo) = {}
  <2>1. status = "up" /\ op[s].todo = <<>> BY DEF Settled, OpsInv, OpOK
  <2> QED BY <2>1, OpIs, ElemsOf
<1>5. l \in Line /\ l.key \in op[s].keys /\ l.key \in Keys
  BY <1>3, OpIs, FieldsOfLine DEF Settled, OpsInv, OpOK
<1> HIDE DEF l
<1>6. msg \in [from : Sessions, line : Line] /\ msg.from = s /\ msg.line = l BY <1>5
<1>7. msg # Swap BY <1>6, StoreConstants
<1> HIDE DEF msg
<1>8. walCh \in Seq(Queued) /\ msg \in Queued BY <1>6 DEF TypeInv, TypeOK, Queued
<1>9. Elems(walCh') = Elems(walCh) \cup {msg} BY <1>8, ElemsAppend, SMT
<1>10. Sent' = Sent \cup {msg} BY <1>7, <1>9 DEF Sent
<1>11. OpsInv'
  <2>1. OpOK(s, op'[s]) BY <1>2, OpIs, OpSteps DEF Settled, OpsInv
  <2>2. op'[s].pc # "locked" BY <1>2
  <2>3. \A t \in Sessions : OpOK(t, op'[t]) /\ (op'[t].pc = "locked" => cpc' = "idle")
    BY <1>2, <2>1, <2>2 DEF Settled, OpsInv
  <2> QED BY <1>4, <2>3 DEF OpsInv
<1>12. SentInv'
  <2>1. \A m \in Sent : m.from \in Sessions /\ m.from # s /\ op'[m.from] = op[m.from]
    <3>1. \A m \in Sent : m.from \in Sessions /\ op[m.from].pc = "await"
      BY SentIs DEF Settled, SentInv
    <3>2. op[s].pc # "await" OBVIOUS
    <3> QED BY <1>2, <3>1, <3>2
  <2>2. \A m \in Sent' : op'[m.from].pc = "await" /\ m.line.key \in op'[m.from].keys
    BY <1>2, <1>5, <1>6, <1>10, <2>1 DEF Settled, SentInv
  <2>3. /\ Len(walCh) \in Nat /\ DOMAIN walCh = 1..Len(walCh) /\ DOMAIN walCh' = 1..(Len(walCh) + 1)
        /\ walCh'[Len(walCh) + 1] = msg
        /\ \A i \in 1..Len(walCh) : walCh'[i] = walCh[i]
    <3>1. /\ walCh' \in Seq(Queued) /\ Len(walCh') = Len(walCh) + 1
          /\ walCh'[Len(walCh) + 1] = msg /\ \A i \in 1..Len(walCh) : walCh'[i] = walCh[i]
      BY <1>8, SeqAppend, SMT
    <3> QED BY <1>8, <3>1, SeqIs
  <2>4. \A i \in DOMAIN walCh' : i \in DOMAIN walCh \/ i = Len(walCh) + 1 BY <2>3, SMT
  <2>5. \A i \in DOMAIN walCh : walCh[i] # Swap => walCh[i].from # s BY <2>1 DEF Sent, Elems
  <2>6. \A i, j \in DOMAIN walCh' :
          walCh'[i] # Swap /\ walCh'[j] # Swap /\ walCh'[i].from = walCh'[j].from => i = j
    BY <1>6, <2>3, <2>4, <2>5, SMT DEF Settled, SentInv
  <2> QED BY <2>2, <2>6 DEF SentInv
<1>13. Bounded' BY DEF Settled, Bounded
<1>14. ASSUME UpInv PROVE UpInv'
  <2>1. Clean' BY <1>14 DEF UpInv, Clean
  <2>2. Planned' BY <1>2, <1>3, <1>14 DEF UpInv, Planned
  <2>3. HeldAll' BY <1>14 DEF UpInv, HeldAll, Held, Same
  <2>4. ASSUME InStep PROVE InStep'
    <3>1. op'[s].pc # "lock" BY <1>2
    <3>2. ASSUME NEW k \in Keys, Unlogged(k) PROVE Unlogged(k)'
      <4>1. CASE \E m \in Sent : m.line.key = k BY <1>10, <4>1 DEF Unlogged
      <4>2. ASSUME NEW t \in Sessions, op[t].pc # "lock", NEW x \in Elems(op[t].log), x.key = k
            PROVE  Unlogged(k)'
        <5>1. CASE t # s
          <6>1. op'[t] = op[t] BY <1>2, <5>1
          <6> QED BY <4>2, <6>1 DEF Unlogged, HasLine
        <5>2. CASE t = s /\ x = l BY <1>6, <1>10, <4>2, <5>2 DEF Unlogged
        <5>3. CASE t = s /\ x \in Elems(Tail(op[s].log))
          <6>1. x \in Elems(op'[s].log) BY <1>2, <5>3
          <6> QED BY <3>1, <4>2, <6>1 DEF Unlogged, HasLine
        <5> QED BY <1>3, <4>2, <5>1, <5>2, <5>3
      <4> QED BY <3>2, <4>1, <4>2 DEF Unlogged, HasLine
    <3>3. \A k \in Keys, e \in Entry : Rebuilt(e, k)' => Rebuilt(e, k)
      BY DEF Rebuilt, DiskCounts
    <3>4. ImageInv' BY <1>14, <2>4, <3>2, <3>3, ImageKept DEF InStep, UpInv
    <3>5. ~HasLine(op[s].todo, l.key) BY <1>4 DEF HasLine
    <3>6. Same(EntryOf(l), index[l.key]) BY <1>3, <2>4, <3>5 DEF InStep, LinesInv
    <3>7. LinesInv'
      <4>1. \A m \in Sent' : Same(EntryOf(m.line), index[m.line.key])
        BY <1>6, <1>10, <2>4, <3>6 DEF InStep, LinesInv
      <4>2. \A t \in Sessions : /\ Elems(op'[t].log) \subseteq Elems(op[t].log)
                                /\ op'[t].todo = op[t].todo
        BY <1>2, <1>3
      <4>3. \A t \in Sessions : \A x \in Elems(op'[t].log) :
              ~HasLine(op'[t].todo, x.key) => Same(EntryOf(x), index[x.key])
        BY <2>4, <4>2 DEF InStep, LinesInv
      <4>4. now' = now /\ index' = index OBVIOUS
      <4> QED BY <4>1, <4>3, <4>4 DEF LinesInv, Same
    <3>8. CompactInv' BY <2>4 DEF InStep, CompactInv, DiskCounts, Same
    <3> QED BY <3>4, <3>7, <3>8 DEF InStep
  <2> QED BY <1>14, <2>1, <2>2, <2>3, <2>4 DEF UpInv, Calm
<1>15. Recoverable' BY <1>4, <1>14, UpKept DEF Settled
<1> QED BY <1>11, <1>12, <1>13, <1>15 DEF Settled

\* A batch reaches the file: its lines are what the index shows.
LEMMA FlushKept ==
  ASSUME Setting, TypeInv, Settled, NEW n, Flush(n)
  PROVE  Settled'
<1> DEFINE lines == [i \in 1..n |-> walCh[i].line]
<1>1. /\ status = "up" /\ n \in 1..Len(walCh) /\ (\A i \in 1..n : walCh[i] # Swap)
      /\ wal' = wal \o lines /\ walCh' = SubSeq(walCh, n + 1, Len(walCh))
      /\ UNCHANGED <<status, now, index, cpc, header, disk, ncrashes, maybe, torn>>
  BY DEF Flush, counters, history
<1>2. walCh \in Seq(Queued) /\ wal \in Seq(Line \cup {Garbage}) BY DEF TypeInv, TypeOK, Queued
<1>3. Len(walCh) \in Nat /\ DOMAIN walCh = 1..Len(walCh) /\ n \in Nat /\ n \in 0..Len(walCh)
  <2>1. Len(walCh) \in Nat /\ DOMAIN walCh = 1..Len(walCh) BY <1>2, SeqIs
  <2> QED BY <1>1, <2>1, SMT
<1>4. \A i \in 1..n : i \in DOMAIN walCh /\ walCh[i] \in Sent
  <2>1. \A i \in 1..n : i \in DOMAIN walCh BY <1>1, <1>3, SMT
  <2> QED BY <1>1, <2>1 DEF Sent, Elems
<1>5. \A i \in 1..n : lines[i] = walCh[i].line /\ lines[i] \in Line BY <1>4, SentIs
<1>6. lines \in [1..n -> Line \cup {Garbage}] /\ DOMAIN lines = 1..n BY <1>5
<1> HIDE DEF lines
<1>7. lines \in Seq(Line \cup {Garbage}) BY <1>3, <1>6, SeqMade
<1>8. /\ Elems(wal') = Elems(wal) \cup Elems(lines)
      /\ \A k : \A l \in Final(wal', k) :
           l \in Final(lines, k) \/ (l \in Final(wal, k) /\ ~HasLine(lines, k))
  <2>1. /\ Elems(wal \o lines) = Elems(wal) \cup Elems(lines)
        /\ \A k : \A l \in Final(wal \o lines, k) :
             l \in Final(lines, k) \/ (l \in Final(wal, k) /\ ~HasLine(lines, k))
    BY <1>2, <1>7, ElemsJoin
  <2> QED BY <1>1, <2>1
<1>9. \A l \in Elems(lines) : l \in Line /\ \E m \in Sent : m.line = l
  BY <1>4, <1>5, <1>6 DEF Elems
<1>10. \A k : \A l \in Final(lines, k) : l \in Elems(lines) /\ l.key = k BY <1>7, FinalIs
<1>11. /\ Elems(walCh') \subseteq Elems(walCh)
       /\ \A m \in Elems(walCh) : m \in Elems(walCh') \/ \E i \in 1..n : m = walCh[i]
  <2> DEFINE r == SubSeq(walCh, n + 1, Len(walCh))
  <2>1. /\ Elems(r) \subseteq Elems(walCh)
        /\ \A m \in Elems(walCh) : m \in Elems(r) \/ \E i \in 1..n : m = walCh[i]
    BY <1>2, <1>3, ElemsFrom, SMT
  <2> HIDE DEF r
  <2>2. walCh' = r BY <1>1 DEF r
  <2> QED BY <2>1, <2>2
<1>12. Sent' \subseteq Sent BY <1>11 DEF Sent
<1>13. \A m \in Sent : m \in Sent' \/ m.line \in Elems(lines)
  <2>1. \A i \in 1..n : walCh[i].line \in Elems(lines) BY <1>5, <1>6 DEF Elems
  <2> QED BY <1>11, <2>1 DEF Sent
<1>14. \A s \in Sessions : /\ op'[s].log = op[s].log /\ op'[s].todo = op[s].todo
                           /\ op'[s].keys = op[s].keys /\ op'[s].kind = op[s].kind
  BY FlushIs
<1>a. \A s \in Sessions : op'[s] = op[s] \/ (op[s].pc = "await" /\ op'[s].pc = "log")
  BY FlushIs
<1>b. \A s \in Sessions : (\A i \in 1..n : walCh[i].from # s) => op'[s] = op[s]
  BY FlushIs, SMT
<1>15. OpsInv'
  <2> SUFFICES ASSUME NEW s \in Sessions
               PROVE  OpOK(s, op'[s]) /\ (op'[s].pc = "locked" => cpc' = "idle")
    BY <1>1 DEF OpsInv
  <2>1. CASE op'[s] = op[s] BY <1>1, <2>1 DEF Settled, OpsInv
  <2>2. CASE op[s].pc = "await" /\ op'[s].pc = "log"
    <3>0. op[s] \in OpRecord /\ OpOK(s, op[s]) BY OpIs DEF Settled, OpsInv
    <3>1. OpOK(s, op'[s]) BY <1>14, <2>2, <3>0, OpSteps
    <3>2. op'[s].pc # "locked" BY <2>2
    <3> QED BY <3>1, <3>2
  <2> QED BY <1>a, <2>1, <2>2
<1>16. SentInv'
  <2> DEFINE rest == Len(walCh) - n
  <2>0. \A i, j \in DOMAIN walCh :
          walCh[i] # Swap /\ walCh[j] # Swap /\ walCh[i].from = walCh[j].from => i = j
    BY DEF Settled, SentInv
  <2>1. DOMAIN walCh' = 1..rest /\ \A i \in 1..rest : walCh'[i] = walCh[i + n] /\ i + n \in DOMAIN walCh
    <3>1. /\ walCh' \in Seq(Queued) /\ Len(walCh') = rest
          /\ \A i \in 1..rest : walCh'[i] = walCh[i + n] /\ i + n \in DOMAIN walCh
      BY <1>1, <1>2, <1>3, SeqFrom
    <3> QED BY <3>1, SeqIs
  <2> DEFINE at(i) == i + n
  <2>2. \A i \in 1..rest : at(i) \notin 1..n BY <1>3, SMT
  <2>3. \A i, j \in 1..rest : at(i) = at(j) => i = j BY <1>3, SMT
  <2>4. \A i \in DOMAIN walCh' : walCh'[i] = walCh[at(i)] /\ at(i) \in DOMAIN walCh BY <2>1
  <2> HIDE DEF at, rest
  <2>5. \A i, j \in DOMAIN walCh' :
          walCh'[i] # Swap /\ walCh'[j] # Swap /\ walCh'[i].from = walCh'[j].from => i = j
    <3> SUFFICES ASSUME NEW i \in DOMAIN walCh', NEW j \in DOMAIN walCh', walCh'[i] # Swap,
                        walCh'[j] # Swap, walCh'[i].from = walCh'[j].from
                 PROVE  i = j
      OBVIOUS
    <3>1. /\ walCh'[i] = walCh[at(i)] /\ at(i) \in DOMAIN walCh
          /\ walCh'[j] = walCh[at(j)] /\ at(j) \in DOMAIN walCh
      BY <2>4
    <3>2. at(i) = at(j) BY <2>0, <3>1
    <3> QED BY <2>1, <2>3, <3>2
  <2>6. ASSUME NEW i \in DOMAIN walCh', walCh'[i] # Swap
        PROVE  op'[walCh'[i].from].pc = "await" /\ walCh'[i].line.key \in op'[walCh'[i].from].keys
    <3>1. \A j \in 1..n : walCh[j].from # walCh'[i].from
      <4>1. walCh'[i] = walCh[at(i)] /\ at(i) \in DOMAIN walCh /\ at(i) \notin 1..n
        BY <2>1, <2>2, <2>4
      <4>2. \A j \in 1..n : j \in DOMAIN walCh /\ walCh[j] # Swap BY <1>1, <1>4
      <4>3. ASSUME NEW j \in 1..n, walCh[j].from = walCh'[i].from PROVE FALSE
        <5>1. j = at(i) BY <2>0, <2>6, <4>1, <4>2, <4>3
        <5> QED BY <4>1, <5>1
      <4> QED BY <4>3
    <3>2. walCh'[i] \in Sent BY <2>4, <2>6 DEF Sent, Elems
    <3>3. walCh'[i].from \in Sessions BY <3>2, SentIs
    <3>4. op'[walCh'[i].from] = op[walCh'[i].from] BY <1>b, <3>1, <3>3
    <3> QED BY <3>2, <3>4 DEF Settled, SentInv
  <2>7. \A m \in Sent' : op'[m.from].pc = "await" /\ m.line.key \in op'[m.from].keys
    BY <2>6 DEF Sent, Elems
  <2> QED BY <2>5, <2>7 DEF SentInv
<1>17. Bounded' BY <1>1 DEF Settled, Bounded
<1>18. ASSUME UpInv PROVE UpInv'
  <2>1. Clean' BY <1>8, <1>9, <1>18, StoreConstants DEF UpInv, Clean
  <2>2. Planned' BY <1>1, <1>14, <1>18 DEF UpInv, Planned
  <2>3. HeldAll' BY <1>1, <1>18 DEF UpInv, HeldAll, Held, Same
  <2>4. ASSUME InStep PROVE InStep'
    <3>1. \A l \in Elems(lines) : Same(EntryOf(l), index[l.key])
      BY <1>9, <2>4 DEF InStep, LinesInv
    <3>2. ASSUME NEW k \in Keys, ~HasLine(lines, k), Unlogged(k) PROVE Unlogged(k)'
      <4>1. CASE \E m \in Sent : m.line.key = k BY <1>13, <3>2, <4>1 DEF Unlogged, HasLine
      <4>2. CASE \E s \in Sessions : op[s].pc # "lock" /\ HasLine(op[s].log, k)
        <5>1. \A s \in Sessions : op[s].pc # "lock" => op'[s].pc # "lock" BY <1>a
        <5> QED BY <1>14, <4>2, <5>1 DEF Unlogged
      <4> QED BY <3>2, <4>1, <4>2 DEF Unlogged
    <3>3. ASSUME NEW k \in Keys, NEW e \in Entry, Rebuilt(e, k)'
          PROVE  Same(e, index[k]) \/ (Rebuilt(e, k) /\ (Unlogged(k) => Unlogged(k)'))
      <4>1. CASE \E l \in Final(wal', k) : e = EntryOf(l)
        BY <1>8, <1>10, <3>1, <3>2, <4>1 DEF Rebuilt
      <4>2. CASE DiskCounts /\ ~HasLine(wal', k) /\ e = disk.index[k]
        <5>1. ~HasLine(wal, k) /\ ~HasLine(lines, k) BY <1>8, <4>2 DEF HasLine
        <5> QED BY <3>2, <4>2, <5>1 DEF Rebuilt
      <4> QED BY <1>1, <3>3, <4>1, <4>2 DEF Rebuilt, DiskCounts
    <3>4. ImageInv' BY <1>1, <1>18, <2>4, <3>3, ImageKept DEF InStep, UpInv
    <3>5. LinesInv'
      <4>1. now' = now /\ index' = index BY <1>1
      <4>2. \A m \in Sent' : Same(EntryOf(m.line), index[m.line.key])
        BY <1>12, <2>4 DEF InStep, LinesInv
      <4>3. \A t \in Sessions : \A x \in Elems(op'[t].log) :
              ~HasLine(op'[t].todo, x.key) => Same(EntryOf(x), index[x.key])
        BY <1>14, <2>4 DEF InStep, LinesInv
      <4> QED BY <4>1, <4>2, <4>3 DEF LinesInv, Same
    <3>6. CompactInv' BY <1>1, <1>8, <2>4, <3>1 DEF InStep, CompactInv, DiskCounts, Same
    <3> QED BY <3>4, <3>5, <3>6 DEF InStep
  <2> QED BY <1>1, <1>18, <2>1, <2>2, <2>3, <2>4 DEF UpInv, Calm
<1>19. Recoverable' BY <1>1, <1>18, UpKept DEF Settled
<1> QED BY <1>15, <1>16, <1>17, <1>19 DEF Settled

-----------------------------------------------------------------------------
\* A step beside the sessions, which leaves what Get answers as it is.
LEMMA BesideKept ==
  ASSUME TypeInv, Settled, status = "up", UNCHANGED <<status, now, op, ncrashes, maybe>>, torn => torn',
         \A s \in Sessions : op[s].pc = "locked" => cpc' = "idle",
         Sent' = Sent, SentInv',
         \A k \in Keys : View(index'[k], now) = View(index[k], now),
         Clean /\ ~torn' => Clean',
         InStep /\ ~torn' => /\ CompactInv'
                             /\ \A k \in Keys, e \in Entry :
                                  Rebuilt(e, k)' => Rebuilt(e, k) \/ Same(e, index[k])
  PROVE  Settled'
<1>1. OpsInv' BY DEF Settled, OpsInv
<1>2. Bounded' BY DEF Settled, Bounded
<1>3. ASSUME UpInv, ~torn' PROVE UpInv'
  <2>1. Clean' BY <1>3 DEF UpInv
  <2>2. Planned' BY <1>3 DEF UpInv, Planned
  <2>3. HeldAll' BY <1>3 DEF UpInv, HeldAll, Held, Same
  <2>4. ASSUME InStep PROVE InStep'
    <3>1. \A k \in Keys : Unlogged(k) => Unlogged(k)' BY DEF Unlogged
    <3>2. ImageInv' BY <1>3, <2>4, <3>1, ImageKept DEF InStep, UpInv
    <3>3. \A s \in Sessions : \A l \in Elems(op[s].log) : l.key \in Keys
      BY OpIs, FieldsOfLine
    <3>4. \A m \in Sent : m.line.key \in Keys BY SentIs, FieldsOfLine
    <3>5. LinesInv' BY <2>4, <3>3, <3>4 DEF InStep, LinesInv, Same
    <3> QED BY <1>3, <2>4, <3>2, <3>5 DEF InStep
  <2> QED BY <1>3, <2>1, <2>2, <2>3, <2>4 DEF UpInv, Calm
<1>4. Recoverable' BY <1>3, UpKept DEF Settled
<1> QED BY <1>1, <1>2, <1>4 DEF Settled

\* Compact works, or the locks are free: no session is in the middle of its updates.
LEMMA NoneLocked ==
  ASSUME TypeInv, Settled, cpc # "idle" \/ ~Locked(Keys)
  PROVE  \A s \in Sessions : op[s].pc # "locked"
<1> SUFFICES ASSUME NEW s \in Sessions, op[s].pc = "locked" PROVE FALSE OBVIOUS
<1>1. OpOK(s, op[s]) /\ cpc = "idle" BY DEF Settled, OpsInv
<1>2. op[s].todo # <<>> BY <1>1 DEF OpOK
<1>3. Head(op[s].todo) \in Elems(op[s].todo) BY <1>2, OpIs, ElemsTail
<1>4. op[s].keys # {} BY <1>1, <1>3 DEF OpOK, HasLine
<1>5. op[s].keys \cap Keys # {} BY <1>4, OpIs
<1> QED BY <1>1, <1>5 DEF Locked

\* The queue as it is, or with a hand-over more or less.
LEMMA SameQueue ==
  ASSUME TypeInv, SentInv, op' = op,
         \/ walCh' = walCh
         \/ walCh' = Append(walCh, Swap)
         \/ walCh # <<>> /\ Head(walCh) = Swap /\ walCh' = Tail(walCh)
  PROVE  Sent' = Sent /\ SentInv'
<1>1. walCh \in Seq(Queued) /\ Swap \in Queued BY DEF TypeInv, TypeOK, Queued
<1>2. Len(walCh) \in Nat /\ DOMAIN walCh = 1..Len(walCh) BY <1>1, SeqIs
<1>3. ASSUME Sent' = Sent,
             \A i, j \in DOMAIN walCh' :
               walCh'[i] # Swap /\ walCh'[j] # Swap /\ walCh'[i].from = walCh'[j].from => i = j
      PROVE  SentInv'
  BY <1>3 DEF SentInv
<1>4. CASE walCh' = walCh BY <1>4 DEF Sent, SentInv
<1>5. CASE walCh' = Append(walCh, Swap)
  <2>1. Elems(walCh') = Elems(walCh) \cup {Swap} BY <1>1, <1>5, ElemsAppend, SMT
  <2>2. Sent' = Sent BY <2>1 DEF Sent
  <2>3. /\ walCh' \in Seq(Queued) /\ Len(walCh') = Len(walCh) + 1
        /\ walCh'[Len(walCh) + 1] = Swap /\ \A i \in 1..Len(walCh) : walCh'[i] = walCh[i]
    BY <1>1, <1>5, SeqAppend, SMT
  <2>4. DOMAIN walCh' = 1..(Len(walCh) + 1) BY <2>3, SeqIs
  <2>a. \A n \in Nat : \A i \in 1..(n + 1) : i \in 1..n \/ i = n + 1 BY SMT
  <2>5. \A i \in DOMAIN walCh' : i \in DOMAIN walCh \/ i = Len(walCh) + 1 BY <1>2, <2>4, <2>a
  <2>6. \A i \in DOMAIN walCh' : walCh'[i] # Swap => i \in DOMAIN walCh /\ walCh'[i] = walCh[i]
    BY <1>2, <2>3, <2>5
  <2> QED BY <1>3, <2>2, <2>6 DEF SentInv
<1>6. CASE walCh # <<>> /\ Head(walCh) = Swap /\ walCh' = Tail(walCh)
  <2>1. Elems(walCh') \subseteq Elems(walCh) /\ Elems(walCh) \subseteq {Swap} \cup Elems(walCh')
    BY <1>1, <1>6, ElemsTail
  <2>2. Sent' = Sent BY <2>1 DEF Sent
  <2>3. /\ walCh' \in Seq(Queued) /\ Len(walCh') = Len(walCh) - 1
        /\ \A i \in 1..(Len(walCh) - 1) : walCh'[i] = walCh[i + 1] /\ i + 1 \in DOMAIN walCh
    BY <1>1, <1>6, SeqTail
  <2>4. DOMAIN walCh' = 1..(Len(walCh) - 1) BY <2>3, SeqIs
  <2> DEFINE at(i) == i + 1
  <2>a. \A n \in Nat : \A i, j \in 1..(n - 1) : at(i) = at(j) => i = j BY SMT
  <2>b. \A i \in DOMAIN walCh' : walCh'[i] = walCh[at(i)] /\ at(i) \in DOMAIN walCh BY <2>3, <2>4
  <2> HIDE DEF at
  <2>5. \A i, j \in DOMAIN walCh' : at(i) = at(j) => i = j BY <1>2, <2>4, <2>a
  <2>6. \A i, j \in DOMAIN walCh' :
          walCh'[i] # Swap /\ walCh'[j] # Swap /\ walCh'[i].from = walCh'[j].from => at(i) = at(j)
    <3> SUFFICES ASSUME NEW i \in DOMAIN walCh', NEW j \in DOMAIN walCh', walCh'[i] # Swap,
                        walCh'[j] # Swap, walCh'[i].from = walCh'[j].from
                 PROVE  at(i) = at(j)
      OBVIOUS
    <3>1. /\ walCh'[i] = walCh[at(i)] /\ at(i) \in DOMAIN walCh
          /\ walCh'[j] = walCh[at(j)] /\ at(j) \in DOMAIN walCh
      BY <2>b
    <3> QED BY <3>1 DEF SentInv
  <2> QED BY <1>3, <2>2, <2>5, <2>6
<1> QED BY <1>4, <1>5, <1>6

LEMMA ViewOfDead == \A e \in Entry : \A n : View([e EXCEPT !.live = FALSE], n) = <<0, 0>>
<1>1. \A e \in Entry : ~[e EXCEPT !.live = FALSE].live BY DEF Entry
<1> QED BY <1>1, ViewNone

\* The hand-over is answered.
LEMMA FlushSwapKept ==
  ASSUME Setting, TypeInv, Settled, FlushSwap
  PROVE  Settled'
<1>1. /\ status = "up" /\ walCh # <<>> /\ Head(walCh) = Swap /\ walCh' = Tail(walCh) /\ cpc' = "idle"
      /\ UNCHANGED <<status, now, op, ncrashes, maybe, torn, index, wal, disk>>
  BY DEF FlushSwap, files, counters, history
<1> USE <1>1
<1>2. Sent' = Sent /\ SentInv' BY SameQueue DEF Settled
<1>3. Clean => Clean' BY DEF Clean
<1>4. CompactInv' BY DEF CompactInv
<1>5. \A k \in Keys, e \in Entry : Rebuilt(e, k)' => Rebuilt(e, k) BY DEF Rebuilt, DiskCounts
<1> QED BY <1>2, <1>3, <1>4, <1>5, BesideKept

\* The eviction sweep deletes what Get does not answer any more.
LEMMA EvictKept ==
  ASSUME Setting, TypeInv, CacheSound, Settled, EvictExpired
  PROVE  Settled'
<1> DEFINE gone == {k \in Keys : expiry[k] > 0 /\ now > expiry[k]}
<1>1. PICK done \in SUBSET gone :
        index' = [k \in Keys |-> IF k \in done THEN [index[k] EXCEPT !.live = FALSE] ELSE index[k]]
  BY DEF EvictExpired
<1>2. /\ status = "up" /\ ~Locked(Keys)
      /\ UNCHANGED <<status, now, op, ncrashes, maybe, torn, walCh, cpc, wal, disk>>
  BY DEF EvictExpired, counters, history
<1> USE <1>2
<1>3. index \in [Keys -> Entry] BY DEF TypeInv, TypeOK
<1>4. ASSUME NEW k \in Keys PROVE View(index'[k], now) = View(index[k], now)
  <2>1. CASE k \notin done BY <1>1, <2>1
  <2>2. CASE k \in done
    <3>1. expiry[k] > 0 /\ now > expiry[k] BY <2>2
    <3>2. ~index[k].live \/ Expired(index[k], now) BY <3>1 DEF CacheSound, Expired
    <3>3. index'[k] = [index[k] EXCEPT !.live = FALSE] BY <1>1, <2>2
    <3> QED BY <1>3, <3>2, <3>3, ViewNone, ViewOfDead
  <2> QED BY <2>1, <2>2
<1>5. Sent' = Sent /\ SentInv' BY SameQueue DEF Settled
<1>6. cpc = "idle" BY DEF Locked
<1>7. CompactInv' BY <1>6 DEF CompactInv
<1>8. Clean => Clean' BY DEF Clean
<1>9. \A k \in Keys, e \in Entry : Rebuilt(e, k)' => Rebuilt(e, k) BY DEF Rebuilt, DiskCounts
<1> QED BY <1>4, <1>5, <1>6, <1>7, <1>8, <1>9, BesideKept

\* Compact copies the index: what it drops was not there for clients.
LEMMA CompactIndexKept ==
  ASSUME Setting, TypeInv, Settled, CompactIndex
  PROVE  Settled'
<1> DEFINE kept == {k \in Keys : index[k].live /\ ~Expired(index[k], now)}
<1>1. /\ status = "up" /\ ~Locked(Keys) /\ cpc' = "truncate"
      /\ index' = [k \in Keys |-> IF k \in kept THEN index[k] ELSE [index[k] EXCEPT !.live = FALSE]]
      /\ disk' = IF PowerFails THEN [index |-> index', header |-> 0] ELSE disk
      /\ UNCHANGED <<status, now, op, ncrashes, maybe, torn, walCh, wal>>
  BY DEF CompactIndex, history
<1> USE <1>1
<1>2. index \in [Keys -> Entry] BY DEF TypeInv, TypeOK
<1>3. ASSUME NEW k \in Keys PROVE View(index'[k], now) = View(index[k], now)
  <2>1. CASE k \in kept BY <2>1
  <2>2. CASE k \notin kept
    <3>1. ~index[k].live \/ Expired(index[k], now) BY <2>2
    <3>2. index'[k] = [index[k] EXCEPT !.live = FALSE] BY <2>2
    <3> QED BY <1>2, <3>1, <3>2, ViewNone, ViewOfDead
  <2> QED BY <2>1, <2>2
<1>4. Sent' = Sent /\ SentInv' BY SameQueue DEF Settled
<1>5. \A s \in Sessions : op[s].pc # "locked" BY NoneLocked
<1>6. Clean => Clean' BY DEF Clean
<1>7. PowerFails => disk'.index = index' OBVIOUS
<1>8. CompactInv'
  <2>1. cpc' # "rewrite" OBVIOUS
  <2> QED BY <1>7, <2>1 DEF CompactInv, DiskCounts, Same
<1>9. \A k \in Keys, e \in Entry : Rebuilt(e, k)' => Rebuilt(e, k) \/ Same(e, index[k])
  BY <1>3, <1>7 DEF Rebuilt, DiskCounts, Same
<1> QED BY <1>3, <1>4, <1>5, <1>6, <1>8, <1>9, BesideKept

\* wal.log is empty, and the index has everything.
LEMMA CompactTruncateKept ==
  ASSUME Setting, TypeInv, Settled, CompactTruncate
  PROVE  Settled'
<1>1. /\ cpc = "truncate" /\ wal' = <<>> /\ cpc' = "rewrite"
      /\ UNCHANGED <<status, now, op, ncrashes, maybe, torn, walCh, index, disk>>
  BY DEF CompactTruncate, counters, history
<1> USE <1>1
<1>2. cpc # "idle" /\ status = "up" BY DEF Settled, OpsInv
<1>3. \A s \in Sessions : op[s].pc # "locked" BY <1>2, NoneLocked
<1>4. Sent' = Sent /\ SentInv' BY SameQueue DEF Settled
<1>5. Elems(wal') = {} /\ \A k : Final(wal', k) = {} BY SMT DEF Elems, Final
<1>6. Clean' BY <1>5 DEF Clean
<1>7. ASSUME InStep
      PROVE  CompactInv' /\ \A k \in Keys, e \in Entry : Rebuilt(e, k)' => Same(e, index[k])
  <2>1. DiskCounts => \A k \in Keys : Same(disk.index[k], index[k]) BY <1>7 DEF InStep, CompactInv
  <2>2. CompactInv' BY <1>5, <2>1 DEF CompactInv, DiskCounts, Same
  <2> QED BY <1>5, <2>1, <2>2 DEF Rebuilt, DiskCounts
<1> QED BY <1>2, <1>3, <1>4, <1>6, <1>7, BesideKept

\* Compact writes the index's entries into wal.log.
LEMMA CompactRewriteKept ==
  ASSUME Setting, TypeInv, Settled, CompactRewrite
  PROVE  Settled'
<1> DEFINE m == Len(wal)
           LinesOf(q) == [i \in DOMAIN q |-> LineOf(q[i], index[q[i]].ver, index[q[i]].exp)]
           present == {k \in Keys : index[k].live}
<1>1. /\ cpc = "rewrite" /\ cpc' = "swap"
      /\ UNCHANGED <<status, now, op, ncrashes, maybe, walCh, index, disk>>
  BY DEF CompactRewrite, counters
<1>2. PICK q \in Orders(present) :
        \/ wal' = LinesOf(q) \o wal /\ torn' = torn
        \/ \E j \in 1..m : wal' = LinesOf(q) \o SubSeq(wal, j + 1, m) /\ torn' = torn
        \/ torn' = TRUE
  BY DEF CompactRewrite
<1>3. torn => torn' BY <1>2
<1>4. cpc # "idle" /\ status = "up" BY <1>1 DEF Settled, OpsInv
<1>5. \A s \in Sessions : op[s].pc # "locked" BY <1>4, NoneLocked
<1>6. Sent' = Sent /\ SentInv' BY <1>1, SameQueue DEF Settled
<1>7. wal \in Seq(Line \cup {Garbage}) /\ index \in [Keys -> Entry] BY DEF TypeInv, TypeOK
<1>8. \A l \in Elems(LinesOf(q)) : l \in Line /\ EntryOf(l) = index[l.key]
  <2>1. \A i \in DOMAIN q : q[i] \in Keys /\ index[q[i]].live BY DEF Orders
  <2>2. \A k \in Keys : index[k].ver \in Nat /\ index[k].exp \in Nat /\ index[k].live \in BOOLEAN
    BY <1>7 DEF Entry
  <2>3. \A k \in Keys : /\ LineOf(k, index[k].ver, index[k].exp) \in Line
                        /\ LineOf(k, index[k].ver, index[k].exp).key = k
    BY <2>2 DEF LineOf, Line
  <2>4. ASSUME NEW k \in Keys, index[k].live
        PROVE  EntryOf(LineOf(k, index[k].ver, index[k].exp)) = index[k]
    <3>1. index[k] = [ver |-> index[k].ver, live |-> TRUE, exp |-> index[k].exp]
      <4>1. index[k] \in Entry BY <1>7
      <4>2. index[k].live = TRUE BY <2>2, <2>4
      <4> QED BY <4>1, <4>2 DEF Entry
    <3> QED BY <3>1 DEF EntryOf, LineOf
  <2>5. \A i \in DOMAIN q : LinesOf(q)[i] = LineOf(q[i], index[q[i]].ver, index[q[i]].exp)
    OBVIOUS
  <2>6. DOMAIN LinesOf(q) = DOMAIN q OBVIOUS
  <2> HIDE DEF LinesOf
  <2> DEFINE ln(k) == LineOf(k, index[k].ver, index[k].exp)
  <2>7. \A k \in Keys : index[k].live => ln(k) \in Line /\ ln(k).key = k /\ EntryOf(ln(k)) = index[k]
    BY <2>3, <2>4
  <2>8. \A i \in DOMAIN q : LinesOf(q)[i] = ln(q[i]) BY <2>5
  <2> HIDE DEF ln
  <2>9. ASSUME NEW i \in DOMAIN q PROVE LinesOf(q)[i] \in Line /\ EntryOf(LinesOf(q)[i]) = index[LinesOf(q)[i].key]
    <3>1. ln(q[i]) \in Line /\ ln(q[i]).key = q[i] /\ EntryOf(ln(q[i])) = index[q[i]] BY <2>1, <2>7
    <3>2. EntryOf(ln(q[i])) = index[ln(q[i]).key] BY <3>1
    <3> QED BY <2>8, <3>1, <3>2
  <2> QED BY <2>6, <2>9 DEF Elems
<1>9. LinesOf(q) \in Seq(Line \cup {Garbage})
  <2>1. \A i \in DOMAIN q : LinesOf(q)[i] \in Line BY <1>8 DEF Elems
  <2>2. LinesOf(q) \in [DOMAIN q -> Line] BY <2>1
  <2>3. present \in SUBSET Keys OBVIOUS
  <2>4. LinesOf(q) \in Seq(Line) BY <2>2, <2>3, LinesOfOrder
  <2> QED BY <2>4, SMT
<1> HIDE DEF LinesOf
<1>10. ASSUME ~torn' PROVE Elems(wal') \subseteq Elems(LinesOf(q)) \cup Elems(wal)
                           /\ wal' \in Seq(Line \cup {Garbage})
  <2>1. CASE wal' = LinesOf(q) \o wal
    <3>1. Elems(LinesOf(q) \o wal) = Elems(LinesOf(q)) \cup Elems(wal) BY <1>7, <1>9, ElemsJoin, SMT
    <3>2. LinesOf(q) \o wal \in Seq(Line \cup {Garbage}) BY <1>7, <1>9, SMT
    <3> QED BY <2>1, <3>1, <3>2
  <2>2. ASSUME NEW j \in 1..m, wal' = LinesOf(q) \o SubSeq(wal, j + 1, m)
        PROVE  Elems(wal') \subseteq Elems(LinesOf(q)) \cup Elems(wal) /\ wal' \in Seq(Line \cup {Garbage})
    <3>1. j \in 0..Len(wal) BY <1>7, SMT
    <3>2. /\ SubSeq(wal, j + 1, m) \in Seq(Line \cup {Garbage})
          /\ Elems(SubSeq(wal, j + 1, m)) \subseteq Elems(wal)
      BY <1>7, <3>1, SeqFrom, ElemsFrom
    <3> DEFINE r == SubSeq(wal, j + 1, m)
    <3> HIDE DEF r
    <3>a. r \in Seq(Line \cup {Garbage}) BY <3>2 DEF r
    <3>3. Elems(LinesOf(q) \o r) = Elems(LinesOf(q)) \cup Elems(r) BY <1>9, <3>a, ElemsJoin, SMT
    <3>4. LinesOf(q) \o r \in Seq(Line \cup {Garbage}) BY <1>9, <3>a, SMT
    <3>5. wal' = LinesOf(q) \o r /\ Elems(r) \subseteq Elems(wal) BY <2>2, <3>2 DEF r
    <3> QED BY <3>3, <3>4, <3>5
  <2> QED BY <1>2, <1>10, <2>1, <2>2
<1>11. Clean /\ ~torn' => Clean' BY <1>8, <1>10, StoreConstants DEF Clean
<1>12. ASSUME InStep, ~torn'
       PROVE  CompactInv' /\ \A k \in Keys, e \in Entry : Rebuilt(e, k)' => Same(e, index[k])
  <2>1. /\ DiskCounts => \A k \in Keys : Same(disk.index[k], index[k])
        /\ \A l \in Elems(wal) : Same(EntryOf(l), index[l.key])
    BY <1>1, <1>12 DEF InStep, CompactInv
  <2>2. CompactInv' BY <1>1 DEF CompactInv
  <2>3. \A l \in Elems(wal') : Same(EntryOf(l), index[l.key]) BY <1>8, <1>10, <1>12, <2>1 DEF Same
  <2>4. \A k : \A l \in Final(wal', k) : l \in Elems(wal') /\ l.key = k
    BY <1>10, <1>12, FinalIs
  <2>5. DiskCounts' <=> DiskCounts BY <1>1 DEF DiskCounts
  <2>6. ASSUME NEW k \in Keys, NEW e \in Entry, Rebuilt(e, k)' PROVE Same(e, index[k])
    <3>1. CASE \E l \in Final(wal', k) : e = EntryOf(l) BY <2>3, <2>4, <3>1
    <3>2. CASE DiskCounts /\ e = disk.index[k] BY <2>1, <3>2
    <3>3. disk'.index[k] = disk.index[k] BY <1>1
    <3> QED BY <2>5, <2>6, <3>1, <3>2, <3>3 DEF Rebuilt
  <2> QED BY <2>2, <2>6
<1> QED BY <1>1, <1>3, <1>4, <1>5, <1>6, <1>11, <1>12, BesideKept

\* Compact asks for the hand-over.
LEMMA CompactSwapKept ==
  ASSUME Setting, TypeInv, Settled, CompactSwap
  PROVE  Settled'
<1>1. /\ cpc = "swap" /\ walCh' = Append(walCh, Swap) /\ cpc' = "await"
      /\ UNCHANGED <<status, now, op, ncrashes, maybe, torn, index, wal, disk>>
  BY DEF CompactSwap, files, counters, history
<1> USE <1>1
<1>2. cpc # "idle" /\ status = "up" BY DEF Settled, OpsInv
<1>3. \A s \in Sessions : op[s].pc # "locked" BY <1>2, NoneLocked
<1>4. Sent' = Sent /\ SentInv' BY SameQueue DEF Settled
<1>5. Clean => Clean' BY DEF Clean
<1>6. CompactInv' BY DEF CompactInv
<1>7. \A k \in Keys, e \in Entry : Rebuilt(e, k)' => Rebuilt(e, k) BY DEF Rebuilt, DiskCounts
<1> QED BY <1>2, <1>3, <1>4, <1>5, <1>6, <1>7, BesideKept

-----------------------------------------------------------------------------
\* Entries that Get answers alike, it answers alike later.
LEMMA ViewTick ==
  ASSUME NEW e \in Entry, NEW f \in Entry, NEW n \in Nat, View(e, n) = View(f, n)
  PROVE  View(e, n + 1) = View(f, n + 1)
<1>1. /\ e.ver \in Nat /\ e.exp \in Nat /\ e.live \in BOOLEAN
      /\ f.ver \in Nat /\ f.exp \in Nat /\ f.live \in BOOLEAN
  BY DEF Entry
<1>2. \A x \in Entry : Expired(x, n) => Expired(x, n + 1)
  <2>1. \A x \in Entry : x.exp \in Nat BY DEF Entry
  <2> QED BY <2>1, SMT DEF Expired
<1>3. CASE e.live /\ ~Expired(e, n) /\ f.live /\ ~Expired(f, n)
  <2>1. e.exp = f.exp /\ e.ver = f.ver
    <3>1. View(e, n) = <<e.ver, e.exp>> /\ View(f, n) = <<f.ver, f.exp>> BY <1>3 DEF View
    <3>2. <<e.ver, e.exp>> = <<f.ver, f.exp>> BY <3>1
    <3> QED BY <3>2
  <2>2. Expired(e, n + 1) <=> Expired(f, n + 1) BY <2>1 DEF Expired
  <2> QED BY <1>3, <2>1, <2>2 DEF View
<1>4. CASE (~e.live \/ Expired(e, n)) /\ (~f.live \/ Expired(f, n))
  BY <1>2, <1>4, ViewNone
<1>5. CASE (e.live /\ ~Expired(e, n)) /\ (~f.live \/ Expired(f, n))
  <2>1. View(e, n) = <<e.ver, e.exp>> /\ View(f, n) = <<0, 0>> BY <1>5 DEF View
  <2>a. <<e.ver, e.exp>> = <<0, 0>> BY <2>1
  <2>2. e.ver = 0 /\ e.exp = 0 BY <2>a
  <2>3. View(f, n + 1) = <<0, 0>> BY <1>2, <1>5, ViewNone
  <2>4. View(e, n + 1) = <<0, 0>> BY <2>2 DEF View
  <2> QED BY <2>3, <2>4
<1>6. CASE (f.live /\ ~Expired(f, n)) /\ (~e.live \/ Expired(e, n))
  <2>1. View(f, n) = <<f.ver, f.exp>> /\ View(e, n) = <<0, 0>> BY <1>6 DEF View
  <2>a. <<f.ver, f.exp>> = <<0, 0>> BY <2>1
  <2>2. f.ver = 0 /\ f.exp = 0 BY <2>a
  <2>3. View(e, n + 1) = <<0, 0>> BY <1>2, <1>6, ViewNone
  <2>4. View(f, n + 1) = <<0, 0>> BY <2>2 DEF View
  <2> QED BY <2>3, <2>4
<1> QED BY <1>3, <1>4, <1>5, <1>6

LEMMA TickKept ==
  ASSUME TypeInv, Settled, Tick
  PROVE  Settled'
<1>1. /\ now < MaxTime /\ now' = now + 1
      /\ UNCHANGED <<status, index, header, op, walCh, wal, rpos, cpc, disk, ncrashes, maybe, torn>>
  BY DEF Tick, volatile, files, counters, history
<1> USE <1>1
<1>2. ASSUME NEW e \in Entry, NEW f \in Entry, View(e, now) = View(f, now)
      PROVE  View(e, now') = View(f, now')
  <2>1. now \in Nat BY DEF TypeInv, TypeOK
  <2> QED BY <1>2, <2>1, ViewTick
<1>3. /\ index \in [Keys -> Entry] /\ maybe \in [Keys -> SUBSET Entry]
      /\ disk \in [index : [Keys -> Entry], header : Nat] /\ wal \in Seq(Line \cup {Garbage})
  BY DEF TypeInv, TypeOK
<1>4. \A k \in Keys : index[k] \in Entry /\ disk.index[k] \in Entry /\ maybe[k] \in SUBSET Entry
  BY <1>3
<1>5. \A k \in Keys, e \in Entry : Held(e, k) => Held(e, k)' BY <1>2, <1>4 DEF Held, Same
<1>6. OpsInv' BY DEF Settled, OpsInv
<1>7. SentInv' /\ Sent' = Sent BY SentKept DEF Settled
<1>8. Bounded'
  <2>1. now + 1 <= MaxTime BY StoreConstants, SMT DEF TypeInv, TypeOK
  <2> QED BY <2>1 DEF Settled, Bounded
<1>9. ASSUME Usable PROVE Recoverable'
  <2>1. Clean /\ Planned /\ ReplayInv BY <1>9 DEF Settled, Recoverable
  <2>2. Clean' /\ Planned' BY <2>1 DEF Clean, Planned
  <2>3. HeldAll => HeldAll' BY <1>4, <1>5 DEF HeldAll
  <2>4. \A l \in Elems(wal) : l \in Line /\ l.key \in Keys /\ EntryOf(l) \in Entry
    BY <2>1, CleanIs
  <2>5. \A k \in Keys : \A l \in Final(wal, k) : EntryOf(l) \in Entry
    BY <2>1, CleanIs
  <2>6. \A k \in Keys : Reached(k) => Reached(k)' BY DEF Reached
  <2>7. ReplayInv' BY <1>4, <1>5, <2>1, <2>3, <2>5, <2>6 DEF ReplayInv
  <2>8. ASSUME InStep PROVE InStep'
    <3>1. \A k \in Keys : Unlogged(k)' <=> Unlogged(k) BY <1>7 DEF Unlogged
    <3>2. \A k \in Keys, e \in Entry : Rebuilt(e, k)' <=> Rebuilt(e, k)
      BY DEF Rebuilt, DiskCounts
    <3>3. ImageInv' BY <1>2, <1>4, <1>5, <2>8, <3>1, <3>2 DEF InStep, ImageInv, Same
    <3>4. \A s \in Sessions : \A l \in Elems(op[s].log) : l.key \in Keys /\ EntryOf(l) \in Entry
      BY OpIs, FieldsOfLine
    <3>5. \A m \in Sent : m.line.key \in Keys /\ EntryOf(m.line) \in Entry BY SentIs, FieldsOfLine
    <3>6. LinesInv' BY <1>2, <1>4, <1>7, <2>8, <3>4, <3>5 DEF InStep, LinesInv, Same
    <3>7. CompactInv' BY <1>2, <1>4, <2>4, <2>8 DEF InStep, CompactInv, DiskCounts, Same
    <3> QED BY <3>3, <3>6, <3>7 DEF InStep
  <2> QED BY <1>9, <2>2, <2>7, <2>8 DEF Settled, Recoverable, Usable, Trusted, Calm
<1>10. Recoverable'
  <2>1. Usable' => Usable BY DEF Usable, Calm
  <2> QED BY <1>9, <2>1 DEF Recoverable
<1> QED BY <1>6, <1>7, <1>8, <1>10 DEF Settled

-----------------------------------------------------------------------------
(* Halts and recovery. *)

\* Nobody works: nothing waits to be logged.
LEMMA RestIs ==
  ASSUME TypeInv, OpsInv, SentInv, \A s \in Sessions : op[s].pc = "idle"
  PROVE  /\ \A s \in Sessions : Elems(op[s].log) = {} /\ Elems(op[s].todo) = {}
         /\ Sent = {} /\ \A k : ~Unlogged(k)
         /\ Planned /\ LinesInv
<1>1. \A s \in Sessions : op[s].log = <<>> /\ op[s].todo = <<>> BY DEF OpsInv, OpOK
<1>2. \A s \in Sessions : Elems(op[s].log) = {} /\ Elems(op[s].todo) = {} BY <1>1, OpIs, ElemsOf
<1>3. Sent = {}
  <2> SUFFICES ASSUME NEW m \in Sent PROVE FALSE OBVIOUS
  <2>1. m.from \in Sessions /\ op[m.from].pc = "await" BY SentIs DEF SentInv
  <2> QED BY <2>1
<1>4. \A k : ~Unlogged(k) BY <1>2, <1>3 DEF Unlogged, HasLine
<1> QED BY <1>2, <1>3, <1>4 DEF Planned, LinesInv

\* After Halt nobody works, and nothing is in memory.
LEMMA HaltIs ==
  ASSUME Halt
  PROVE  /\ status' = "down" /\ walCh' = <<>> /\ cpc' = "idle" /\ rpos' = 1
         /\ UNCHANGED now
         /\ OpsInv' /\ SentInv' /\ Planned' /\ LinesInv' /\ CompactInv' /\ \A k : ~Unlogged(k)'
<1>1. /\ status' = "down" /\ walCh' = <<>> /\ cpc' = "idle" /\ rpos' = 1
      /\ op' = [s \in Sessions |-> IdleOp]
      /\ UNCHANGED now
  BY DEF Halt
<1> USE <1>1
<1>2. \A s \in Sessions : /\ op'[s].pc = "idle" /\ Elems(op'[s].log) = {} /\ Elems(op'[s].todo) = {}
                          /\ OpOK(s, op'[s])
  BY IdleIs
<1>3. Sent' = {} /\ DOMAIN walCh' = {} BY SMT DEF Sent, Elems
<1>4. OpsInv' BY <1>2 DEF OpsInv
<1>5. SentInv' BY <1>3 DEF SentInv
<1>6. Planned' /\ LinesInv' BY <1>2, <1>3 DEF Planned, LinesInv
<1>7. CompactInv' BY DEF CompactInv
<1>8. \A k : ~Unlogged(k)' BY <1>2, <1>3 DEF Unlogged, HasLine
<1> QED BY <1>4, <1>5, <1>6, <1>7, <1>8

\* The process dies, or is shut down; the files stay, save for the header's count.
LEMMA FilesStay ==
  ASSUME TypeInv, Settled, status # "down", CountedHalt, UNCHANGED <<index, wal, disk, maybe, torn>>,
         status = "up" \/ header' = header
  PROVE  Settled'
<1>1. /\ status' = "down" /\ walCh' = <<>> /\ cpc' = "idle" /\ rpos' = 1 /\ UNCHANGED now
      /\ OpsInv' /\ SentInv' /\ Planned' /\ LinesInv' /\ CompactInv' /\ \A k : ~Unlogged(k)'
  BY HaltIs DEF CountedHalt
<1> USE <1>1
<1>2. ncrashes \in Nat /\ ncrashes' = ncrashes + 1 /\ ncrashes < MaxCrashes /\ (QuietHalts => Quiet)
  BY DEF CountedHalt, TypeInv, TypeOK
<1>3. Bounded'
  <2>1. ncrashes + 1 <= MaxCrashes BY <1>2, StoreConstants, SMT
  <2> QED BY <1>2, <2>1 DEF Settled, Bounded
<1>4. ncrashes' # 0 BY <1>2, SMT
<1>5. ASSUME Usable' PROVE Recoverable'
  <2>1. (ncrashes = 0 \/ Calm) /\ Usable
    <3>0. ~torn' => ~torn OBVIOUS
    <3>1. ~torn /\ (ncrashes + 1 <= 1 \/ Calm) BY <3>0, <1>2, <1>5 DEF Usable, Calm
    <3>2. ncrashes + 1 <= 1 => ncrashes = 0 /\ ncrashes <= 1 BY <1>2, SMT
    <3> QED BY <3>1, <3>2 DEF Usable
  <2>2. Clean /\ ReplayInv /\ (Trusted => InStep) BY <2>1 DEF Settled, Recoverable
  <2>3. Clean' BY <2>2 DEF Clean
  <2>4. CASE status \in {"up", "recovered"}
    <3>1. HeldAll /\ InStep
      <4>1. status \in {"recovered", "up"} BY <2>4
      <4> QED BY <2>1, <2>2, <4>1 DEF ReplayInv, Trusted
    <3>2. HeldAll' BY <3>1 DEF HeldAll, Held, Same
    <3>3. wal \in Seq(Line \cup {Garbage}) BY DEF TypeInv, TypeOK
    <3>4. ASSUME NEW k \in Keys, NEW l \in Final(wal, k) PROVE Held(EntryOf(l), k)
      <4>1. l \in Line BY <2>2, <3>4, CleanIs
      <4>2. EntryOf(l) \in Entry BY <4>1, FieldsOfLine
      <4> QED BY <3>1, <3>4, <4>2 DEF InStep, ImageInv, Rebuilt
    <3>5. ReplayInv'
      <4>1. status' # "replay" /\ ~(status' \in {"recovered", "up"}) OBVIOUS
      <4>2. \A k \in Keys : \A l \in Final(wal', k) : Held(EntryOf(l), k)'
        BY <3>4 DEF Held, Same
      <4> QED BY <3>2, <4>1, <4>2 DEF ReplayInv, HeldAll
    <3>6. ASSUME Calm PROVE InStep'
      <4>1. \A s \in Sessions : op[s].pc = "idle" BY <1>2, <3>6 DEF Calm, Quiet
      <4>2. \A k : ~Unlogged(k) BY <4>1, RestIs DEF Settled
      <4>3. ImageInv' BY <3>1, <4>2, ZenonT(60) DEF InStep, ImageInv, Rebuilt, DiskCounts, Held, Same
      <4> QED BY <4>3 DEF InStep
    <3> QED BY <1>4, <2>3, <3>5, <3>6 DEF Recoverable, Trusted, Calm
  <2>5. CASE status = "replay"
    <3>1. header' = header /\ header = 0 /\ status \in {"down", "replay"} BY <2>2, <2>5 DEF ReplayInv
    <3>2. \A k \in Keys : /\ \A l \in Final(wal, k) : Held(EntryOf(l), k)
                          /\ ~HasLine(wal, k) => Held(index[k], k)
      BY <2>2, <3>1 DEF ReplayInv
    <3>3. status' # "replay" /\ ~(status' \in {"recovered", "up"}) OBVIOUS
    <3>4. ReplayInv' BY <3>1, <3>2, <3>3 DEF ReplayInv, Held, Same
    <3>5. ~Trusted' BY <1>4, <3>1, <3>3 DEF Trusted
    <3> QED BY <1>4, <2>3, <3>4, <3>5 DEF Recoverable
  <2>6. status \in {"up", "recovered"} \/ status = "replay" BY DEF TypeInv, TypeOK
  <2> QED BY <2>4, <2>5, <2>6
<1>6. Recoverable' BY <1>5 DEF Recoverable
<1> QED BY <1>3, <1>6 DEF Settled

\* A halt that tears a line: nothing is promised any more.
LEMMA TornKept ==
  ASSUME TypeInv, Settled, CountedHalt, torn' = TRUE
  PROVE  Settled'
<1>1. UNCHANGED now /\ OpsInv' /\ SentInv' BY HaltIs DEF CountedHalt
<1>2. ncrashes \in Nat /\ ncrashes' = ncrashes + 1 /\ ncrashes < MaxCrashes
  BY DEF CountedHalt, TypeInv, TypeOK
<1>3. ncrashes + 1 <= MaxCrashes BY <1>2, StoreConstants, SMT
<1>4. Bounded' BY <1>1, <1>2, <1>3 DEF Settled, Bounded
<1>5. Recoverable' BY DEF Recoverable, Usable
<1> QED BY <1>1, <1>4, <1>5 DEF Settled

LEMMA CloseKept ==
  ASSUME TypeInv, SwapOnce, Settled, Close \/ Crash
  PROVE  Settled'
<1>1. CASE Crash
  <2>1. /\ status # "down" /\ CountedHalt /\ UNCHANGED <<index, header, disk, maybe>>
        /\ torn' = TRUE \/ UNCHANGED <<wal, torn>>
    BY <1>1 DEF Crash, TornTail
  <2> QED BY <2>1, FilesStay, TornKept
<1>3. CASE Close /\ ~Quiet
  <2>1. /\ status = "up" /\ CountedHalt /\ UNCHANGED <<index, wal, disk, maybe, torn>>
    BY <1>3 DEF Close
  <2>2. status # "down" BY <2>1
  <2> QED BY <2>1, <2>2, FilesStay
<1>2. CASE Close /\ Quiet
  <2>1. /\ status = "up" /\ Quiet /\ CountedHalt /\ UNCHANGED <<index, disk, maybe, torn>>
        /\ wal' = wal \o [i \in 1..Len(walCh) |-> walCh[i].line]
    BY <1>2 DEF Close
  <2> USE <2>1
  <2>2. walCh \in Seq(Queued) /\ wal \in Seq(Line \cup {Garbage}) BY DEF TypeInv, TypeOK, Queued
  <2>3. Sent = {} BY RestIs DEF Settled, Quiet
  <2>4. walCh = <<>>
    <3> SUFFICES ASSUME walCh # <<>> PROVE FALSE OBVIOUS
    <3>1. 1 \in DOMAIN walCh /\ DOMAIN walCh = 1..Len(walCh) BY <2>2, SeqTail, SeqIs
    <3>2. walCh[1] = Swap BY <2>3, <3>1 DEF Sent, Elems
    <3>3. cpc = "await" BY <3>1, <3>2 DEF SwapOnce
    <3> QED BY <3>3 DEF Quiet
  <2>5. wal' = wal
    <3>1. [i \in 1..Len(walCh) |-> walCh[i].line] = <<>> BY <2>4, SMT
    <3>2. wal \o <<>> = wal BY <2>2, SMT
    <3> QED BY <3>1, <3>2
  <2>6. status # "down" OBVIOUS
  <2> QED BY <2>5, <2>6, FilesStay
<1> QED BY <1>1, <1>2, <1>3

\* The machine dies: what is left of index.hash, and the synced WAL, are enough.
LEMMA PowerLossKept ==
  ASSUME TypeInv, Settled, PowerLoss
  PROVE  Settled'
<1>a. CountedHalt /\ (torn' = TRUE \/ UNCHANGED <<wal, torn>>) BY DEF PowerLoss, TornTail
<1> SUFFICES ASSUME UNCHANGED <<wal, torn>> PROVE Settled' BY <1>a, TornKept
<1>0. /\ PowerFails /\ CountedHalt /\ UNCHANGED <<wal, disk>>
      /\ index' = disk.index /\ header' = disk.header
      /\ maybe' = [k \in Keys |-> maybe[k] \cup {e \in {disk.index[k]} : disk.header > 0}]
  BY DEF PowerLoss
<1>1. /\ status' = "down" /\ walCh' = <<>> /\ cpc' = "idle" /\ rpos' = 1 /\ UNCHANGED now
      /\ OpsInv' /\ SentInv' /\ Planned'
  BY <1>0, HaltIs DEF CountedHalt
<1>2. ncrashes \in Nat /\ ncrashes' = ncrashes + 1 /\ ncrashes < MaxCrashes
  BY <1>0 DEF CountedHalt, TypeInv, TypeOK
<1>3. Bounded'
  <2>1. ncrashes + 1 <= MaxCrashes BY <1>2, StoreConstants, SMT
  <2> QED BY <1>1, <1>2, <2>1 DEF Settled, Bounded
<1>4. ncrashes' # 0 /\ ~Calm BY <1>0, <1>2, SMT DEF Calm
<1>5. ASSUME Usable' PROVE Recoverable'
  <2>1. ncrashes = 0 /\ Usable
    <3>0. ~torn' => ~torn OBVIOUS
    <3>1. ~torn /\ ncrashes + 1 <= 1 BY <3>0, <1>1, <1>2, <1>4, <1>5 DEF Usable, Calm
    <3>2. ncrashes = 0 /\ ncrashes <= 1 BY <1>2, <3>1, SMT
    <3> QED BY <3>1, <3>2 DEF Usable
  <2>2. Clean /\ InStep BY <2>1 DEF Settled, Recoverable, Trusted
  <2>3. Clean' BY <1>0, <2>2 DEF Clean
  <2>4. wal \in Seq(Line \cup {Garbage}) /\ disk \in [index : [Keys -> Entry], header : Nat]
    BY DEF TypeInv, TypeOK
  <2>5. disk.header \in Nat /\ \A k \in Keys : disk.index[k] \in Entry BY <2>4
  <2>6. \A k \in Keys : maybe[k] \subseteq maybe'[k] BY <1>0
  <2>7. ASSUME header' # 0 PROVE HeldAll'
    <3>1. disk.header > 0 BY <1>0, <2>5, <2>7, SMT
    <3>2. \A k \in Keys : index'[k] \in maybe'[k] BY <1>0, <3>1
    <3> QED BY <3>2 DEF HeldAll, Held, Same
  <2>8. ASSUME NEW k \in Keys, NEW l \in Final(wal, k) PROVE Held(EntryOf(l), k)'
    <3>1. l \in Line BY <2>2, <2>8, CleanIs
    <3>2. EntryOf(l) \in Entry BY <3>1, FieldsOfLine
    <3>3. Held(EntryOf(l), k) BY <2>2, <2>8, <3>2 DEF InStep, ImageInv, Rebuilt
    <3> QED BY <1>1, <2>6, <3>3 DEF Held, Same
  <2>9. ASSUME NEW k \in Keys, header' = 0, ~HasLine(wal, k) PROVE Held(index[k], k)'
    <3>1. Rebuilt(disk.index[k], k) BY <1>0, <2>9 DEF Rebuilt, DiskCounts
    <3>2. Held(disk.index[k], k) BY <2>2, <2>5, <3>1 DEF InStep, ImageInv
    <3> QED BY <1>0, <1>1, <2>6, <3>2 DEF Held, Same
  <2>10. status' # "replay" /\ ~(status' \in {"recovered", "up"}) BY <1>1
  <2>11. ReplayInv' BY <1>0, <1>1, <2>7, <2>8, <2>9, <2>10 DEF ReplayInv
  <2>12. ~Trusted' BY <1>4 DEF Trusted, Calm
  <2> QED BY <1>1, <1>4, <2>3, <2>11, <2>12 DEF Recoverable
<1>6. Recoverable' BY <1>5 DEF Recoverable
<1> QED BY <1>1, <1>3, <1>6 DEF Settled

\* The kernel writes index.hash back.
LEMMA WriteBackKept ==
  ASSUME Setting, TypeInv, Settled, WriteBack
  PROVE  Settled'
<1>1. /\ PowerFails /\ disk' = [index |-> index, header |-> header]
      /\ UNCHANGED <<status, now, index, header, op, walCh, wal, rpos, cpc, ncrashes, maybe, torn>>
  BY DEF WriteBack, volatile, counters, history
<1> USE <1>1
<1>2. disk'.index = index OBVIOUS
<1>3. OpsInv' BY DEF Settled, OpsInv
<1>4. Sent' = Sent /\ SentInv' BY SameQueue DEF Settled
<1>5. Bounded' BY DEF Settled, Bounded
<1>6. ~Calm BY DEF Calm
<1>7. ASSUME Usable PROVE Recoverable'
  <2>1. /\ Clean /\ Planned /\ ReplayInv /\ (Trusted => InStep)
        /\ ncrashes = 0 /\ status # "up" => wal = <<>>
    BY <1>7 DEF Settled, Recoverable
  <2> USE <2>1
  <2>2. Clean' /\ Planned' BY DEF Clean, Planned
  <2>3. \A k \in Keys : Reached(k) => Reached(k)' BY DEF Reached
  <2>4. ReplayInv' BY <2>3 DEF ReplayInv, HeldAll, Held, Same
  <2>5. ASSUME ncrashes = 0 PROVE InStep'
    <3>1. InStep BY <2>5 DEF Trusted
    <3>2. HeldAll
      <4>1. CASE status \in {"recovered", "up"} BY <4>1 DEF ReplayInv
      <4>2. CASE status \in {"down", "replay"}
        <5>1. status # "up" BY <4>2
        <5>2. wal = <<>> BY <2>5, <5>1
        <5>3. \A k : ~HasLine(wal, k) BY <5>2, SMT DEF HasLine, Elems
        <5> QED BY <4>2, <5>3 DEF ReplayInv, HeldAll
      <4> QED BY <4>1, <4>2 DEF TypeInv, TypeOK
    <3>3. \A k \in Keys : Unlogged(k) => Unlogged(k)' BY <1>4 DEF Unlogged
    <3>4. \A k \in Keys, e \in Entry : Rebuilt(e, k)' => Rebuilt(e, k) \/ Same(e, index[k])
      BY <1>2 DEF Rebuilt, Same
    <3>5. ImageInv' BY <3>1, <3>2, <3>3, <3>4, ImageKept DEF InStep
    <3>6. LinesInv' BY <1>4, <3>1 DEF InStep, LinesInv, Same
    <3>7. CompactInv' BY <1>2, <3>1 DEF InStep, CompactInv, Same
    <3> QED BY <3>5, <3>6, <3>7 DEF InStep
  <2> QED BY <1>6, <2>2, <2>4, <2>5 DEF Recoverable, Trusted, Calm
<1>8. Recoverable'
  <2>1. Usable' => Usable BY DEF Usable, Calm
  <2> QED BY <1>7, <2>1 DEF Recoverable
<1> QED BY <1>3, <1>4, <1>5, <1>8 DEF Settled

\* A step of the recovery leaves clients, queue and Compact at rest.
LEMMA RecoveryRests ==
  ASSUME TypeInv, Settled, status # "up", UNCHANGED <<now, op, walCh, cpc, ncrashes, torn>>
  PROVE  /\ OpsInv' /\ SentInv' /\ Bounded' /\ Planned' /\ LinesInv' /\ CompactInv'
         /\ (\A k : ~Unlogged(k) /\ ~Unlogged(k)') /\ (Usable' => Usable)
<1>1. cpc = "idle" /\ \A s \in Sessions : op[s].pc = "idle" BY DEF Settled, OpsInv
<1>2. /\ \A s \in Sessions : Elems(op[s].log) = {} /\ Elems(op[s].todo) = {}
      /\ Sent = {} /\ \A k : ~Unlogged(k)
  BY <1>1, RestIs DEF Settled
<1>3. Sent' = Sent /\ SentInv' BY SameQueue DEF Settled
<1>4. \A k : ~Unlogged(k)' BY <1>2, <1>3 DEF Unlogged
<1>5. OpsInv' BY <1>1 DEF Settled, OpsInv
<1>6. Planned' /\ LinesInv' BY <1>2, <1>3 DEF Planned, LinesInv
<1>7. CompactInv' BY <1>1 DEF CompactInv
<1>8. Bounded' /\ (Usable' => Usable) BY DEF Settled, Bounded, Usable, Calm
<1> QED BY <1>2, <1>3, <1>4, <1>5, <1>6, <1>7, <1>8

LEMMA OpenKept ==
  ASSUME TypeInv, Settled, Open
  PROVE  Settled'
<1>1. /\ status = "down" /\ UNCHANGED <<now, op, walCh, rpos, cpc, index, header, wal, disk, ncrashes, maybe, torn>>
      /\ \/ header = 0 /\ status' = "replay"
         \/ header # 0 /\ status' = "recovered"
  BY DEF Open, files, counters, history
<1> USE <1>1
<1>2. status # "up" /\ status' # "up" /\ status' # "down" OBVIOUS
<1>3. /\ OpsInv' /\ SentInv' /\ Bounded' /\ Planned' /\ LinesInv' /\ CompactInv'
      /\ (\A k : ~Unlogged(k) /\ ~Unlogged(k)') /\ (Usable' => Usable)
  BY <1>2, RecoveryRests
<1>4. ASSUME Usable PROVE Recoverable'
  <2>1. Clean /\ ReplayInv /\ (Trusted => InStep) /\ (ncrashes = 0 => wal = <<>>)
    BY <1>2, <1>4 DEF Settled, Recoverable
  <2>2. Clean' BY <2>1 DEF Clean
  <2>3. rpos = 1 /\ (header # 0 => HeldAll) BY <2>1 DEF ReplayInv
  <2>4. InStep => InStep'
    BY <1>3 DEF InStep, ImageInv, Rebuilt, DiskCounts, Held, Same
  <2>5. CASE header = 0 /\ status' = "replay"
    <3>1. \A k \in Keys : /\ \A l \in Final(wal, k) : Held(EntryOf(l), k)
                          /\ ~HasLine(wal, k) => Held(index[k], k)
      BY <2>1, <2>5 DEF ReplayInv
    <3>2. \A k \in Keys : Reached(k)'
      <4>1. \A j \in DOMAIN wal : ~(j < rpos')
        <5>1. DOMAIN wal = 1..Len(wal) BY SeqIs DEF TypeInv, TypeOK
        <5> QED BY <2>3, <5>1, SMT
      <4> QED BY <4>1 DEF Reached
    <3>3. ~(status' \in {"recovered", "up"}) BY <2>5
    <3>4. ReplayInv' BY <1>2, <2>5, <3>1, <3>2, <3>3 DEF ReplayInv, Held, Same
    <3>5. Trusted' => Trusted BY <2>5, <3>3 DEF Trusted, Calm
    <3> QED BY <1>3, <2>1, <2>2, <2>4, <3>4, <3>5 DEF Recoverable
  <2>6. CASE header # 0 /\ status' = "recovered"
    <3>1. HeldAll' BY <2>3, <2>6 DEF HeldAll, Held, Same
    <3>2. status' # "replay" /\ ~(status' \in {"down", "replay"}) BY <2>6
    <3>3. ReplayInv' BY <1>2, <3>1, <3>2 DEF ReplayInv
    <3>4. Trusted' => Trusted BY <2>6 DEF Trusted, Calm
    <3> QED BY <1>3, <2>1, <2>2, <2>4, <3>3, <3>4 DEF Recoverable
  <2> QED BY <2>5, <2>6
<1>5. Recoverable' BY <1>3, <1>4 DEF Recoverable
<1> QED BY <1>3, <1>5 DEF Settled

\* No line of the log passes the test for an expired SET: it reads nanoseconds as
\* seconds.
LEMMA NoneSkipped ==
  ASSUME TypeInv, Bounded, NEW l \in Line
  PROVE  ~ReplaySkips(l)
<1>1. l.exp \in Nat /\ now \in Nat /\ now <= MaxTime BY DEF Line, TypeInv, TypeOK, Bounded
<1>2. NsPerSec \in Nat /\ NsPerSec > MaxTime /\ MaxTime \in Nat BY StoreConstants
<1>3. \A x, y \in Nat : x > 0 => x * y >= y BY SMT
<1>4. l.exp > 0 => l.exp * NsPerSec >= NsPerSec BY <1>1, <1>2, <1>3
<1>5. l.exp * NsPerSec \in Nat BY <1>1, <1>2, SMT
<1> DEFINE p == l.exp * NsPerSec
<1>6. l.exp > 0 => ~(p < now)
  <2>1. p \in Nat /\ (l.exp > 0 => p >= NsPerSec) BY <1>4, <1>5
  <2> HIDE DEF p
  <2> QED BY <1>1, <1>2, <2>1, SMT
<1> QED BY <1>6 DEF ReplaySkips

LEMMA ReplayLineKept ==
  ASSUME Setting, TypeInv, Settled, ReplayLine
  PROVE  Settled'
<1> DEFINE l == wal[rpos]
<1>1. /\ status = "replay" /\ rpos <= Len(wal) /\ l # Garbage /\ rpos' = rpos + 1
      /\ ~ReplaySkips(l) => index' = [index EXCEPT ![l.key] = EntryOf(l)]
      /\ UNCHANGED <<status, now, op, walCh, cpc, header, wal, disk, ncrashes, maybe, torn>>
  BY DEF ReplayLine, counters, history, Setting
<1> USE <1>1
<1>2. wal \in Seq(Line \cup {Garbage}) /\ rpos \in Nat \ {0} /\ index \in [Keys -> Entry]
  BY DEF TypeInv, TypeOK
<1>3. rpos \in DOMAIN wal /\ DOMAIN wal \subseteq Nat BY <1>2, SeqIs, SMT
<1>4. l \in Line BY <1>2, <1>3, SeqIs, SMT
<1>5. index' = [index EXCEPT ![l.key] = EntryOf(l)] BY <1>4, NoneSkipped DEF Settled
<1>6. l.key \in Keys BY <1>4, FieldsOfLine
<1> HIDE DEF l
<1>7. index'[l.key] = EntryOf(l) /\ \A k \in Keys : k # l.key => index'[k] = index[k]
  BY <1>2, <1>5, <1>6
<1>8. status # "up" /\ status # "down" /\ ~(status \in {"recovered", "up"}) /\ status \in {"down", "replay"}
  OBVIOUS
<1>9. /\ OpsInv' /\ SentInv' /\ Bounded' /\ Planned' /\ LinesInv' /\ CompactInv'
      /\ (\A k : ~Unlogged(k) /\ ~Unlogged(k)') /\ (Usable' => Usable)
  BY <1>8, RecoveryRests
<1>10. ASSUME Usable PROVE Recoverable'
  <2>1. Clean /\ ReplayInv /\ (ncrashes = 0 => wal = <<>>) BY <1>8, <1>10 DEF Settled, Recoverable
  <2>2. Clean' BY <2>1 DEF Clean
  <2>3. ncrashes # 0
    <3>1. wal # <<>> BY <1>2, <1>3, SeqIs, SMT
    <3> QED BY <2>1, <3>1
  <2>4. /\ header = 0 /\ \A k \in Keys : Reached(k)
        /\ \A k \in Keys : /\ \A m \in Final(wal, k) : Held(EntryOf(m), k)
                           /\ ~HasLine(wal, k) => Held(index[k], k)
    BY <1>8, <2>1 DEF ReplayInv
  <2>5. ASSUME NEW k \in Keys, ~HasLine(wal, k) PROVE Held(index[k], k)'
    <3>1. k # l.key BY <1>3, <2>5 DEF HasLine, Elems, l
    <3> QED BY <1>7, <2>4, <2>5, <3>1 DEF Held, Same
  <2>6. ASSUME NEW k \in Keys PROVE Reached(k)'
    <3>1. \A j \in DOMAIN wal : j < rpos' => j < rpos \/ j = rpos BY <1>2, <1>3, SMT
    <3>2. CASE k = l.key
      <4>1. rpos < rpos' /\ \A j \in DOMAIN wal : ~(rpos < j /\ j < rpos') BY <1>2, <1>3, SMT
      <4>2. wal[rpos].key = k /\ index'[k] = EntryOf(wal[rpos]) BY <1>7, <3>2 DEF l
      <4> QED BY <1>3, <4>1, <4>2 DEF Reached
    <3>3. CASE k # l.key
      <4>1. wal[rpos].key # k /\ index'[k] = index[k] BY <1>7, <3>3 DEF l
      <4>2. \A i \in DOMAIN wal : i < rpos => i < rpos' BY <1>2, <1>3, SMT
      <4>3. CASE \A j \in DOMAIN wal : j < rpos => wal[j].key # k
        BY <3>1, <4>1, <4>3 DEF Reached
      <4>4. ASSUME NEW i \in DOMAIN wal, i < rpos, wal[i].key = k, index[k] = EntryOf(wal[i]),
                   \A j \in DOMAIN wal : i < j /\ j < rpos => wal[j].key # k
            PROVE  Reached(k)'
        <5>1. i < rpos' /\ index'[k] = EntryOf(wal[i]) BY <4>1, <4>2, <4>4
        <5>2. \A j \in DOMAIN wal : i < j /\ j < rpos' => wal[j].key # k BY <3>1, <4>1, <4>4
        <5>3. wal' = wal OBVIOUS
        <5> QED BY <4>4, <5>1, <5>2, <5>3 DEF Reached
      <4> QED BY <2>4, <4>3, <4>4 DEF Reached
    <3> QED BY <3>2, <3>3
  <2>7. ReplayInv' BY <1>8, <2>4, <2>5, <2>6 DEF ReplayInv, Held, Same
  <2>8. ~Trusted' BY <1>8, <2>3, <2>4 DEF Trusted
  <2> QED BY <1>9, <2>2, <2>3, <2>7, <2>8 DEF Recoverable
<1>11. Recoverable' BY <1>9, <1>10 DEF Recoverable
<1> QED BY <1>9, <1>11 DEF Settled

\* A line that does not parse is met only in a torn log.
LEMMA ReplayFailsKept ==
  ASSUME TypeInv, Settled, ReplayFails
  PROVE  Settled'
<1>1. /\ status = "replay" /\ rpos <= Len(wal) /\ wal[rpos] = Garbage /\ Halt
      /\ UNCHANGED <<index, wal, disk, ncrashes, maybe, torn>>
  BY DEF ReplayFails
<1> USE <1>1
<1>2. /\ status' = "down" /\ UNCHANGED now /\ OpsInv' /\ SentInv'
  BY HaltIs
<1>3. wal \in Seq(Line \cup {Garbage}) /\ rpos \in Nat \ {0} BY DEF TypeInv, TypeOK
<1>4. rpos \in DOMAIN wal BY <1>3, SeqIs, SMT
<1>5. ~Clean BY <1>4 DEF Clean, Elems
<1>6. ~Usable BY <1>5 DEF Settled, Recoverable
<1>7. ~Usable'
  <2>0. torn \in BOOLEAN /\ torn' = torn BY <1>1 DEF TypeInv, TypeOK
  <2>1. ~torn' => ~torn BY ONLY <2>0
  <2>2. ncrashes' = ncrashes BY <1>1
  <2> QED BY <2>1, <2>2, <1>6 DEF Usable, Calm
<1> QED BY <1>2, <1>7 DEF Settled, Bounded, Recoverable

\* The last line about each key has been applied.
LEMMA ReplayEndKept ==
  ASSUME TypeInv, Settled, ReplayEnd
  PROVE  Settled'
<1>1. /\ status = "replay" /\ rpos > Len(wal) /\ status' = "recovered"
      /\ UNCHANGED <<now, op, walCh, rpos, cpc, index, header, wal, disk, ncrashes, maybe, torn>>
  BY DEF ReplayEnd, volatile, files, counters, history
<1> USE <1>1
<1>2. wal \in Seq(Line \cup {Garbage}) /\ rpos \in Nat BY DEF TypeInv, TypeOK
<1>3. \A j \in DOMAIN wal : j < rpos BY <1>2, SeqIs, SMT
<1>4. /\ status # "up" /\ status' # "up" /\ status' # "down" /\ status' # "replay"
      /\ ~(status' \in {"down", "replay"}) /\ status \in {"down", "replay"}
  OBVIOUS
<1>5. /\ OpsInv' /\ SentInv' /\ Bounded' /\ Planned' /\ LinesInv' /\ CompactInv'
      /\ (\A k : ~Unlogged(k) /\ ~Unlogged(k)') /\ (Usable' => Usable)
  BY <1>4, RecoveryRests
<1>6. ASSUME Usable PROVE Recoverable'
  <2>1. Clean /\ ReplayInv /\ (Trusted => InStep) /\ (ncrashes = 0 => wal = <<>>)
    BY <1>4, <1>6 DEF Settled, Recoverable
  <2>2. Clean' BY <2>1 DEF Clean
  <2>3. \A k \in Keys : /\ Reached(k)
                        /\ \A m \in Final(wal, k) : Held(EntryOf(m), k)
                        /\ ~HasLine(wal, k) => Held(index[k], k)
    BY <1>4, <2>1 DEF ReplayInv
  <2>4. \A k \in Keys : ~HasLine(wal, k) \/ \E m \in Final(wal, k) : index[k] = EntryOf(m)
    <3> SUFFICES ASSUME NEW k \in Keys
                 PROVE  ~HasLine(wal, k) \/ \E m \in Final(wal, k) : index[k] = EntryOf(m)
      OBVIOUS
    <3>1. CASE \A j \in DOMAIN wal : j < rpos => wal[j].key # k
      BY <1>3, <3>1 DEF HasLine, Elems
    <3>2. ASSUME NEW i \in DOMAIN wal, wal[i].key = k, index[k] = EntryOf(wal[i]),
                 \A j \in DOMAIN wal : i < j /\ j < rpos => wal[j].key # k
          PROVE  \E m \in Final(wal, k) : index[k] = EntryOf(m)
      <4>1. \A j \in DOMAIN wal : j > i => i < j BY <1>2, SeqIs
      <4>2. wal[i] \in Final(wal, k) BY <1>3, <3>2, <4>1 DEF Final
      <4> QED BY <3>2, <4>2
    <3> QED BY <2>3, <3>1, <3>2, ZenonT(60) DEF Reached
  <2>5. HeldAll BY <2>3, <2>4 DEF HeldAll
  <2>6. HeldAll' BY <2>5 DEF HeldAll, Held, Same
  <2>7. ReplayInv' BY <1>4, <2>6 DEF ReplayInv
  <2>8. CASE ncrashes = 0
    <3>1. InStep BY <2>1, <2>8 DEF Trusted
    <3>2. InStep' BY <1>5, <3>1, ZenonT(60) DEF InStep, ImageInv, Rebuilt, DiskCounts, Held, Same
    <3> QED BY <1>5, <2>1, <2>2, <2>7, <3>2 DEF Recoverable
  <2>9. CASE ncrashes # 0
    <3>1. ASSUME Calm, NEW k \in Keys, NEW e \in Entry, Rebuilt(e, k)
          PROVE  Held(e, k) /\ Same(e, index[k])
      <4>1. PICK m \in Final(wal, k) : e = EntryOf(m) BY <3>1 DEF Rebuilt, DiskCounts, Calm
      <4>2. m \in Elems(wal) /\ m.key = k BY <2>1, CleanIs
      <4>3. HasLine(wal, k) BY <4>2 DEF HasLine
      <4>4. index[k] = e BY <2>1, <2>4, <4>1, <4>3, CleanIs
      <4> QED BY <2>3, <4>1, <4>4 DEF Same
    <3>2. ASSUME Calm PROVE ImageInv'
      <4>1. \A k \in Keys, e \in Entry : Rebuilt(e, k)' => Rebuilt(e, k)
        BY DEF Rebuilt, DiskCounts
      <4>2. now' = now /\ index' = index /\ maybe' = maybe OBVIOUS
      <4> QED BY <3>1, <3>2, <4>1, <4>2 DEF ImageInv, Held, Same
    <3>3. Trusted' => InStep' BY <1>5, <2>9, <3>2 DEF InStep, Trusted, Calm
    <3> QED BY <1>5, <2>2, <2>7, <2>9, <3>3 DEF Recoverable
  <2> QED BY <2>8, <2>9
<1>7. Recoverable' BY <1>5, <1>6 DEF Recoverable
<1> QED BY <1>5, <1>7 DEF Settled

LEMMA ServeKept ==
  ASSUME TypeInv, Settled, Serve
  PROVE  Settled'
<1>1. /\ status = "recovered" /\ status' = "up" /\ maybe' = [k \in Keys |-> {index[k]}]
      /\ UNCHANGED <<now, op, walCh, rpos, cpc, index, header, wal, disk, ncrashes, torn>>
  BY DEF Serve, volatile, files, counters
<1> USE <1>1
<1>2. /\ status # "up" /\ status \in {"recovered", "up"} /\ status' # "down" /\ status' # "replay"
      /\ ~(status' \in {"down", "replay"})
  OBVIOUS
<1>3. /\ OpsInv' /\ SentInv' /\ Bounded' /\ Planned' /\ LinesInv' /\ CompactInv'
      /\ (\A k : ~Unlogged(k) /\ ~Unlogged(k)') /\ (Usable' => Usable)
  BY <1>2, RecoveryRests
<1> USE <1>3
<1>4. ASSUME Usable PROVE Recoverable'
  <2>1. Clean /\ (Trusted => InStep) BY <1>4 DEF Settled, Recoverable
  <2>2. Clean' BY <2>1 DEF Clean
  <2>3. HeldAll' BY DEF HeldAll, Held, Same
  <2>4. ReplayInv' BY <1>2, <2>3 DEF ReplayInv
  <2>5. Trusted' => Trusted BY <1>2 DEF Trusted, Calm
  <2>6. ImageInv => ImageInv' BY DEF ImageInv, Rebuilt, DiskCounts, Held, Same
  <2> QED BY <2>1, <2>2, <2>4, <2>5, <2>6 DEF Recoverable, InStep
<1>5. Recoverable' BY <1>4 DEF Recoverable
<1> QED BY <1>5 DEF Settled

LEMMA SettledInit == Init => Settled
<1> SUFFICES ASSUME Init PROVE Settled OBVIOUS
<1>1. /\ status = "down" /\ now = 0 /\ header = 0 /\ wal = <<>> /\ rpos = 1 /\ cpc = "idle"
      /\ walCh = <<>> /\ ncrashes = 0
      /\ op = [s \in Sessions |-> IdleOp] /\ index = [k \in Keys |-> NoEntry]
      /\ disk = [index |-> index, header |-> 0] /\ maybe = [k \in Keys |-> {NoEntry}]
  BY DEF Init
<1> USE <1>1
<1>2. \A s \in Sessions : /\ op[s].pc = "idle" /\ Elems(op[s].log) = {} /\ Elems(op[s].todo) = {}
                          /\ OpOK(s, op[s])
  BY IdleIs
<1>3. Sent = {} /\ DOMAIN walCh = {} /\ Elems(wal) = {} /\ \A k : Final(wal, k) = {}
  BY SMT DEF Sent, Elems, Final
<1> USE <1>3
<1>4. OpsInv BY <1>2 DEF OpsInv
<1>5. SentInv BY DEF SentInv
<1>6. Bounded BY StoreConstants, SMT DEF Bounded
<1>7. HeldAll /\ \A k \in Keys : index[k] \in maybe[k] BY DEF HeldAll, Held, Same
<1>8. disk.index = index OBVIOUS
<1>9. ImageInv BY <1>7, <1>8 DEF ImageInv, Rebuilt, Held, Same
<1>10. Planned /\ LinesInv BY <1>2 DEF Planned, LinesInv
<1>11. CompactInv BY DEF CompactInv
<1>12. ReplayInv
  <2>1. status # "replay" /\ ~(status \in {"recovered", "up"}) OBVIOUS
  <2> QED BY <1>7, <2>1 DEF ReplayInv, HeldAll
<1>13. Clean BY DEF Clean
<1> QED BY <1>4, <1>5, <1>6, <1>9, <1>10, <1>11, <1>12, <1>13 DEF Settled, Recoverable, InStep

LEMMA SettledStutters == Settled /\ UNCHANGED vars => Settled'
<1> SUFFICES ASSUME Settled, UNCHANGED vars PROVE Settled' OBVIOUS
<1>1. UNCHANGED <<status, now, index, header, op, walCh, wal, rpos, cpc, disk, ncrashes, maybe, torn>>
  BY DEF vars, volatile, files, counters, history
<1> USE <1>1
<1>2. OpsInv' /\ SentInv' /\ Bounded' BY DEF Settled, OpsInv, SentInv, Sent, Bounded
<1>3. (Clean' <=> Clean) /\ (Planned' <=> Planned) BY DEF Clean, Planned
<1>4. ReplayInv' <=> ReplayInv
  <2>1. \A e, k : Held(e, k)' <=> Held(e, k) BY DEF Held, Same
  <2>2. \A k : Reached(k)' <=> Reached(k) BY DEF Reached
  <2>3. HeldAll' <=> HeldAll BY <2>1 DEF HeldAll
  <2> QED BY <2>1, <2>2, <2>3 DEF ReplayInv
<1>5. ImageInv' <=> ImageInv BY ZenonT(60) DEF ImageInv, Rebuilt, DiskCounts, Held, Same, Unlogged, Sent
<1>6. (LinesInv' <=> LinesInv) /\ (CompactInv' <=> CompactInv)
  BY DEF LinesInv, CompactInv, DiskCounts, Same, Sent
<1>7. (Usable' <=> Usable) /\ (Trusted' <=> Trusted) BY DEF Usable, Trusted, Calm
<1>8. Recoverable' BY <1>3, <1>4, <1>5, <1>6, <1>7 DEF Settled, Recoverable, InStep
<1> QED BY <1>2, <1>8 DEF Settled

LEMMA NextSettled ==
  ASSUME Setting, TypeInv, SwapOnce, CacheSound, Settled, [Next]_vars
  PROVE  Settled'
<1>1. ASSUME NEW s \in Sessions, NEW k \in Keys, NEW kind \in Kinds \cap {"set", "blob", "repl"},
             NEW ttl \in TTLs, BeginSet(s, kind, k, ttl)
      PROVE  Settled'
  <2>1. kind \in AllKinds /\ ttl \in Nat BY StoreConstants
  <2> QED BY <1>1, <2>1, AllStart, BeginKept
<1>2. ASSUME NEW s \in Sessions, NEW k \in Keys, NEW kind \in Kinds \cap {"delete", "repl"},
             BeginDelete(s, kind, k)
      PROVE  Settled'
  <2>1. kind \in AllKinds BY StoreConstants
  <2> QED BY <1>2, <2>1, AllStart, BeginKept
<1>3. ASSUME NEW s \in Sessions, NEW k \in Keys, Persist(s, k) PROVE Settled'
  BY <1>3 DEF Persist, Setting
<1>4. ASSUME NEW s \in Sessions, NEW ttl \in TTLs, NEW sets \in SUBSET Keys, NEW dels \in SUBSET Keys,
             sets \cap dels = {}, BeginCommit(s, sets, dels, ttl)
      PROVE  Settled'
  <2>1. ttl \in Nat BY StoreConstants
  <2> QED BY <1>4, <2>1, AllStart, BeginKept
<1>5. ASSUME NEW s \in Sessions, ApplySet(s) \/ ApplyDelete(s) \/ ApplyFails(s) \/ Log(s) \/ Finish(s)
      PROVE  Settled'
  <2>1. ~ApplyFails(s) BY DEF ApplyFails, Setting
  <2> QED BY <1>5, <2>1, SessionKept, LogKept
<1>6. ASSUME NEW n \in 1..WalCap, Flush(n) \/ FlushFails(n) PROVE Settled'
  <2>1. ~FlushFails(n) BY DEF FlushFails, Setting
  <2> QED BY <1>6, <2>1, FlushKept
<1>7. CASE FlushSwap \/ Tick \/ EvictExpired BY <1>7, FlushSwapKept, TickKept, EvictKept
<1>8. CASE CompactIndex \/ CompactTruncate \/ CompactRewrite \/ CompactFails \/ CompactSwap
  <2>1. ~CompactFails BY DEF CompactFails, Setting
  <2> QED BY <1>8, <2>1, CompactIndexKept, CompactTruncateKept, CompactRewriteKept, CompactSwapKept
<1>9. CASE Close \/ Crash \/ PowerLoss \/ WriteBack
  BY <1>9, CloseKept, PowerLossKept, WriteBackKept
<1>10. CASE Open \/ ReplayLine \/ ReplayFails \/ ReplayEnd \/ Serve
  BY <1>10, OpenKept, ReplayLineKept, ReplayFailsKept, ReplayEndKept, ServeKept
<1>11. CASE UNCHANGED vars BY <1>11, SettledStutters
<1> QED BY <1>1, <1>2, <1>3, <1>4, <1>5, <1>6, <1>7, <1>8, <1>9, <1>10, <1>11 DEF Next

\* SettledSurvives, for any number of keys and sessions, any operations but PERSIST,
\* any schedule and any number of Compacts: with FsyncAlways, an index that accepts
\* its writes and one writing session per key, what a client was told outlives a
\* crash, shutdown or power loss at any point that tears no line of the WAL and the
\* recovery after it, and any number of crashes and shutdowns of a process at rest.
THEOREM SettledStateSurvives ==
  ASSUME Setting, MaxCrashes <= 1 \/ Calm
  PROVE  Spec => []SettledSurvives
<1> DEFINE Inv == TypeInv /\ SwapOnce /\ CacheSound /\ Settled
<1>0. Init => SwapOnce /\ CacheSound BY SMT DEF Init, SwapOnce, CacheSound, NoEntry
<1>1. Init => Inv BY <1>0, SettledInit, InitTyped
<1>2. Inv /\ [Next]_vars => Inv' BY NextTyped, SwapKept, NextSound, NextSettled DEF Setting
<1>3. Inv => SettledSurvives
  <2> SUFFICES ASSUME Inv, status \in {"recovered", "up"}, ~torn
               PROVE  HeldAll
    BY DEF SettledSurvives, HeldAll, Held, Same
  <2>1. ncrashes <= 1 \/ Calm
    <3>1. ncrashes <= MaxCrashes /\ ncrashes \in Nat /\ MaxCrashes \in Nat
      BY StoreConstants DEF Settled, Bounded, TypeInv, TypeOK
    <3>2. MaxCrashes <= 1 => ncrashes <= 1 BY <3>1, SMT
    <3> QED BY <3>2
  <2> QED BY <2>1 DEF Settled, Recoverable, Usable, ReplayInv
<1> QED BY <1>1, <1>2, <1>3, PTL DEF Spec
=============================================================================
