-------------------------- MODULE WalFlusher_proofs --------------------------
(* Proofs about WalFlusher, for any number of callers, any channel capacity,  *)
(* batch size and bounds.                                                     *)
EXTENDS WalFlusher, TLAPS

USE DEF config

\* Hand-over messages come from Compact and only they are treated as such.
Tagged ==
  /\ \A i \in 1..Len(walCh) : walCh[i].id = 0 <=> walCh[i].from = Compactor
  /\ \A i \in 1..Len(batch) : batch[i].from \in Callers
  /\ \A i \in 1..Len(special) : special[i].from = Compactor
  /\ fpc = "special" => special # <<>>

TypeInv == TypeOK /\ Tagged

\* FsyncAlways: the caller of a message that is on its way waits for it.
Waits(m) == m.from \in Callers => /\ m.id = cur[m.from]
                                  /\ pc[m.from] = "await"
                                  /\ reply[m.from] = "none"

\* A caller has one message on its way, in the channel or in the batch.
OneEach ==
  /\ \A i \in 1..Len(walCh) : Waits(walCh[i])
  /\ \A i \in 1..Len(batch) : Waits(batch[i])
  /\ \A i, j \in 1..Len(walCh) : walCh[i].from = walCh[j].from /\ walCh[i].from \in Callers => i = j
  /\ \A i \in 1..Len(batch), j \in 1..Len(walCh) : batch[i].from # walCh[j].from

\* Where a batch stands, and what an answer means.
Answers ==
  /\ fpc = "sync" => Ids(batch) \subseteq dirty
  /\ fpc = "signal" /\ ferr = "ok" => Ids(batch) \subseteq durable
  /\ \A c \in Callers : reply[c] = "ok" => cur[c] \in durable
  /\ \A c \in Callers : reply[c] # "none" => pc[c] = "await"
  /\ acked \subseteq durable

SyncInv == fsyncMode = "always" => OneEach /\ Answers

-----------------------------------------------------------------------------
\* The operators of sequences: what a list holds, how one is made, its first
\* element and the rest, one more element, two in a row.
LEMMA SeqIs ==
  ASSUME NEW S, NEW q \in Seq(S)
  PROVE  /\ Len(q) \in Nat /\ DOMAIN q = 1..Len(q)
         /\ \A i \in 1..Len(q) : q[i] \in S
         /\ q # <<>> <=> Len(q) > 0
OBVIOUS

LEMMA SeqMade ==
  ASSUME NEW S, NEW n \in Nat, NEW q \in [1..n -> S]
  PROVE  q \in Seq(S) /\ Len(q) = n
OBVIOUS

LEMMA SeqTail ==
  ASSUME NEW S, NEW q \in Seq(S), q # <<>>
  PROVE  /\ Head(q) = q[1] /\ Head(q) \in S
         /\ Tail(q) \in Seq(S) /\ Len(Tail(q)) = Len(q) - 1
         /\ \A i \in 1..(Len(q) - 1) : Tail(q)[i] = q[i + 1]
OBVIOUS

LEMMA SeqAppend ==
  ASSUME NEW S, NEW q \in Seq(S), NEW e \in S
  PROVE  /\ Append(q, e) \in Seq(S) /\ Len(Append(q, e)) = Len(q) + 1
         /\ \A i \in 1..Len(q) : Append(q, e)[i] = q[i]
         /\ Append(q, e)[Len(q) + 1] = e
OBVIOUS

LEMMA SeqJoin ==
  ASSUME NEW S, NEW p \in Seq(S), NEW q \in Seq(S)
  PROVE  /\ p \o q \in Seq(S) /\ Len(p \o q) = Len(p) + Len(q)
         /\ \A i \in 1..(Len(p) + Len(q)) : (p \o q)[i] = IF i <= Len(p) THEN p[i] ELSE q[i - Len(p)]
OBVIOUS

LEMMA SeqNone ==
  ASSUME NEW S, NEW q \in Seq(S)
  PROVE  q \o <<>> = q
OBVIOUS

\* The log writer starts well typed.
LEMMA InitTyped == Init => TypeInv
<1> SUFFICES ASSUME Init PROVE TypeInv BY Zenon
<1> USE DEF Init
<1>1. walCh \in Seq(Message) /\ batch \in Seq(Message) /\ special \in Seq(Message) /\ file \in Seq(Nat)
  OBVIOUS
<1>2. TypeOK BY <1>1, Zenon DEF TypeOK, Procs
<1>3. Tagged BY DEF Tagged
<1> QED BY <1>2, <1>3, Zenon DEF TypeInv

\* A message taken from the channel, and the channel without it.
LEMMA Take ==
  ASSUME TypeInv, walCh # <<>>
  PROVE  /\ Head(walCh) \in Message /\ Tail(walCh) \in Seq(Message)
         /\ Head(walCh) = walCh[1] /\ 1 \in 1..Len(walCh)
         /\ \A i \in 1..Len(Tail(walCh)) : Tail(walCh)[i] = walCh[i + 1] /\ i + 1 \in 1..Len(walCh)
<1>1. walCh \in Seq(Message) BY Zenon DEF TypeInv, TypeOK
<1>2. Len(walCh) \in Nat \ {0} BY <1>1, SeqIs
<1>3. /\ Head(walCh) \in Message /\ Tail(walCh) \in Seq(Message)
      /\ Len(Tail(walCh)) = Len(walCh) - 1
      /\ \A i \in 1..Len(Tail(walCh)) : Tail(walCh)[i] = walCh[i + 1]
  BY <1>1, SeqTail, Zenon
<1>4. Head(walCh) = walCh[1] BY <1>1
<1> QED BY <1>2, <1>3, <1>4

\* The callers and Compact: writeWAL, the hand-over, Close.
LEMMA CallerTyped ==
  ASSUME TypeInv, NEW c \in Callers,
         Call(c) \/ CheckErr(c) \/ ClearErr(c) \/ Send(c) \/ Return(c)
  PROVE  TypeInv'
<1> USE DEF Procs
<1>1. CASE Call(c)
  BY <1>1 DEF Call, TypeInv, TypeOK, Tagged, chanVars, flushVars, diskVars
<1>2. CASE CheckErr(c)
  <2>1. /\ pc' \in [Procs -> {"idle", "check", "clear", "send", "await", "panic"}]
        /\ loaded' \in [Callers -> {"none", "err", "nil"}]
    BY <1>2, Zenon DEF CheckErr, TypeInv, TypeOK
  <2>2. TypeOK' BY <1>2, <2>1 DEF CheckErr, TypeInv, TypeOK, chanVars, flushVars, diskVars
  <2>3. Tagged' BY <1>2, Zenon DEF CheckErr, TypeInv, Tagged, chanVars, flushVars
  <2> QED BY <2>2, <2>3, Zenon DEF TypeInv
<1>3. CASE ClearErr(c)
  BY <1>3 DEF ClearErr, TypeInv, TypeOK, Tagged, flushVars, diskVars
<1>4. CASE Send(c)
  <2> DEFINE m == [from |-> c, id |-> sent + 1]
  <2>1. walCh \in Seq(Message) /\ sent \in Nat /\ m \in Message BY DEF TypeInv, TypeOK, Message
  <2>2. walCh' = Append(walCh, m) BY <1>4, Zenon DEF Send, NewMessage
  <2>3. m.id # 0 /\ m.from # Compactor BY <2>1, ConstantsOK
  <2> HIDE DEF m
  <2>4. walCh' \in Seq(Message) BY <2>1, <2>2, SeqAppend, Zenon
  <2>5. \A i \in 1..Len(walCh') : walCh'[i].id = 0 <=> walCh'[i].from = Compactor
    BY <2>1, <2>2, <2>3, SeqAppend, SeqIs DEF TypeInv, Tagged
  <2>6. TypeOK'
    <3>1. acked' \in SUBSET Nat
      <4>1. acked' = acked \/ acked' = acked \cup {sent + 1} BY <1>4, Zenon DEF Send
      <4>2. acked \in SUBSET Nat /\ sent + 1 \in Nat BY DEF TypeInv, TypeOK
      <4> QED BY <4>1, <4>2, Zenon
    <3>2. pc' = [pc EXCEPT ![c] = "await"] \/ pc' = [pc EXCEPT ![c] = "idle"]
      BY <1>4, Zenon DEF Send
    <3>3. pc' \in [Procs -> {"idle", "check", "clear", "send", "await", "panic"}]
      BY <3>2, Zenon DEF TypeInv, TypeOK
    <3>4. cur' \in [Callers -> Nat] /\ sent' \in Nat BY <1>4 DEF Send, TypeInv, TypeOK
    <3> QED BY <1>4, <2>4, <3>1, <3>3, <3>4 DEF Send, TypeInv, TypeOK, flushVars, diskVars
  <2>7. Tagged' BY <1>4, <2>5, Zenon DEF Send, TypeInv, Tagged, flushVars
  <2> QED BY <2>6, <2>7, Zenon DEF TypeInv
<1>5. CASE Return(c)
  <2>1. acked' \in SUBSET Nat
    <3>1. acked' = acked \/ acked' = acked \cup {cur[c]} BY <1>5, Zenon DEF Return
    <3>2. acked \in SUBSET Nat /\ cur[c] \in Nat BY Zenon DEF TypeInv, TypeOK
    <3> QED BY <3>1, <3>2, Zenon
  <2>2. reply' \in [Procs -> {"none", "ok", "err"}]
        /\ pc' \in [Procs -> {"idle", "check", "clear", "send", "await", "panic"}]
    BY <1>5, Zenon DEF Return, TypeInv, TypeOK
  <2>3. UNCHANGED <<cur, loaded, walCh, sent, compacts, walErr, flushVars, diskVars, stopped, config>>
    BY <1>5, Zenon DEF Return
  <2>4. TypeOK' BY <2>1, <2>2, <2>3 DEF TypeInv, TypeOK, flushVars, diskVars
  <2>5. Tagged' BY <2>3, Zenon DEF TypeInv, Tagged, flushVars
  <2> QED BY <2>4, <2>5, Zenon DEF TypeInv
<1> QED BY <1>1, <1>2, <1>3, <1>4, <1>5, Zenon

\* Compact's hand-over and Close.
LEMMA CompactTyped ==
  ASSUME TypeInv, CompactSend \/ CompactReturn \/ Close
  PROVE  TypeInv'
<1> USE DEF Procs
<1>1. CASE CompactSend
  <2> DEFINE m == [from |-> Compactor, id |-> 0]
  <2>1. walCh \in Seq(Message) /\ m \in Message BY Zenon DEF TypeInv, TypeOK, Message
  <2>2. walCh' = Append(walCh, m) BY <1>1, Zenon DEF CompactSend
  <2>3. m.id = 0 /\ m.from = Compactor BY Zenon
  <2> HIDE DEF m
  <2>4. walCh' \in Seq(Message) BY <2>1, <2>2, SeqAppend, Zenon
  <2>5. \A i \in 1..Len(walCh') : walCh'[i].id = 0 <=> walCh'[i].from = Compactor
    BY <2>1, <2>2, <2>3, SeqAppend, SeqIs DEF TypeInv, Tagged
  <2>6. TypeOK' BY <1>1, <2>4 DEF CompactSend, TypeInv, TypeOK, flushVars, diskVars
  <2>7. Tagged' BY <1>1, <2>5, Zenon DEF CompactSend, TypeInv, Tagged, flushVars
  <2> QED BY <2>6, <2>7, Zenon DEF TypeInv
<1>2. CASE CompactReturn
  BY <1>2 DEF CompactReturn, TypeInv, TypeOK, Tagged, flushVars, diskVars
<1>3. CASE Close
  BY <1>3 DEF Close, TypeInv, TypeOK, Tagged, callerVars, chanVars, flushVars, diskVars
<1> QED BY <1>1, <1>2, <1>3, Zenon

\* fsync.
LEMMA SyncTyped ==
  ASSUME TypeInv, NEW res \in {"ok", "err"}, DoSync(res)
  PROVE  dirty' \in SUBSET Nat /\ durable' \in SUBSET Nat
BY Zenon DEF DoSync, TypeInv, TypeOK

\* The hand-over, answered.
LEMMA SpecialTyped ==
  ASSUME TypeInv, NEW m \in Message, HandleSpecial(m)
  PROVE  /\ reply' \in [Procs -> {"none", "ok", "err"}]
         /\ dirty' \in SUBSET Nat /\ durable' \in SUBSET Nat
         /\ pendingSync' \in BOOLEAN /\ bwErr' \in BOOLEAN /\ file' = file
<1>1. m.from \in Procs BY Zenon DEF Message
<1>2. bwErr' \in BOOLEAN /\ file' = file BY Zenon DEF HandleSpecial
<1>3. CASE bwErr BY <1>1, <1>2, <1>3, Zenon DEF HandleSpecial, TypeInv, TypeOK
<1>4. CASE ~bwErr /\ fsyncMode = "no" BY <1>1, <1>2, <1>4, Zenon DEF HandleSpecial, TypeInv, TypeOK
<1>5. CASE ~bwErr /\ fsyncMode # "no"
  <2>1. PICK res \in {"ok", "err"} : DoSync(res) /\ reply' = [reply EXCEPT ![m.from] = res]
    BY <1>5, Zenon DEF HandleSpecial
  <2>2. pendingSync' = FALSE BY <1>5, Zenon DEF HandleSpecial
  <2> QED BY <1>1, <1>2, <2>1, <2>2, SyncTyped, Zenon DEF TypeInv, TypeOK
<1> QED BY <1>3, <1>4, <1>5, Zenon

\* The three places where the flusher receives from walCh.
LEMMA ReceiveTyped ==
  ASSUME TypeInv, FlusherReceive \/ FlusherDrain \/ FlusherStopDrain
  PROVE  TypeInv'
<1> DEFINE h == Head(walCh)
<1>0. batch \in Seq(Message) /\ walCh \in Seq(Message) BY Zenon DEF TypeInv, TypeOK
<1>u. UNCHANGED <<callerVars, sent, compacts, walErr, ferr, exiting, stopped, config>>
  BY Zenon DEF FlusherReceive, FlusherDrain, FlusherStopDrain
<1>1. CASE walCh' = Tail(walCh) /\ walCh # <<>>
  <2>1. /\ h \in Message /\ walCh' \in Seq(Message)
        /\ \A i \in 1..Len(walCh') : walCh'[i].id = 0 <=> walCh'[i].from = Compactor
        /\ IsSpecial(h) <=> h.from = Compactor
    BY <1>1, Take, Zenon DEF TypeInv, Tagged, IsSpecial
  <2> HIDE DEF h
  <2>2. CASE IsSpecial(h)
    <3>1. CASE FlusherDrain
      <4>1. special' = <<h>> /\ fpc' = "flush" /\ batch' = batch
        BY <1>1, <2>2, <3>1 DEF FlusherDrain, h
      <4>2. special' \in Seq(Message) /\ \A i \in 1..Len(special') : special'[i].from = Compactor
        BY <2>1, <2>2, <4>1
      <4>3. TypeOK' BY <2>1, <3>1, <4>1, <4>2 DEF FlusherDrain, TypeInv, TypeOK, callerVars, diskVars
      <4>4. Tagged' BY <2>1, <4>1, <4>2, Zenon DEF TypeInv, Tagged
      <4> QED BY <4>3, <4>4, Zenon DEF TypeInv
    <3>2. CASE FlusherReceive \/ FlusherStopDrain
      <4>1. HandleSpecial(h) /\ fpc' = fpc /\ batch' = batch /\ special' = special
        BY <1>1, <2>2, <3>2, Zenon DEF FlusherReceive, FlusherStopDrain, h
      <4>2. TypeOK'
        BY <1>u, <2>1, <4>1, SpecialTyped DEF TypeInv, TypeOK, callerVars
      <4>3. Tagged' BY <2>1, <4>1, Zenon DEF TypeInv, Tagged
      <4> QED BY <4>2, <4>3, Zenon DEF TypeInv
    <3> QED BY <3>1, <3>2, Zenon
  <2>3. CASE ~IsSpecial(h)
    <3>1. h.from \in Callers BY <2>1, <2>3, Zenon DEF Message, Procs
    <3>2. batch' = <<h>> \/ batch' = Append(batch, h)
      BY <1>1, <2>3 DEF FlusherReceive, FlusherDrain, FlusherStopDrain, h
    <3>3. batch' \in Seq(Message)
      <4>1. <<h>> \in Seq(Message) BY <2>1
      <4>2. Append(batch, h) \in Seq(Message) BY <1>0, <2>1, SeqAppend, Zenon
      <4> QED BY <3>2, <4>1, <4>2, Zenon
    <3>4. \A i \in 1..Len(batch') : batch'[i].from \in Callers
      <4>1. CASE batch' = <<h>> BY <3>1, <4>1
      <4>2. CASE batch' = Append(batch, h)
        BY <1>0, <2>1, <3>1, <4>2, SeqAppend, SeqIs, SMTT(30) DEF TypeInv, Tagged
      <4> QED BY <3>2, <4>1, <4>2, Zenon
    <3>5. /\ UNCHANGED <<reply, bwErr, file, dirty, durable, pendingSync, special>>
          /\ fpc' \in {"drain", "stopdrain"}
      BY <1>1, <2>3, SMTT(30) DEF FlusherReceive, FlusherDrain, FlusherStopDrain, h, diskVars
    <3>6. TypeOK'
      BY <1>u, <2>1, <3>3, <3>5, SMTT(30) DEF TypeInv, TypeOK, callerVars
    <3>7. Tagged' BY <2>1, <3>4, <3>5, Zenon DEF TypeInv, Tagged
    <3> QED BY <3>6, <3>7, Zenon DEF TypeInv
  <2> QED BY <2>2, <2>3, Zenon
<1>2. CASE ~(walCh' = Tail(walCh) /\ walCh # <<>>)
  <2>1. /\ UNCHANGED <<walCh, batch, special, reply, bwErr, file, dirty, durable, pendingSync>>
        /\ fpc' = "flush"
    BY <1>2, Zenon DEF FlusherReceive, FlusherDrain, FlusherStopDrain, diskVars
  <2>2. TypeOK'
    BY <1>u, <2>1 DEF TypeInv, TypeOK, callerVars
  <2>3. Tagged' BY <2>1, Zenon DEF TypeInv, Tagged
  <2> QED BY <2>2, <2>3, Zenon DEF TypeInv
<1> QED BY <1>1, <1>2, Zenon

\* The lines of a batch.
LEMMA LinesTyped ==
  ASSUME TypeInv, NEW n \in 0..Len(batch)
  PROVE  /\ BatchLines(n) \in Seq(Nat)
         /\ {batch[i].id : i \in 1..n} \in SUBSET Nat
         /\ Ids(batch) \in SUBSET Nat /\ Ids(batch) = {batch[i].id : i \in 1..Len(batch)}
<1>1. batch \in Seq(Message) /\ Len(batch) \in Nat /\ DOMAIN batch = 1..Len(batch)
  BY SeqIs, Zenon DEF TypeInv, TypeOK
<1>2. \A i \in 1..Len(batch) : batch[i].id \in Nat
  <2> SUFFICES ASSUME NEW i \in 1..Len(batch) PROVE batch[i].id \in Nat BY Zenon
  <2>1. batch[i] \in Message BY <1>1, SeqIs, Zenon
  <2> QED BY <2>1, Zenon DEF Message
<1>3. n \in Nat /\ \A i \in 1..n : i \in 1..Len(batch) BY <1>1
<1>4. BatchLines(n) \in Seq(Nat) BY <1>2, <1>3, SeqMade DEF BatchLines
<1> QED BY <1>1, <1>2, <1>3, <1>4, Zenon DEF Ids

\* The other steps of the flusher.
LEMMA FlusherTyped ==
  ASSUME TypeInv,
         \/ FlusherTick \/ FlusherWrite \/ FlusherSync \/ FlusherSignal \/ FlusherSpecial
         \/ FlusherStop \/ FlusherFinalSync
  PROVE  TypeInv'
<1>1. CASE FlusherTick
  <2>1. dirty' \in SUBSET Nat /\ durable' \in SUBSET Nat
    <3>1. CASE pendingSync BY <1>1, <3>1, SyncTyped, Zenon DEF FlusherTick
    <3>2. CASE ~pendingSync BY <1>1, <3>2, Zenon DEF FlusherTick, TypeInv, TypeOK
    <3> QED BY <3>1, <3>2, Zenon
  <2>2. TypeOK' BY <1>1, <2>1, ZenonT(30) DEF FlusherTick, TypeInv, TypeOK, callerVars, chanVars, flushVars
  <2>3. Tagged' BY <1>1, Zenon DEF FlusherTick, TypeInv, Tagged, chanVars, flushVars
  <2> QED BY <2>2, <2>3, Zenon DEF TypeInv
<1>2. CASE FlusherWrite
  <2>0. file \in Seq(Nat) /\ dirty \in SUBSET Nat /\ batch \in Seq(Message) /\ Len(batch) \in Nat
    BY SeqIs, Zenon DEF TypeInv, TypeOK
  <2>1. file' \in Seq(Nat) /\ dirty' \in SUBSET Nat
    <3>1. ASSUME NEW n \in 0..Len(batch), file' = file \o BatchLines(n)
          PROVE  file' \in Seq(Nat)
      BY <2>0, <3>1, LinesTyped, SeqJoin, Zenon
    <3>2. ASSUME NEW n \in 0..Len(batch), dirty' = dirty \cup {batch[i].id : i \in 1..n}
          PROVE  dirty' \in SUBSET Nat
      BY <2>0, <3>2, LinesTyped, Zenon
    <3>3. Ids(batch) = {batch[i].id : i \in 1..Len(batch)} /\ Len(batch) \in 0..Len(batch)
      BY <2>0, LinesTyped
    <3>4. \/ file' = file /\ dirty' = dirty
          \/ \E n \in 0..Len(batch) : /\ file' = file \o BatchLines(n)
                                      /\ dirty' = dirty \cup {batch[i].id : i \in 1..n}
      <4>1. CASE bwErr BY <1>2, <4>1, Zenon DEF FlusherWrite
      <4>2. CASE file' = file \o BatchLines(Len(batch)) /\ dirty' = dirty \cup Ids(batch)
        BY <3>3, <4>2, Zenon
      <4>3. CASE \E n \in 0..(Len(batch) - 1) :
                   /\ file' = file \o BatchLines(n)
                   /\ dirty' = dirty \cup {batch[i].id : i \in 1..n}
        <5>1. \A n \in 0..(Len(batch) - 1) : n \in 0..Len(batch) BY <2>0
        <5> QED BY <4>3, <5>1, Zenon
      <4> QED BY <1>2, <4>1, <4>2, <4>3, Zenon DEF FlusherWrite
    <3> QED BY <2>0, <3>1, <3>2, <3>4, Zenon
  <2>2. /\ ferr' \in {"ok", "err"} /\ fpc' \in {"sync", "signal"}
        /\ pendingSync' \in BOOLEAN /\ bwErr' \in BOOLEAN
    BY <1>2, Zenon DEF FlusherWrite, SyncLater, TypeInv, TypeOK
  <2>3. TypeOK' BY <1>2, <2>1, <2>2, Zenon DEF FlusherWrite, TypeInv, TypeOK, callerVars, chanVars
  <2>4. Tagged' BY <1>2, <2>2, Zenon DEF FlusherWrite, TypeInv, Tagged, chanVars
  <2> QED BY <2>3, <2>4, Zenon DEF TypeInv
<1>3. CASE FlusherSync
  <2>1. dirty' \in SUBSET Nat /\ durable' \in SUBSET Nat /\ ferr' \in {"ok", "err"}
    BY <1>3, SyncTyped, Zenon DEF FlusherSync
  <2>2. TypeOK' BY <1>3, <2>1, Zenon DEF FlusherSync, TypeInv, TypeOK, callerVars, chanVars
  <2>3. Tagged' BY <1>3, Zenon DEF FlusherSync, TypeInv, Tagged, chanVars
  <2> QED BY <2>2, <2>3, Zenon DEF TypeInv
<1>4. CASE FlusherSignal
  <2>1. reply' \in [Procs -> {"none", "ok", "err"}] BY <1>4, Zenon DEF FlusherSignal, Answer,
      TypeInv, TypeOK
  <2>2. batch' \in Seq(Message) /\ Len(batch') = 0 BY <1>4 DEF FlusherSignal
  <2>3. fpc' \in {"final", "exited", "special", "select"} /\ (fpc' = "special" => special # <<>>)
    BY <1>4, Zenon DEF FlusherSignal, AfterSignal
  <2>4. walErr' \in {"none", "err", "nil"} BY <1>4, Zenon DEF FlusherSignal, TypeInv, TypeOK
  <2>5. TypeOK' BY <1>4, <2>1, <2>2, <2>3, <2>4, SMTT(30) DEF FlusherSignal, TypeInv, TypeOK, callerVars, diskVars
  <2>6. Tagged' BY <1>4, <2>2, <2>3 DEF FlusherSignal, TypeInv, Tagged
  <2> QED BY <2>5, <2>6, Zenon DEF TypeInv
<1>5. CASE FlusherSpecial
  <2>1. special \in Seq(Message) /\ special # <<>> BY <1>5, Zenon DEF FlusherSpecial, TypeInv,
      TypeOK, Tagged
  <2>2. special[1] \in Message BY <2>1, SeqIs
  <2>3. special' \in Seq(Message) /\ Len(special') = 0 /\ fpc' = "select" BY <1>5 DEF FlusherSpecial
  <2>4. HandleSpecial(special[1]) BY <1>5, Zenon DEF FlusherSpecial
  <2>5. TypeOK'
    BY <1>5, <2>2, <2>3, <2>4, SpecialTyped, SMTT(30) DEF FlusherSpecial, TypeInv, TypeOK, callerVars
  <2>6. Tagged' BY <1>5, <2>3 DEF FlusherSpecial, TypeInv, Tagged
  <2> QED BY <2>5, <2>6, Zenon DEF TypeInv
<1>6. CASE FlusherStop
  BY <1>6, Zenon DEF FlusherStop, TypeInv, TypeOK, Tagged, callerVars, chanVars, diskVars
<1>7. CASE FlusherFinalSync
  <2>1. dirty' \in SUBSET Nat /\ durable' \in SUBSET Nat BY <1>7, SyncTyped, Zenon DEF
      FlusherFinalSync
  <2> QED BY <1>7, <2>1 DEF FlusherFinalSync, TypeInv, TypeOK, Tagged, callerVars, chanVars
<1> QED BY <1>1, <1>2, <1>3, <1>4, <1>5, <1>6, <1>7, Zenon

\* Every step keeps the types.
LEMMA NextTyped == TypeInv /\ [Next]_vars => TypeInv'
<1> SUFFICES ASSUME TypeInv, [Next]_vars PROVE TypeInv' BY Zenon
<1>1. CASE UNCHANGED vars
  BY <1>1 DEF vars, callerVars, chanVars, flushVars, diskVars, TypeInv, TypeOK, Tagged
<1> QED BY <1>1, CallerTyped, CompactTyped, ReceiveTyped, FlusherTyped, Zenon DEF Next

\* The log writer is well typed in every reachable state.
THEOREM TypeCorrect == Spec => []TypeOK
<1>1. Spec => []TypeInv BY InitTyped, NextTyped, PTL DEF Spec
<1>2. TypeInv => TypeOK BY Zenon DEF TypeInv
<1> QED BY <1>1, <1>2, PTL

-----------------------------------------------------------------------------
(* FsyncAlways: what was acknowledged is on the disk. *)

\* What is durable stays durable, and fsync makes what was dirty durable.
LEMMA SyncGrows ==
  ASSUME NEW res \in {"ok", "err"}, DoSync(res)
  PROVE  durable \subseteq durable' /\ (res = "ok" => dirty \subseteq durable')
BY Zenon DEF DoSync

\* The hand-over answers Compact and nobody else.
LEMMA SpecialQuiet ==
  ASSUME TypeInv, NEW m \in Message, m.from = Compactor, HandleSpecial(m)
  PROVE  durable \subseteq durable' /\ \A c \in Callers : reply'[c] = reply[c]
<1>1. \A c \in Callers : c # Compactor /\ c \in Procs BY ConstantsOK, Zenon DEF Procs
<1>2. reply \in [Procs -> {"none", "ok", "err"}] BY Zenon DEF TypeInv, TypeOK
<1>3. \E r \in {"ok", "err"} : reply' = [reply EXCEPT ![Compactor] = r] BY Zenon DEF HandleSpecial
<1>4. durable \subseteq durable'
  <2>1. durable' = durable \/ \E res \in {"ok", "err"} : DoSync(res) BY Zenon DEF HandleSpecial
  <2> QED BY <2>1, SyncGrows, Zenon
<1> QED BY <1>1, <1>2, <1>3, <1>4, Zenon

\* A step that leaves the messages and the callers alone, and loses nothing that
\* is durable, keeps the invariant wherever the flusher then is in its round.
LEMMA Bystander ==
  ASSUME TypeInv, OneEach, Answers, durable \subseteq durable',
         UNCHANGED <<walCh, batch, pc, cur, acked>>,
         \A c \in Callers : reply'[c] = reply[c],
         fpc' = "sync" => Ids(batch) \subseteq dirty',
         fpc' = "signal" /\ ferr' = "ok" => Ids(batch) \subseteq durable'
  PROVE  OneEach' /\ Answers'
<1> DEFINE Stays(x) == x.from \in Callers => /\ x.id = cur'[x.from]
                                            /\ pc'[x.from] = "await"
                                            /\ reply'[x.from] = "none"
<1>1. \A x : Waits(x) => Stays(x) BY Zenon DEF Waits
<1> HIDE DEF Stays
<1>2. /\ \A i \in 1..Len(walCh) : Stays(walCh[i])
      /\ \A i \in 1..Len(batch) : Stays(batch[i])
  BY <1>1, Zenon DEF OneEach
<1>3. /\ \A i \in 1..Len(walCh) : Waits(walCh[i])'
      /\ \A i \in 1..Len(batch) : Waits(batch[i])'
  BY <1>2, Zenon DEF Stays, Waits
<1>4. OneEach' BY <1>3, Zenon DEF OneEach
<1>5. Answers' BY Zenon DEF Answers, Ids
<1> QED BY <1>4, <1>5, Zenon

\* A new message: its caller had none on its way, since it was not waiting.
LEMMA SendKeeps ==
  ASSUME TypeInv, OneEach, Answers, fsyncMode = "always", NEW c \in Callers, Send(c)
  PROVE  OneEach' /\ Answers'
<1> DEFINE m == [from |-> c, id |-> sent + 1]
<1>0. /\ walCh \in Seq(Message) /\ batch \in Seq(Message) /\ m \in Message
      /\ pc \in [Procs -> {"idle", "check", "clear", "send", "await", "panic"}]
      /\ cur \in [Callers -> Nat] /\ Callers \subseteq Procs
  BY DEF TypeInv, TypeOK, Message, Procs
<1>1. /\ walCh' = Append(walCh, m) /\ cur' = [cur EXCEPT ![c] = sent + 1]
      /\ pc' = [pc EXCEPT ![c] = "await"] /\ pc[c] = "send"
      /\ UNCHANGED <<acked, reply, fpc, ferr, batch, dirty, durable>>
  BY Zenon DEF Send, NewMessage, flushVars, diskVars
<1>2. m.from = c /\ m.id = sent + 1 BY Zenon
<1> HIDE DEF m
<1>3. reply[c] = "none" BY <1>1, Zenon DEF Answers
<1>4. /\ \A i \in 1..Len(walCh) : walCh[i].from # c
      /\ \A i \in 1..Len(batch) : batch[i].from # c
  BY <1>1, Zenon DEF OneEach, Waits
<1>5. /\ Len(walCh') = Len(walCh) + 1 /\ Len(walCh) \in Nat /\ walCh'[Len(walCh) + 1] = m
      /\ \A i \in 1..Len(walCh) : walCh'[i] = walCh[i]
  BY <1>0, <1>1, SeqAppend, SeqIs
<1>6. \A i \in 1..Len(walCh') : i \in 1..Len(walCh) \/ i = Len(walCh) + 1 BY <1>5, SMTT(30)
<1> DEFINE Stays(x) == x.from \in Callers => /\ x.id = cur'[x.from]
                                            /\ pc'[x.from] = "await"
                                            /\ reply'[x.from] = "none"
<1>7. \A x : x.from # c /\ Waits(x) => Stays(x) BY <1>0, <1>1, Zenon DEF Waits
<1>8. Stays(m) BY <1>0, <1>1, <1>2, <1>3, Zenon
<1> HIDE DEF Stays
<1>9. /\ \A i \in 1..Len(walCh') : Stays(walCh'[i])
      /\ \A i \in 1..Len(batch) : Stays(batch[i])
  BY <1>4, <1>5, <1>6, <1>7, <1>8, Zenon DEF OneEach
<1> DEFINE n == Len(walCh)
<1>a. \A i \in 1..n : walCh'[i] = walCh[i] /\ walCh'[i].from # c BY <1>4, <1>5, Zenon
<1>b. walCh'[n + 1].from = c BY <1>2, <1>5, Zenon
<1>10. ASSUME NEW i \in 1..Len(walCh'), NEW j \in 1..Len(walCh'),
              walCh'[i].from = walCh'[j].from, walCh'[i].from \in Callers
       PROVE  i = j
  <2>1. CASE i \in 1..n /\ j \in 1..n BY <1>10, <1>a, <2>1, Zenon DEF OneEach
  <2>2. CASE i = n + 1 \/ j = n + 1 BY <1>10, <1>6, <1>a, <1>b, <2>2, Zenon
  <2> QED BY <1>6, <2>1, <2>2, Zenon
<1>c. ASSUME NEW i \in 1..Len(batch), NEW j \in 1..Len(walCh') PROVE batch[i].from # walCh'[j].from
  <2>1. CASE j \in 1..n BY <1>a, <2>1, Zenon DEF OneEach
  <2>2. CASE j = n + 1 BY <1>4, <1>b, <2>2, Zenon
  <2> QED BY <1>6, <2>1, <2>2, Zenon
<1>d. /\ \A i \in 1..Len(walCh') : Waits(walCh[i])'
      /\ \A i \in 1..Len(batch) : Waits(batch[i])'
  BY <1>1, <1>9 DEF Waits, Stays
<1>e. batch' = batch BY <1>1, Zenon
<1>11. OneEach' BY <1>10, <1>c, <1>d, <1>e, Zenon DEF OneEach
<1>12. Answers' BY <1>0, <1>1, <1>3, Zenon DEF Answers, Ids
<1> QED BY <1>11, <1>12, Zenon

\* An answered call: what it was told is true, and its message is gone.
LEMMA ReturnKeeps ==
  ASSUME TypeInv, OneEach, Answers, NEW c \in Callers, Return(c)
  PROVE  OneEach' /\ Answers'
<1>0. /\ pc \in [Procs -> {"idle", "check", "clear", "send", "await", "panic"}]
      /\ reply \in [Procs -> {"none", "ok", "err"}] /\ Callers \subseteq Procs
  BY Zenon DEF TypeInv, TypeOK, Procs
<1>1. /\ reply[c] # "none" /\ reply' = [reply EXCEPT ![c] = "none"]
      /\ pc' = [pc EXCEPT ![c] = "idle"]
      /\ acked' = IF reply[c] = "ok" THEN acked \cup {cur[c]} ELSE acked
      /\ UNCHANGED <<cur, walCh, fpc, ferr, batch, dirty, durable>>
  BY Zenon DEF Return, flushVars, diskVars
<1>2. /\ \A i \in 1..Len(walCh) : walCh[i].from # c
      /\ \A i \in 1..Len(batch) : batch[i].from # c
  BY <1>1, SMTT(30) DEF OneEach, Waits
<1>3. OneEach' BY <1>0, <1>1, <1>2 DEF OneEach, Waits
<1>4. Answers' BY <1>0, <1>1, Zenon DEF Answers, Ids
<1> QED BY <1>3, <1>4, Zenon

\* A message moves from the channel to the batch, or to Compact's hand-over.
LEMMA ReceiveKeeps ==
  ASSUME TypeInv, OneEach, Answers, FlusherReceive \/ FlusherDrain \/ FlusherStopDrain
  PROVE  OneEach' /\ Answers'
<1> DEFINE h == Head(walCh)
<1>0. batch \in Seq(Message) /\ walCh \in Seq(Message) BY Zenon DEF TypeInv, TypeOK
<1>1. UNCHANGED <<pc, cur, acked>> /\ fpc' \notin {"sync", "signal"}
  BY Zenon DEF FlusherReceive, FlusherDrain, FlusherStopDrain, callerVars
<1>2. CASE walCh' = Tail(walCh) /\ walCh # <<>>
  <2>1. /\ h \in Message /\ h = walCh[1] /\ 1 \in 1..Len(walCh)
        /\ \A i \in 1..Len(walCh') : walCh'[i] = walCh[i + 1] /\ i + 1 \in 1..Len(walCh)
        /\ IsSpecial(h) <=> h.from = Compactor
    BY <1>2, Take, Zenon DEF TypeInv, Tagged, IsSpecial
  <2> HIDE DEF h
  <2>2. durable \subseteq durable' /\ \A c \in Callers : reply'[c] = reply[c]
    <3>1. CASE HandleSpecial(h) /\ IsSpecial(h) BY <2>1, <3>1, SpecialQuiet, Zenon
    <3>2. CASE UNCHANGED <<reply, durable>> BY <3>2, Zenon
    <3> QED BY <3>1, <3>2, Zenon DEF FlusherReceive, FlusherDrain, FlusherStopDrain, diskVars, h
  <2>3. \/ batch' = batch
        \/ batch' = <<h>> /\ h.from \in Callers
        \/ batch' = Append(batch, h) /\ h.from \in Callers
    BY <1>2, <2>1, Zenon DEF FlusherReceive, FlusherDrain, FlusherStopDrain, h, Message, Procs
  <2>4. \A i \in 1..Len(batch') : \/ i \in 1..Len(batch) /\ batch'[i] = batch[i]
                                  \/ batch'[i] = h /\ h.from \in Callers
    <3>1. CASE batch' = batch BY <3>1, Zenon
    <3>2. CASE batch' = <<h>> /\ h.from \in Callers BY <3>2
    <3>3. CASE batch' = Append(batch, h) /\ h.from \in Callers
      BY <1>0, <2>1, <3>3, SeqAppend, SeqIs
    <3> QED BY <2>3, <3>1, <3>2, <3>3, Zenon
  <2>5. \A j \in 1..Len(walCh') : h.from \in Callers => h.from # walCh'[j].from
    <3> SUFFICES ASSUME NEW j \in 1..Len(walCh'), h.from \in Callers, h.from = walCh'[j].from
                 PROVE  FALSE
      BY Zenon
    <3>1. 1 = j + 1 BY <2>1, Zenon DEF OneEach
    <3>2. j >= 1 /\ j \in Nat OBVIOUS
    <3> QED BY <3>1, <3>2
  <2> DEFINE Stays(x) == x.from \in Callers => /\ x.id = cur'[x.from]
                                               /\ pc'[x.from] = "await"
                                               /\ reply'[x.from] = "none"
  <2>6. \A x : Waits(x) => Stays(x) BY <1>1, <2>2, Zenon DEF Waits
  <2> HIDE DEF Stays
  <2>7. /\ \A i \in 1..Len(walCh') : Stays(walCh'[i])
        /\ \A i \in 1..Len(batch') : Stays(batch'[i])
    BY <2>1, <2>4, <2>6, Zenon DEF OneEach
  <2>8. OneEach'
    <3>1. \A i, j \in 1..Len(walCh') :
            walCh'[i].from = walCh'[j].from /\ walCh'[i].from \in Callers => i = j
      <4> SUFFICES ASSUME NEW i \in 1..Len(walCh'), NEW j \in 1..Len(walCh'),
                          walCh'[i].from = walCh'[j].from, walCh'[i].from \in Callers
                   PROVE  i = j
        BY Zenon
      <4>1. i + 1 = j + 1 BY <2>1 DEF OneEach
      <4> QED BY <4>1
    <3>2. \A i \in 1..Len(batch'), j \in 1..Len(walCh') : batch'[i].from # walCh'[j].from
      <4> SUFFICES ASSUME NEW i \in 1..Len(batch'), NEW j \in 1..Len(walCh')
                   PROVE  batch'[i].from # walCh'[j].from
        BY Zenon
      <4>1. CASE batch'[i] = h /\ h.from \in Callers BY <2>5, <4>1, Zenon
      <4>2. CASE i \in 1..Len(batch) /\ batch'[i] = batch[i]
        <5>1. j + 1 \in 1..Len(walCh) /\ walCh'[j] = walCh[j + 1] BY <2>1, Zenon
        <5> QED BY <4>2, <5>1, Zenon DEF OneEach
      <4> QED BY <2>4, <4>1, <4>2, Zenon
    <3> QED BY <2>7, <3>1, <3>2, Zenon DEF OneEach, Waits, Stays
  <2>9. Answers' BY <1>1, <2>2, Zenon DEF Answers
  <2> QED BY <2>8, <2>9, Zenon
<1>3. CASE ~(walCh' = Tail(walCh) /\ walCh # <<>>)
  <2>1. UNCHANGED <<walCh, batch, reply, durable>>
    BY <1>3, Zenon DEF FlusherReceive, FlusherDrain, FlusherStopDrain, diskVars
  <2> QED BY <1>1, <2>1, Bystander, Zenon
<1> QED BY <1>2, <1>3, Zenon

\* Compact's message is nobody else's.
LEMMA HandOverKeeps ==
  ASSUME TypeInv, OneEach, Answers, CompactSend \/ CompactReturn
  PROVE  OneEach' /\ Answers'
<1>0. /\ Compactor \notin Callers /\ walCh \in Seq(Message) /\ batch \in Seq(Message)
      /\ pc \in [Procs -> {"idle", "check", "clear", "send", "await", "panic"}]
      /\ reply \in [Procs -> {"none", "ok", "err"}] /\ Callers \subseteq Procs
  BY ConstantsOK, Zenon DEF TypeInv, TypeOK, Procs
<1>1. /\ UNCHANGED <<cur, acked, fpc, ferr, batch, dirty, durable>>
      /\ \A c \in Callers : pc'[c] = pc[c] /\ reply'[c] = reply[c]
  BY <1>0, Zenon DEF CompactSend, CompactReturn, flushVars, diskVars
<1>2. Answers' BY <1>1, ZenonT(30) DEF Answers, Ids
<1>3. CASE walCh' = walCh BY <1>1, <1>3, <1>2, SMTT(30) DEF OneEach, Waits
<1>4. CASE CompactSend
  <2> DEFINE m == [from |-> Compactor, id |-> 0]
  <2>1. m \in Message /\ m.from = Compactor /\ walCh' = Append(walCh, m)
    BY <1>4, Zenon DEF CompactSend, Message, Procs
  <2> HIDE DEF m
  <2>2. /\ Len(walCh') = Len(walCh) + 1 /\ Len(walCh) \in Nat /\ walCh'[Len(walCh) + 1] = m
        /\ \A i \in 1..Len(walCh) : walCh'[i] = walCh[i]
    BY <1>0, <2>1, SeqAppend, SeqIs
  <2>3. \A i \in 1..Len(walCh') : i \in 1..Len(walCh) \/ walCh'[i].from = Compactor
    BY <2>1, <2>2
  <2>4. \A i \in 1..Len(batch) : batch[i].from \in Callers BY Zenon DEF TypeInv, Tagged
  <2> DEFINE Stays(x) == x.from \in Callers => /\ x.id = cur'[x.from]
                                               /\ pc'[x.from] = "await"
                                               /\ reply'[x.from] = "none"
  <2>5. (\A x : Waits(x) => Stays(x)) /\ \A x : x.from = Compactor => Stays(x)
    BY <1>0, <1>1, Zenon DEF Waits
  <2> HIDE DEF Stays
  <2>6. /\ \A i \in 1..Len(walCh') : Stays(walCh'[i])
        /\ \A i \in 1..Len(batch) : Stays(batch[i])
    BY <2>2, <2>3, <2>5, Zenon DEF OneEach
  <2>7. \A i, j \in 1..Len(walCh') :
          walCh'[i].from = walCh'[j].from /\ walCh'[i].from \in Callers => i = j
    BY <1>0, <2>2, <2>3, SMTT(30) DEF OneEach
  <2>8. \A i \in 1..Len(batch), j \in 1..Len(walCh') : batch[i].from # walCh'[j].from
    BY <1>0, <2>2, <2>3, <2>4 DEF OneEach
  <2> QED BY <1>1, <1>2, <2>6, <2>7, <2>8, ZenonT(30) DEF OneEach, Waits, Stays
<1> QED BY <1>3, <1>4, Zenon DEF CompactReturn

\* The batch is written, synced and answered: an "ok" is given only after a
\* successful fsync that covered the lines of the batch.
LEMMA FlushKeeps ==
  ASSUME TypeInv, OneEach, Answers, fsyncMode = "always",
         FlusherWrite \/ FlusherSync \/ FlusherSignal
  PROVE  OneEach' /\ Answers'
<1>1. CASE FlusherWrite
  <2>1. /\ UNCHANGED <<walCh, batch, pc, cur, acked, reply, durable>>
        /\ fpc' = "sync" => Ids(batch) \subseteq dirty'
        /\ fpc' = "signal" => ferr' = "err"
    BY <1>1, Zenon DEF FlusherWrite, callerVars, chanVars
  <2> QED BY <2>1, Bystander, Zenon
<1>2. CASE FlusherSync
  <2>1. UNCHANGED <<walCh, batch, pc, cur, acked, reply>> /\ fpc' = "signal"
    BY <1>2, Zenon DEF FlusherSync, callerVars, chanVars
  <2>2. PICK res \in {"ok", "err"} : DoSync(res) /\ ferr' = res BY <1>2, Zenon DEF FlusherSync
  <2>3. Ids(batch) \subseteq dirty BY <1>2, Zenon DEF FlusherSync, Answers
  <2>4. durable \subseteq durable' /\ (ferr' = "ok" => Ids(batch) \subseteq durable')
    BY <2>2, <2>3, SyncGrows, Zenon
  <2> QED BY <2>1, <2>4, Bystander, Zenon
<1>3. CASE FlusherSignal
  <2> DEFINE From == {batch[i].from : i \in DOMAIN batch}
  <2>0. batch \in Seq(Message) /\ DOMAIN batch = 1..Len(batch) /\ Callers \subseteq Procs
    BY SeqIs, Zenon DEF TypeInv, TypeOK, Procs
  <2>1. /\ UNCHANGED <<walCh, pc, cur, acked, durable>> /\ batch' = <<>>
        /\ fpc' \notin {"sync", "signal"}
        /\ \A c \in Callers : reply'[c] = IF c \in From THEN ferr ELSE reply[c]
    BY <1>3, <2>0, Zenon DEF FlusherSignal, Answer, AfterSignal, callerVars, diskVars
  <2>2. \A c \in From : \E i \in 1..Len(batch) : c = batch[i].from BY <2>0, Zenon
  <2>3. \A j \in 1..Len(walCh) : walCh[j].from \notin From BY <2>2, Zenon DEF OneEach
  <2>4. \A c \in From \cap Callers : pc[c] = "await" /\ cur[c] \in Ids(batch)
    BY <2>0, <2>2, SMTT(30) DEF OneEach, Waits, Ids
  <2> HIDE DEF From
  <2>5. OneEach' BY <2>1, <2>3, SMTT(30) DEF OneEach, Waits
  <2>6. ferr = "ok" => Ids(batch) \subseteq durable BY <1>3, Zenon DEF FlusherSignal, Answers
  <2>7. Answers' BY <2>1, <2>4, <2>6, Zenon DEF Answers
  <2> QED BY <2>5, <2>7, Zenon
<1> QED BY <1>1, <1>2, <1>3, Zenon

\* The remaining steps: no message moves and no caller is answered.
LEMMA OthersKeep ==
  ASSUME TypeInv, OneEach, Answers, fsyncMode = "always",
         \/ FlusherTick \/ FlusherSpecial \/ FlusherStop \/ FlusherFinalSync \/ Close
         \/ UNCHANGED vars
  PROVE  OneEach' /\ Answers'
<1>1. CASE FlusherTick
  <2>1. UNCHANGED <<walCh, batch, pc, cur, acked, reply, fpc>> /\ fpc = "select"
    BY <1>1, Zenon DEF FlusherTick, callerVars, chanVars, flushVars
  <2>2. durable \subseteq durable' BY <1>1, SyncGrows, Zenon DEF FlusherTick
  <2> QED BY <2>1, <2>2, Bystander, Zenon
<1>2. CASE FlusherSpecial
  <2>1. special \in Seq(Message) /\ special # <<>> /\ 1 \in 1..Len(special)
    BY <1>2, SeqIs DEF FlusherSpecial, TypeInv, TypeOK, Tagged
  <2>2. special[1] \in Message /\ special[1].from = Compactor
    BY <2>1, SeqIs, Zenon DEF TypeInv, Tagged
  <2>3. /\ UNCHANGED <<walCh, batch, pc, cur, acked>> /\ fpc' = "select"
        /\ HandleSpecial(special[1])
    BY <1>2, Zenon DEF FlusherSpecial, callerVars
  <2>4. durable \subseteq durable' /\ \A c \in Callers : reply'[c] = reply[c]
    BY <2>2, <2>3, SpecialQuiet, Zenon
  <2> QED BY <2>3, <2>4, Bystander, Zenon
<1>3. CASE FlusherStop
  <2>1. UNCHANGED <<walCh, batch, pc, cur, acked, reply, durable>> /\ fpc' = "stopdrain"
    BY <1>3, Zenon DEF FlusherStop, callerVars, chanVars, diskVars
  <2> QED BY <2>1, Bystander, Zenon
<1>4. CASE FlusherFinalSync
  <2>1. UNCHANGED <<walCh, batch, pc, cur, acked, reply>> /\ fpc' = "exited"
    BY <1>4, Zenon DEF FlusherFinalSync, callerVars, chanVars
  <2>2. durable \subseteq durable' BY <1>4, SyncGrows, Zenon DEF FlusherFinalSync
  <2> QED BY <2>1, <2>2, Bystander, Zenon
<1>5. CASE Close \/ UNCHANGED vars
  <2>1. UNCHANGED <<walCh, batch, pc, cur, acked, reply, fpc, ferr, dirty, durable>>
    BY <1>5, Zenon DEF Close, vars, callerVars, chanVars, flushVars, diskVars
  <2> QED BY <2>1, Bystander, Zenon DEF Answers
<1> QED BY <1>1, <1>2, <1>3, <1>4, <1>5, Zenon

\* The steps of writeWAL before the send: a caller that is not waiting moves on.
LEMMA EntryKeeps ==
  ASSUME TypeInv, OneEach, Answers, NEW c \in Callers, Call(c) \/ CheckErr(c) \/ ClearErr(c)
  PROVE  OneEach' /\ Answers'
<1>0. /\ pc \in [Procs -> {"idle", "check", "clear", "send", "await", "panic"}]
      /\ Callers \subseteq Procs
  BY Zenon DEF TypeInv, TypeOK, Procs
<1>1. /\ UNCHANGED <<walCh, batch, cur, acked, reply, fpc, ferr, dirty, durable>>
      /\ pc[c] # "await" /\ \A d \in Callers : d # c => pc'[d] = pc[d]
  BY <1>0, Zenon DEF Call, CheckErr, ClearErr, chanVars, flushVars, diskVars
<1>2. \A d \in Callers : pc[d] = "await" => pc'[d] = "await" BY <1>1, Zenon
<1>3. OneEach'
  <2>1. /\ \A i \in 1..Len(walCh) : Waits(walCh[i])'
        /\ \A i \in 1..Len(batch) : Waits(batch[i])'
    BY <1>1, <1>2, Zenon DEF OneEach, Waits
  <2> QED BY <1>1, <2>1, ZenonT(30) DEF OneEach
<1>4. Answers' BY <1>1, <1>2, Zenon DEF Answers, Ids
<1> QED BY <1>3, <1>4, Zenon

\* The fsync mode is fixed when the store is opened.
LEMMA ModeFixed == ASSUME [Next]_vars PROVE fsyncMode' = fsyncMode
BY Zenon DEF Next, vars, Call, CheckErr, ClearErr, Send, Return, CompactSend, CompactReturn, Close,
       FlusherReceive, FlusherTick, FlusherDrain, FlusherWrite, FlusherSync, FlusherSignal,
       FlusherSpecial, FlusherStop, FlusherStopDrain, FlusherFinalSync

\* FsyncAlways: a call of writeWAL that returned nil has its line on the disk,
\* for any number of callers and any interleaving with Compact, Close and
\* failing writes and fsyncs.
THEOREM AckedIsDurable == Spec => []AckedDurable
<1>1. Init => SyncInv
  <2> SUFFICES ASSUME Init PROVE OneEach /\ Answers BY Zenon DEF SyncInv
  <2>0. Len(walCh) = 0 /\ Len(batch) = 0 /\ 1..0 = {} BY DEF Init
  <2>1. OneEach BY <2>0, Zenon DEF OneEach
  <2>2. Answers BY Zenon DEF Init, Answers, Procs
  <2> QED BY <2>1, <2>2, Zenon
<1>2. TypeInv /\ SyncInv /\ [Next]_vars => SyncInv'
  <2> SUFFICES ASSUME TypeInv, OneEach, Answers, [Next]_vars, fsyncMode = "always"
               PROVE  OneEach' /\ Answers'
    BY ModeFixed, Zenon DEF SyncInv
  <2> QED BY SendKeeps, ReturnKeeps, ReceiveKeeps, HandOverKeeps, FlushKeeps, OthersKeep,
      EntryKeeps, Zenon DEF Next
<1>3. SyncInv => AckedDurable BY Zenon DEF SyncInv, Answers, AckedDurable
<1>4. Spec => []SyncInv BY <1>1, <1>2, InitTyped, NextTyped, PTL DEF Spec
<1> QED BY <1>3, <1>4, PTL
-----------------------------------------------------------------------------
(* The order of the log, and what the last fsync leaves behind. *)

\* Where the batch is empty, what every number is bounded by, and what a working
\* disk has: no error, and every line of the file either durable or dirty.
LogInv ==
  /\ LogOrder /\ ExitSynced
  /\ \A x \in Written \cup Ids(Unwritten) \cup Ids(walCh) : x <= sent
  /\ fpc \in {"select", "special", "final", "exited"} => batch = <<>>
  /\ ~diskFails => ~bwErr /\ ferr = "ok" /\ Written \subseteq durable \cup dirty

\* The numbers of a list of messages.
LEMMA IdsOf ==
  ASSUME NEW s \in Seq(Message)
  PROVE  /\ DOMAIN s = 1..Len(s) /\ Len(s) \in Nat
         /\ \A i \in DOMAIN s : s[i].id \in Ids(s) /\ s[i].id \in Nat
         /\ \A x \in Ids(s) : x \in Nat /\ \E i \in DOMAIN s : x = s[i].id
<1>1. DOMAIN s = 1..Len(s) /\ Len(s) \in Nat BY SeqIs, Zenon
<1>2. \A i \in DOMAIN s : s[i] \in Message BY <1>1, SeqIs, Zenon
<1> QED BY <1>1, <1>2, Zenon DEF Ids, Message

\* A message is added at the end of a list.
LEMMA IdsAppend ==
  ASSUME NEW s \in Seq(Message), NEW m \in Message
  PROVE  Ids(Append(s, m)) = Ids(s) \cup {m.id}
<1> DEFINE t == Append(s, m)
<1>1. /\ DOMAIN t = 1..(Len(s) + 1) /\ t[Len(s) + 1] = m /\ \A i \in 1..Len(s) : t[i] = s[i]
      /\ DOMAIN s = 1..Len(s) /\ Len(s) \in Nat
  BY SeqAppend, SeqIs
<1> HIDE DEF t
<1>2. ASSUME NEW x \in Ids(t) PROVE x \in Ids(s) \/ x = m.id
  <2>1. PICK i \in 1..(Len(s) + 1) : x = t[i].id BY <1>1, Zenon DEF Ids
  <2>2. i \in 1..Len(s) \/ i = Len(s) + 1 BY <1>1
  <2> QED BY <1>1, <2>1, <2>2, Zenon DEF Ids
<1>3. ASSUME NEW x \in Ids(s) PROVE x \in Ids(t)
  <2>1. PICK i \in 1..Len(s) : x = s[i].id BY <1>1, Zenon DEF Ids
  <2>2. i \in 1..(Len(s) + 1) /\ t[i] = s[i] BY <1>1
  <2> QED BY <1>1, <2>1, <2>2, Zenon DEF Ids
<1>4. m.id \in Ids(t)
  <2>1. Len(s) + 1 \in 1..(Len(s) + 1) BY <1>1
  <2> QED BY <1>1, <2>1, Zenon DEF Ids
<1>5. Ids(t) = Ids(s) \cup {m.id} BY <1>2, <1>3, <1>4, Zenon
<1> QED BY <1>5, Zenon DEF t

\* The head of walCh is taken: its number comes before those that stay.
LEMMA TakeFirst ==
  ASSUME TypeInv, LogOrder, walCh # <<>>, NEW t, t = Tail(walCh), NEW h, h = Head(walCh)
  PROVE  /\ t \in Seq(Message) /\ h \in Message /\ Ids(walCh) = Ids(t) \cup {h.id}
         /\ \A i, j \in DOMAIN t :
              i < j /\ ~IsSpecial(t[i]) /\ ~IsSpecial(t[j]) => t[i].id < t[j].id
         /\ ~IsSpecial(h) => \A y \in Ids(t) \ {0} : h.id < y
<1>1. /\ h \in Message /\ t \in Seq(Message) /\ h = walCh[1] /\ 1 \in 1..Len(walCh)
      /\ \A i \in 1..Len(t) : t[i] = walCh[i + 1] /\ i + 1 \in 1..Len(walCh)
  BY Take, Zenon
<1>2. walCh \in Seq(Message) BY Zenon DEF TypeInv, TypeOK
<1>3. Len(t) = Len(walCh) - 1 /\ Len(walCh) \in Nat \ {0} BY <1>2, SeqIs, SeqTail
<1>4. DOMAIN walCh = 1..Len(walCh) /\ DOMAIN t = 1..Len(t) BY <1>1, <1>2, SeqIs, Zenon
<1>5. \A i \in DOMAIN walCh : i = 1 \/ (i - 1 \in DOMAIN t /\ t[i - 1] = walCh[i])
  BY <1>1, <1>3, <1>4
<1>6. \A i \in DOMAIN t : walCh[i + 1] = t[i] /\ i + 1 \in DOMAIN walCh /\ 1 < i + 1
  BY <1>1, <1>4
<1>7. Ids(walCh) = Ids(t) \cup {h.id}
  <2>1. ASSUME NEW x \in Ids(walCh) PROVE x \in Ids(t) \/ x = h.id BY <1>1, <1>5 DEF Ids
  <2>2. ASSUME NEW x \in Ids(t) PROVE x \in Ids(walCh) BY <1>6, Zenon DEF Ids
  <2>3. h.id \in Ids(walCh) BY <1>1, <1>4, Zenon DEF Ids
  <2> QED BY <2>1, <2>2, <2>3, Zenon
<1>8. \A i, j \in DOMAIN t :
        i < j /\ ~IsSpecial(t[i]) /\ ~IsSpecial(t[j]) => t[i].id < t[j].id
  <2> SUFFICES ASSUME NEW i \in DOMAIN t, NEW j \in DOMAIN t, i < j, ~IsSpecial(t[i]), ~IsSpecial(t[j])
               PROVE  t[i].id < t[j].id
    BY Zenon
  <2>1. i \in Nat /\ j \in Nat /\ i + 1 < j + 1 BY <1>1, <1>3, <1>4
  <2> QED BY <1>6, <2>1, Zenon DEF LogOrder
<1>9. ASSUME ~IsSpecial(h), NEW y \in Ids(t), y # 0 PROVE h.id < y
  <2>1. PICK i \in DOMAIN t : y = t[i].id BY Zenon DEF Ids
  <2>2. ~IsSpecial(walCh[i + 1]) BY <1>6, <1>9, <2>1, Zenon DEF IsSpecial
  <2> QED BY <1>1, <1>4, <1>6, <1>9, <2>1, <2>2 DEF LogOrder
<1> QED BY <1>1, <1>7, <1>8, <1>9, Zenon

\* fsync on a working disk loses nothing.
LEMMA SyncComplete ==
  ASSUME NEW res \in {"ok", "err"}, DoSync(res), ~diskFails
  PROVE  res = "ok" /\ durable \cup dirty \subseteq durable'
BY Zenon DEF DoSync

\* The hand-over on a working disk.
LEMMA SpecialComplete ==
  ASSUME TypeInv, NEW m \in Message, HandleSpecial(m), ~diskFails
  PROVE  ~bwErr' /\ durable \cup dirty \subseteq durable' \cup dirty'
<1>1. ~bwErr' BY Zenon DEF HandleSpecial
<1>2. UNCHANGED <<dirty, durable>> \/ \E res \in {"ok", "err"} : DoSync(res)
  BY Zenon DEF HandleSpecial
<1> QED BY <1>1, <1>2, SyncComplete, Zenon

\* A message moves from the channel to the end of the batch, or is a hand-over.
LEMMA ReceiveOrdered ==
  ASSUME TypeInv, LogInv, FlusherReceive \/ FlusherDrain \/ FlusherStopDrain
  PROVE  LogInv'
<1> DEFINE h == Head(walCh)
<1>0. /\ batch \in Seq(Message) /\ walCh \in Seq(Message) /\ walCh' \in Seq(Message) /\ sent \in Nat
      /\ file \in Seq(Nat)
  BY ReceiveTyped, Zenon DEF TypeInv, TypeOK
<1>1. /\ UNCHANGED <<sent, ferr, diskFails, file>> /\ fpc \in {"select", "drain", "stopdrain"}
      /\ fpc' \in {"select", "drain", "flush", "stopdrain"}
      /\ fpc' = "select" => batch' = batch /\ fpc = "select"
  BY Zenon DEF FlusherReceive, FlusherDrain, FlusherStopDrain, HandleSpecial, diskVars
<1>2. Written' = Written /\ Unwritten = batch /\ Unwritten' = batch' BY <1>1, Zenon DEF Written,
    Unwritten
<1>3. ~diskFails => ~bwErr' /\ Written \subseteq durable' \cup dirty'
  <2>1. CASE HandleSpecial(h) /\ walCh # <<>>
    <3>1. h \in Message BY <2>1, Take, Zenon
    <3> QED BY <2>1, <3>1, SpecialComplete, Zenon DEF LogInv
  <2>2. CASE UNCHANGED <<bwErr, durable, dirty>> BY <2>2, Zenon DEF LogInv
  <2> QED BY <2>1, <2>2, Zenon DEF FlusherReceive, FlusherDrain, FlusherStopDrain, diskVars, h
<1>4. ExitSynced' BY <1>1, Zenon DEF ExitSynced
<1>5. fpc' \in {"select", "special", "final", "exited"} => batch' = <<>> BY <1>1, Zenon DEF LogInv
<1> DEFINE Rest == /\ \A i, j \in DOMAIN batch' : i < j => batch'[i].id < batch'[j].id
                   /\ \A i, j \in DOMAIN walCh' :
                        i < j /\ ~IsSpecial(walCh'[i]) /\ ~IsSpecial(walCh'[j])
                          => walCh'[i].id < walCh'[j].id
                   /\ \A x \in Written, y \in Ids(batch') : x < y
                   /\ \A x \in Written \cup Ids(batch'), y \in Ids(walCh') \ {0} : x < y
                   /\ Ids(batch) \cup (Ids(walCh) \ {0}) = Ids(batch') \cup (Ids(walCh') \ {0})
<1>6. ASSUME Rest PROVE LogInv'
  <2>0. /\ Ids(Unwritten)' = Ids(batch') /\ Queued' = Ids(walCh') \ {0}
        /\ Ids(Unwritten) = Ids(batch) /\ Queued = Ids(walCh) \ {0} /\ LogOrder
    BY <1>2, Zenon DEF Ids, Queued, LogInv
  <2>1. LogOrder'
    <3>1. \A i, j \in DOMAIN file' : i < j => file'[i] < file'[j] BY <1>1, Zenon DEF LogInv,
        LogOrder
    <3>2. ~diskFails' => Written' \cup Ids(Unwritten)' \cup Queued' = 1..sent'
      BY <1>1, <1>2, <1>6, <2>0, Zenon DEF LogOrder
    <3> QED BY <1>2, <1>6, <2>0, <3>1, <3>2, Zenon DEF LogOrder, IsSpecial
  <2>2. (\A x \in Written \cup Ids(Unwritten) \cup Ids(walCh) : x <= sent)'
    <3> SUFFICES ASSUME NEW x \in Written' \cup Ids(Unwritten)' \cup Ids(walCh)' PROVE x <= sent'
      BY Zenon
    <3>1. Ids(walCh)' = Ids(walCh') BY Zenon DEF Ids
    <3>2. x \in Written \cup Ids(batch) \cup Ids(walCh) \/ x = 0 BY <1>2, <1>6, <2>0, <3>1, Zenon
    <3>3. \A y \in Written \cup Ids(batch) \cup Ids(walCh) : y <= sent BY <2>0, Zenon DEF LogInv
    <3> QED BY <1>0, <1>1, <3>2, <3>3
  <2> QED BY <1>1, <1>2, <1>3, <1>4, <1>5, <2>1, <2>2, Zenon DEF LogInv
<1>7. CASE walCh' = Tail(walCh) /\ walCh # <<>>
  <2> HIDE DEF Rest
  <2>1. /\ h \in Message /\ Ids(walCh) = Ids(walCh') \cup {h.id} /\ h.id \in Nat
        /\ \A i, j \in DOMAIN walCh' :
             i < j /\ ~IsSpecial(walCh'[i]) /\ ~IsSpecial(walCh'[j]) => walCh'[i].id < walCh'[j].id
        /\ ~IsSpecial(h) => \A y \in Ids(walCh') \ {0} : h.id < y
    BY <1>7, TakeFirst, Zenon DEF LogInv, Message
  <2>2. CASE IsSpecial(h)
    <3>1. batch' = batch BY <1>7, <2>2, Zenon DEF FlusherReceive, FlusherDrain, FlusherStopDrain
    <3>2. Ids(walCh) \ {0} = Ids(walCh') \ {0} BY <2>1, <2>2, Zenon DEF IsSpecial
    <3> QED BY <1>2, <1>6, <2>1, <3>1, <3>2, Zenon DEF Rest, LogInv, LogOrder, Queued
  <2>3. CASE ~IsSpecial(h)
    <3>1. batch' = Append(batch, h)
      <4>1. batch' = Append(batch, h) \/ (batch' = <<h>> /\ fpc = "select")
        BY <1>7, <2>3 DEF FlusherReceive, FlusherDrain, FlusherStopDrain
      <4>2. fpc = "select" => batch = <<>> BY Zenon DEF LogInv
      <4>3. Append(<<>>, h) = <<h>> OBVIOUS
      <4> QED BY <4>1, <4>2, <4>3, Zenon
    <3> HIDE DEF h
    <3>2. Ids(batch') = Ids(batch) \cup {h.id} BY <1>0, <2>1, <3>1, IdsAppend, Zenon
    <3>a. /\ DOMAIN batch' = 1..(Len(batch) + 1) /\ DOMAIN batch = 1..Len(batch) /\ Len(batch) \in Nat
          /\ batch'[Len(batch) + 1] = h /\ \A i \in 1..Len(batch) : batch'[i] = batch[i]
      BY <1>0, <2>1, <3>1, SeqAppend, SeqIs
    <3>3. h.id \in Ids(walCh) \ {0} BY <2>1, <2>3, Zenon DEF IsSpecial
    <3>4. \A x \in Written \cup Ids(batch) : x < h.id BY <1>2, <3>3, Zenon DEF LogInv, LogOrder,
        Queued
    <3>5. \A i \in DOMAIN batch : batch[i].id < h.id BY <3>4, Zenon DEF Ids
    <3>6. \A i, j \in DOMAIN batch' : i < j => batch'[i].id < batch'[j].id
      <4> SUFFICES ASSUME NEW i \in DOMAIN batch', NEW j \in DOMAIN batch', i < j
                   PROVE  batch'[i].id < batch'[j].id
        BY Zenon
      <4>1. i \in 1..Len(batch) /\ (j \in 1..Len(batch) \/ j = Len(batch) + 1) BY <3>a
      <4>2. CASE j = Len(batch) + 1 BY <3>5, <3>a, <4>1, <4>2, Zenon
      <4>3. CASE j \in 1..Len(batch) BY <1>2, <3>a, <4>1, <4>3, Zenon DEF LogInv, LogOrder
      <4> QED BY <4>1, <4>2, <4>3, Zenon
    <3>7. \A x \in Written, y \in Ids(batch') : x < y
      BY <1>2, <3>2, <3>4, Zenon DEF LogInv, LogOrder
    <3>8. \A x \in Written \cup Ids(batch'), y \in Ids(walCh') \ {0} : x < y
      BY <1>2, <2>1, <2>3, <3>2, Zenon DEF LogInv, LogOrder, Queued
    <3>9. Ids(batch) \cup (Ids(walCh) \ {0}) = Ids(batch') \cup (Ids(walCh') \ {0})
      BY <2>1, <3>2, <3>3, Zenon
    <3> QED BY <1>6, <2>1, <3>6, <3>7, <3>8, <3>9, Zenon DEF Rest
  <2> QED BY <2>2, <2>3, Zenon
<1>8. CASE ~(walCh' = Tail(walCh) /\ walCh # <<>>)
  <2>1. UNCHANGED <<walCh, batch>> BY <1>8, Zenon DEF FlusherReceive, FlusherDrain, FlusherStopDrain
  <2> QED BY <1>2, <1>6, <2>1, Zenon DEF LogInv, LogOrder, Queued
<1> QED BY <1>7, <1>8, Zenon

\* A line or a hand-over joins the channel, under a number above all others.
LEMMA AppendOrdered ==
  ASSUME TypeInv, LogInv, NEW m \in Message, walCh' = Append(walCh, m),
         \/ m.id = sent + 1 /\ sent' = sent + 1
         \/ m.id = 0 /\ sent' = sent,
         UNCHANGED <<flushVars, diskVars, config>>
  PROVE  LogInv'
<1>0. /\ walCh \in Seq(Message) /\ batch \in Seq(Message) /\ file \in Seq(Nat) /\ sent \in Nat
      /\ LogOrder
  BY Zenon DEF TypeInv, TypeOK, LogInv
<1>1. UNCHANGED <<fpc, batch, ferr, bwErr, file, dirty, durable, diskFails>>
  BY Zenon DEF flushVars, diskVars
<1>2. Written' = Written /\ Unwritten' = Unwritten /\ Ids(Unwritten)' = Ids(Unwritten)
  BY <1>1, Zenon DEF Written, Unwritten, Ids
<1>3. Ids(walCh)' = Ids(walCh) \cup {m.id}
  <2>1. Ids(walCh)' = Ids(walCh') BY Zenon DEF Ids
  <2> QED BY <1>0, <2>1, IdsAppend, Zenon
<1>4. Queued' = Queued \cup ({m.id} \ {0}) BY <1>3, Zenon DEF Queued
<1>5. /\ DOMAIN walCh' = 1..(Len(walCh) + 1) /\ DOMAIN walCh = 1..Len(walCh) /\ Len(walCh) \in Nat
      /\ walCh'[Len(walCh) + 1] = m /\ \A i \in 1..Len(walCh) : walCh'[i] = walCh[i]
  BY <1>0, SeqAppend, SeqIs
<1>6. \A x \in Written \cup Ids(Unwritten) \cup Ids(walCh) : x <= sent BY Zenon DEF LogInv
<1>7. \A x \in Written \cup Ids(Unwritten) \cup Ids(walCh) : x \in Nat
  <2>1. Ids(walCh) \subseteq Nat /\ Ids(batch) \subseteq Nat BY <1>0, IdsOf, Zenon
  <2>2. Ids(<<>>) = {} BY DEF Ids
  <2>3. Written \subseteq Nat BY <1>0, SeqIs DEF Written
  <2> QED BY <2>1, <2>2, <2>3, Zenon DEF Unwritten
<1>8. LogOrder'
  <2>1. \A i, j \in DOMAIN walCh' :
          i < j /\ ~IsSpecial(walCh'[i]) /\ ~IsSpecial(walCh'[j]) => walCh'[i].id < walCh'[j].id
    <3> SUFFICES ASSUME NEW i \in DOMAIN walCh', NEW j \in DOMAIN walCh', i < j,
                        ~IsSpecial(walCh'[i]), ~IsSpecial(walCh'[j])
                 PROVE  walCh'[i].id < walCh'[j].id
      BY Zenon
    <3>1. i \in 1..Len(walCh) /\ (j \in 1..Len(walCh) \/ j = Len(walCh) + 1) BY <1>5
    <3>2. CASE j = Len(walCh) + 1
      <4>1. m.id = sent + 1 BY <1>5, <3>2, Zenon DEF IsSpecial
      <4>2. walCh[i].id \in Ids(walCh) BY <1>5, <3>1, Zenon DEF Ids
      <4> QED BY <1>0, <1>5, <1>6, <1>7, <3>1, <3>2, <4>1, <4>2
    <3>3. CASE j \in 1..Len(walCh) BY <1>0, <1>5, <3>1, <3>3, Zenon DEF LogOrder
    <3> QED BY <3>1, <3>2, <3>3, Zenon
  <2>2. \A x \in Written \cup Ids(Unwritten), y \in Queued' : x < y
    BY <1>0, <1>4, <1>6, <1>7 DEF LogOrder
  <2>3. ~diskFails => Written \cup Ids(Unwritten) \cup Queued' = 1..sent'
    <3> SUFFICES ASSUME ~diskFails PROVE Written \cup Ids(Unwritten) \cup Queued' = 1..sent'
      BY Zenon
    <3>1. Written \cup Ids(Unwritten) \cup Queued = 1..sent BY <1>0, Zenon DEF LogOrder
    <3>2. CASE m.id = 0 /\ sent' = sent BY <1>4, <3>1, <3>2, Zenon
    <3>3. CASE m.id = sent + 1 /\ sent' = sent + 1
      <4>1. Queued' = Queued \cup {sent + 1} BY <1>0, <1>4, <3>3
      <4>2. 1..(sent + 1) = (1..sent) \cup {sent + 1} BY <1>0
      <4> QED BY <3>1, <3>3, <4>1, <4>2, Zenon
    <3> QED BY <3>2, <3>3, Zenon
  <2>4. /\ \A i, j \in DOMAIN file : i < j => file[i] < file[j]
        /\ \A i, j \in DOMAIN Unwritten : i < j => Unwritten[i].id < Unwritten[j].id
        /\ \A x \in Written, y \in Ids(Unwritten) : x < y
    BY <1>0, Zenon DEF LogOrder
  <2>5. /\ \A i, j \in DOMAIN file' : i < j => file'[i] < file'[j]
        /\ \A i, j \in DOMAIN Unwritten' : i < j => Unwritten'[i].id < Unwritten'[j].id
        /\ \A x \in Written', y \in Ids(Unwritten)' : x < y
    BY <1>1, <1>2, <2>4, Zenon
  <2>6. /\ \A x \in Written' \cup Ids(Unwritten)', y \in Queued' : x < y
        /\ ~diskFails' => Written' \cup Ids(Unwritten)' \cup Queued' = 1..sent'
    BY <1>1, <1>2, <2>2, <2>3
  <2> QED BY <2>1, <2>5, <2>6, Zenon DEF LogOrder, IsSpecial
<1>9. \A x \in Written' \cup Ids(Unwritten)' \cup Ids(walCh)' : x <= sent'
  BY <1>0, <1>2, <1>3, <1>6, <1>7
<1>10. ExitSynced' BY <1>1, <1>2 DEF LogInv, ExitSynced
<1> QED BY <1>1, <1>2, <1>8, <1>9, <1>10 DEF LogInv

\* A step that moves no line.
LEMMA NoLineMoves ==
  ASSUME TypeInv, LogInv, UNCHANGED <<walCh, sent, file, diskFails>>, Unwritten' = Unwritten,
         fpc' \in {"select", "special", "final", "exited"} => batch' = <<>>,
         ~diskFails => ~bwErr' /\ ferr' = "ok" /\ Written \subseteq durable' \cup dirty',
         fpc' = "exited" /\ ~diskFails => Written \subseteq durable'
  PROVE  LogInv'
<1>1. Written' = Written /\ Ids(Unwritten)' = Ids(Unwritten) /\ Ids(walCh)' = Ids(walCh)
  BY Zenon DEF Written, Ids
<1>2. Queued' = Queued BY <1>1, Zenon DEF Queued
<1>3. LogOrder' BY <1>1, <1>2, Zenon DEF LogInv, LogOrder, IsSpecial
<1>4. ExitSynced' BY <1>1, Zenon DEF ExitSynced
<1> QED BY <1>1, <1>3, <1>4, Zenon DEF LogInv

\* flushBatch appends the first n lines of the batch to the file.
LEMMA WriteOrdered ==
  ASSUME TypeInv, LogInv, FlusherWrite
  PROVE  LogInv'
<1>0. /\ walCh \in Seq(Message) /\ batch \in Seq(Message) /\ file \in Seq(Nat) /\ sent \in Nat
      /\ LogOrder /\ Len(batch) \in Nat /\ DOMAIN batch = 1..Len(batch)
      /\ DOMAIN file = 1..Len(file) /\ Len(file) \in Nat
  BY SeqIs, Zenon DEF TypeInv, TypeOK, LogInv
<1>1. /\ fpc = "flush" /\ fpc' \in {"sync", "signal"} /\ UNCHANGED <<walCh, sent, diskFails, durable>>
      /\ bwErr => diskFails
  BY Zenon DEF FlusherWrite, chanVars, LogInv
<1>2. Unwritten = batch /\ Unwritten' = <<>> BY <1>1, Zenon DEF Unwritten
<1>3. PICK n \in 0..Len(batch) :
        /\ file' = file \o BatchLines(n) /\ dirty' = dirty \cup {batch[i].id : i \in 1..n}
        /\ ~diskFails => n = Len(batch) /\ ferr' = "ok" /\ ~bwErr'
  <2>1. BatchLines(0) \in Seq(Nat) /\ Len(BatchLines(0)) = 0 BY <1>0, SeqMade DEF BatchLines
  <2>2. file \o BatchLines(0) = file
    <3>1. BatchLines(0) = <<>> BY <2>1, SeqIs
    <3> QED BY <1>0, <3>1, SeqNone, Zenon
  <2>3. dirty \cup {batch[i].id : i \in 1..0} = dirty OBVIOUS
  <2>4. CASE bwErr
    <3>1. diskFails /\ file' = file /\ dirty' = dirty BY <1>1, <2>4, Zenon DEF FlusherWrite
    <3>2. 0 \in 0..Len(batch) BY <1>0
    <3> QED BY <2>2, <2>3, <3>1, <3>2, Zenon
  <2>5. CASE ~bwErr /\ file' = file \o BatchLines(Len(batch)) /\ dirty' = dirty \cup Ids(batch)
             /\ ferr' = "ok" /\ bwErr' = bwErr
    <3>1. Len(batch) \in 0..Len(batch) /\ Ids(batch) = {batch[i].id : i \in 1..Len(batch)}
      BY <1>0 DEF Ids
    <3> QED BY <2>5, <3>1, Zenon
  <2>6. CASE diskFails /\ \E n \in 0..(Len(batch) - 1) :
                            /\ file' = file \o BatchLines(n)
                            /\ dirty' = dirty \cup {batch[i].id : i \in 1..n}
    <3>1. \A n \in 0..(Len(batch) - 1) : n \in 0..Len(batch) BY <1>0
    <3> QED BY <2>6, <3>1, Zenon
  <2> QED BY <2>4, <2>5, <2>6, Zenon DEF FlusherWrite
<1> DEFINE b == BatchLines(n)
<1>4. /\ b \in Seq(Nat) /\ Len(b) = n /\ \A i \in 1..n : b[i] = batch[i].id /\ i \in 1..Len(batch)
  <2>1. b \in Seq(Nat) BY LinesTyped, Zenon
  <2>2. DOMAIN b = 1..n /\ n \in Nat BY <1>0 DEF BatchLines
  <2>3. Len(b) = n BY <2>1, <2>2, SeqIs
  <2>4. \A i \in 1..n : b[i] = batch[i].id BY Zenon DEF BatchLines
  <2>5. \A i \in 1..n : i \in 1..Len(batch) BY <1>0
  <2> QED BY <2>1, <2>3, <2>4, <2>5, Zenon
<1> HIDE DEF b
<1>5. /\ Len(file') = Len(file) + n /\ file' \in Seq(Nat) /\ DOMAIN file' = 1..(Len(file) + n)
      /\ \A i \in 1..Len(file) : file'[i] = file[i]
      /\ \A i \in 1..n : file'[Len(file) + i] = batch[i].id
  <2>1. file' = file \o b BY <1>3, Zenon DEF b
  <2>2. /\ Len(file') = Len(file) + n /\ file' \in Seq(Nat)
        /\ \A i \in 1..(Len(file) + n) :
             file'[i] = IF i <= Len(file) THEN file[i] ELSE b[i - Len(file)]
    BY <1>0, <1>4, <2>1, SeqJoin, Zenon
  <2>3. \A i \in 1..Len(file) : i \in 1..(Len(file) + n) /\ i <= Len(file) BY <1>0
  <2>4. \A i \in 1..n : /\ Len(file) + i \in 1..(Len(file) + n) /\ ~(Len(file) + i <= Len(file))
                        /\ Len(file) + i - Len(file) = i
    BY <1>0
  <2>5. DOMAIN file' = 1..(Len(file) + n) BY <2>2, SeqIs, Zenon
  <2>6. \A i \in 1..Len(file) : file'[i] = file[i] BY <2>2, <2>3, Zenon
  <2>7. ASSUME NEW i \in 1..n PROVE file'[Len(file) + i] = batch[i].id
    <3> DEFINE j == Len(file) + i
    <3>1. j \in 1..(Len(file) + n) /\ ~(j <= Len(file)) /\ j - Len(file) = i BY <2>4
    <3> HIDE DEF j
    <3>2. file'[j] = b[j - Len(file)] BY <2>2, <3>1, Zenon
    <3>3. file'[j] = batch[i].id BY <1>4, <3>1, <3>2, Zenon
    <3> QED BY <3>3, Zenon DEF j
  <2> QED BY <2>2, <2>5, <2>6, <2>7, Zenon
<1>6. \A i \in DOMAIN file' : i \in 1..Len(file) \/ \E k \in 1..n : i = Len(file) + k
  <2> SUFFICES ASSUME NEW i \in 1..(Len(file) + n), ~(i \in 1..Len(file))
               PROVE  \E k \in 1..n : i = Len(file) + k
    BY <1>5, Zenon
  <2>1. i - Len(file) \in 1..n /\ i = Len(file) + (i - Len(file)) BY <1>0
  <2> QED BY <2>1, Zenon
<1>7. Written' = Written \cup {batch[k].id : k \in 1..n}
  <2>1. ASSUME NEW x \in Written' PROVE x \in Written \cup {batch[k].id : k \in 1..n}
    <3>1. PICK i \in DOMAIN file' : x = file'[i] BY Zenon DEF Written
    <3>2. CASE i \in 1..Len(file) BY <1>0, <1>5, <3>1, <3>2, Zenon DEF Written
    <3>3. CASE \E k \in 1..n : i = Len(file) + k BY <1>5, <3>1, <3>3, Zenon
    <3> QED BY <1>6, <3>2, <3>3, Zenon
  <2>2. ASSUME NEW x \in Written PROVE x \in Written'
    <3>1. PICK i \in 1..Len(file) : x = file[i] BY <1>0, Zenon DEF Written
    <3>2. i \in DOMAIN file' BY <1>0, <1>5
    <3> QED BY <1>5, <3>1, <3>2, Zenon DEF Written
  <2>3. ASSUME NEW k \in 1..n PROVE batch[k].id \in Written'
    <3>1. Len(file) + k \in DOMAIN file' BY <1>0, <1>5
    <3> QED BY <1>5, <3>1, Zenon DEF Written
  <2> QED BY <2>1, <2>2, <2>3, Zenon
<1>8. \A k \in 1..n : k \in DOMAIN batch /\ batch[k].id \in Ids(batch) /\ batch[k].id \in Nat
  BY <1>0, <1>4, IdsOf, Zenon
<1>9. Ids(Unwritten)' = {} /\ Ids(walCh)' = Ids(walCh) BY <1>1, <1>2 DEF Ids
<1>10. Queued' = Queued BY <1>9, Zenon DEF Queued
<1>11. ASSUME NEW i \in DOMAIN file', NEW j \in DOMAIN file', i < j PROVE file'[i] < file'[j]
  <2>1. CASE i \in 1..Len(file) /\ j \in 1..Len(file) BY <1>0, <1>5, <1>11, <2>1, Zenon DEF LogOrder
  <2>2. ASSUME i \in 1..Len(file), NEW k \in 1..n, j = Len(file) + k PROVE file'[i] < file'[j]
    <3>1. file[i] \in Written BY <1>0, <2>2, Zenon DEF Written
    <3> QED BY <1>0, <1>2, <1>5, <1>8, <2>2, <3>1, Zenon DEF LogOrder
  <2>3. ASSUME NEW l \in 1..n, i = Len(file) + l, NEW k \in 1..n, j = Len(file) + k
        PROVE  file'[i] < file'[j]
    <3>1. l < k BY <1>0, <1>11, <2>3
    <3>2. batch[l].id < batch[k].id BY <1>0, <1>2, <1>8, <3>1, Zenon DEF LogOrder
    <3>3. file'[i] = batch[l].id /\ file'[j] = batch[k].id BY <1>5, <2>3, Zenon
    <3> QED BY <3>2, <3>3, Zenon
  <2>4. ASSUME NEW l \in 1..n, i = Len(file) + l, j \in 1..Len(file) PROVE FALSE
    BY <1>0, <1>11, <2>4
  <2> QED BY <1>6, <2>1, <2>2, <2>3, <2>4, Zenon
<1>12. LogOrder'
  <2>1. \A x \in Written' \cup Ids(Unwritten)', y \in Queued' : x < y
    BY <1>0, <1>2, <1>7, <1>8, <1>9, <1>10, Zenon DEF LogOrder
  <2>2. ASSUME ~diskFails PROVE Written' \cup Ids(Unwritten)' \cup Queued' = 1..sent'
    <3>1. Ids(batch) = {batch[k].id : k \in 1..n} BY <1>0, <1>3, <2>2, Zenon DEF Ids
    <3> QED BY <1>0, <1>1, <1>2, <1>7, <1>9, <1>10, <2>2, <3>1, Zenon DEF LogOrder
  <2>3. \A i, j \in DOMAIN walCh' :
          i < j /\ ~IsSpecial(walCh'[i]) /\ ~IsSpecial(walCh'[j]) => walCh'[i].id < walCh'[j].id
    BY <1>0, <1>1, Zenon DEF LogOrder
  <2>4. \A i, j \in DOMAIN Unwritten' : i < j => Unwritten'[i].id < Unwritten'[j].id BY <1>2
  <2> QED BY <1>1, <1>9, <1>11, <2>1, <2>2, <2>3, <2>4, Zenon DEF LogOrder, IsSpecial
<1>13. \A x \in Written' \cup Ids(Unwritten)' \cup Ids(walCh)' : x <= sent'
  BY <1>1, <1>2, <1>7, <1>8, <1>9, Zenon DEF LogInv
<1>14. ~diskFails => ~bwErr' /\ ferr' = "ok" /\ Written' \subseteq durable' \cup dirty'
  BY <1>1, <1>3, <1>7, Zenon DEF LogInv
<1>15. ExitSynced' BY <1>1, Zenon DEF ExitSynced
<1> QED BY <1>1, <1>12, <1>13, <1>14, <1>15, Zenon DEF LogInv

\* The other steps move no line, and on a working disk they lose none.
LEMMA OthersOrdered ==
  ASSUME TypeInv, LogInv,
         \/ FlusherTick \/ FlusherSync \/ FlusherSignal \/ FlusherSpecial \/ FlusherStop
         \/ FlusherFinalSync
  PROVE  LogInv'
<1>0. /\ ~diskFails => ~bwErr /\ ferr = "ok" /\ Written \subseteq durable \cup dirty
      /\ fpc \in {"select", "special", "final", "exited"} => batch = <<>>
  BY Zenon DEF LogInv
<1>1. CASE FlusherTick
  <2>1. UNCHANGED <<walCh, sent, file, diskFails, fpc, batch, bwErr, ferr>> /\ fpc = "select"
    BY <1>1, Zenon DEF FlusherTick, chanVars, flushVars
  <2>2. ~diskFails => Written \subseteq durable' \cup dirty'
    <3>1. CASE pendingSync BY <1>0, <1>1, <3>1, SyncComplete, Zenon DEF FlusherTick
    <3>2. CASE ~pendingSync BY <1>0, <1>1, <3>2, Zenon DEF FlusherTick
    <3> QED BY <3>1, <3>2, Zenon
  <2>3. Unwritten' = Unwritten BY <2>1, Zenon DEF Unwritten
  <2> QED BY <1>0, <2>1, <2>2, <2>3, NoLineMoves, Zenon
<1>2. CASE FlusherSync
  <2>1. /\ UNCHANGED <<walCh, sent, file, diskFails, batch, bwErr>>
        /\ fpc = "sync" /\ fpc' = "signal"
    BY <1>2, Zenon DEF FlusherSync, chanVars
  <2>2. ~diskFails => ferr' = "ok" /\ Written \subseteq durable' \cup dirty'
    BY <1>0, <1>2, SyncComplete, Zenon DEF FlusherSync
  <2>3. Unwritten' = Unwritten BY <2>1, Zenon DEF Unwritten
  <2> QED BY <1>0, <2>1, <2>2, <2>3, NoLineMoves, Zenon
<1>3. CASE FlusherSignal
  <2>1. /\ UNCHANGED <<walCh, sent, file, diskFails, bwErr, ferr, durable, dirty>>
        /\ fpc = "signal" /\ batch' = <<>> /\ fpc' \in {"final", "exited", "special", "select"}
        /\ fpc' = "exited" => ferr # "ok"
    BY <1>3, Zenon DEF FlusherSignal, AfterSignal, diskVars
  <2>2. Unwritten' = Unwritten BY <2>1, Zenon DEF Unwritten
  <2> QED BY <1>0, <2>1, <2>2, NoLineMoves, Zenon
<1>4. CASE FlusherSpecial
  <2>1. special \in Seq(Message) /\ special # <<>> BY <1>4, Zenon DEF FlusherSpecial, TypeInv,
      TypeOK, Tagged
  <2>2. special[1] \in Message BY <2>1, SeqIs
  <2>3. /\ UNCHANGED <<walCh, sent, file, diskFails, batch, ferr>>
        /\ fpc = "special" /\ fpc' = "select" /\ HandleSpecial(special[1])
    BY <1>4, Zenon DEF FlusherSpecial, HandleSpecial
  <2>4. ~diskFails => ~bwErr' /\ Written \subseteq durable' \cup dirty'
    BY <1>0, <2>2, <2>3, SpecialComplete, Zenon
  <2>5. Unwritten' = Unwritten BY <2>3, Zenon DEF Unwritten
  <2> QED BY <1>0, <2>3, <2>4, <2>5, NoLineMoves, Zenon
<1>5. CASE FlusherStop
  <2>1. /\ UNCHANGED <<walCh, sent, file, diskFails, bwErr, ferr, durable, dirty, batch>>
        /\ fpc = "select" /\ fpc' = "stopdrain"
    BY <1>5, Zenon DEF FlusherStop, chanVars, diskVars
  <2>2. Unwritten' = Unwritten BY <2>1, Zenon DEF Unwritten
  <2> QED BY <1>0, <2>1, <2>2, NoLineMoves, Zenon
<1>6. CASE FlusherFinalSync
  <2>1. /\ UNCHANGED <<walCh, sent, file, diskFails, bwErr, ferr, batch>>
        /\ fpc = "final" /\ fpc' = "exited"
    BY <1>6, Zenon DEF FlusherFinalSync, chanVars
  <2>2. ~diskFails => Written \subseteq durable'
    BY <1>0, <1>6, SyncComplete, Zenon DEF FlusherFinalSync
  <2>3. Unwritten' = Unwritten BY <2>1, Zenon DEF Unwritten
  <2> QED BY <1>0, <2>1, <2>2, <2>3, NoLineMoves, Zenon
<1> QED BY <1>1, <1>2, <1>3, <1>4, <1>5, <1>6, Zenon

\* The callers, Compact and Close: they leave the flusher and the disk alone.
LEMMA CallersOrdered ==
  ASSUME TypeInv, LogInv,
         \/ \E c \in Callers : Call(c) \/ CheckErr(c) \/ ClearErr(c) \/ Send(c) \/ Return(c)
         \/ CompactSend \/ CompactReturn \/ Close \/ UNCHANGED vars
  PROVE  LogInv'
<1>0. sent \in Nat /\ walCh \in Seq(Message) BY Zenon DEF TypeInv, TypeOK
<1>1. UNCHANGED <<flushVars, diskVars, config>>
  BY Zenon DEF Call, CheckErr, ClearErr, Send, Return, CompactSend, CompactReturn, Close, vars
<1>2. ASSUME NEW c \in Callers, Send(c) PROVE LogInv'
  <2> DEFINE m == [from |-> c, id |-> sent + 1]
  <2>1. m \in Message /\ m.id = sent + 1 BY <1>0 DEF Message, Procs
  <2>2. walCh' = Append(walCh, m) /\ sent' = sent + 1 BY <1>2, Zenon DEF Send, NewMessage
  <2> HIDE DEF m
  <2> QED BY <1>1, <2>1, <2>2, AppendOrdered, Zenon
<1>3. CASE CompactSend
  <2> DEFINE m == [from |-> Compactor, id |-> 0]
  <2>1. m \in Message /\ m.id = 0 BY Zenon DEF Message, Procs
  <2>2. walCh' = Append(walCh, m) /\ sent' = sent BY <1>3, Zenon DEF CompactSend
  <2> HIDE DEF m
  <2> QED BY <1>1, <2>1, <2>2, AppendOrdered, Zenon
<1>4. CASE UNCHANGED <<walCh, sent>>
  <2>1. UNCHANGED <<fpc, batch, ferr, bwErr, file, dirty, durable, diskFails>>
    BY <1>1, Zenon DEF flushVars, diskVars
  <2>2. Unwritten' = Unwritten BY <2>1, Zenon DEF Unwritten
  <2> QED BY <1>4, <2>1, <2>2, NoLineMoves, Zenon DEF LogInv, ExitSynced
<1>5. UNCHANGED <<walCh, sent>> \/ CompactSend \/ \E c \in Callers : Send(c)
  BY Zenon DEF Call, CheckErr, ClearErr, Return, CompactReturn, Close, vars, chanVars
<1> QED BY <1>2, <1>3, <1>4, <1>5, Zenon

\* The log starts empty, and no step spoils its order.
LEMMA LogKept == Spec => []LogInv
<1>1. Init => LogInv
  <2> SUFFICES ASSUME Init PROVE LogInv BY Zenon
  <2>1. file = <<>> /\ batch = <<>> /\ walCh = <<>> /\ fpc = "select" /\ sent = 0 /\ 1..0 = {}
    BY DEF Init
  <2>2. Written = {} /\ Unwritten = <<>> /\ Ids(Unwritten) = {} /\ Ids(walCh) = {} /\ Queued = {}
    BY <2>1 DEF Written, Unwritten, Ids, Queued
  <2>3. LogOrder BY <2>1, <2>2 DEF LogOrder
  <2> QED BY <2>1, <2>2, <2>3, Zenon DEF LogInv, ExitSynced, Init
<1>2. TypeInv /\ LogInv /\ [Next]_vars => LogInv'
  BY ReceiveOrdered, WriteOrdered, OthersOrdered, CallersOrdered, Zenon DEF Next
<1> QED BY <1>1, <1>2, InitTyped, NextTyped, PTL DEF Spec

\* Lines reach the file in the order they entered walCh, none twice, and on a
\* working disk none is lost, for any number of callers, any channel capacity and
\* batch size, whatever Compact and Close do meanwhile.
THEOREM LinesStayInOrder == Spec => []LogOrder
<1>1. LogInv => LogOrder BY Zenon DEF LogInv
<1> QED BY <1>1, LogKept, PTL

\* A flusher that has returned on a working disk has left every line of the file
\* durable, in every fsync mode.
THEOREM ExitLeavesAllSynced == Spec => []ExitSynced
<1>1. LogInv => ExitSynced BY Zenon DEF LogInv
<1> QED BY <1>1, LogKept, PTL
=============================================================================
