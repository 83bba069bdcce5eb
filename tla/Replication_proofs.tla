-------------------------- MODULE Replication_proofs --------------------------
(* Proofs about Replication: type correctness, and that snapshot and stream     *)
(* leave a connected replica without gaps (ReplicaTracks, QuietInSync), and      *)
(* that handler and client do not wait for each other (SomeoneMoves).           *)
EXTENDS Replication, TLAPS

-----------------------------------------------------------------------------
(* Sequences of lines *)

LEMMA LineAt ==
  ASSUME NEW q \in Seq(Line), NEW i \in DOMAIN q
  PROVE  q[i] \in Line /\ q[i].key \in Keys /\ q[i].rec \in Rec
<1>1. q[i] \in Line
  OBVIOUS
<1> QED
  BY <1>1, Zenon DEF Line

LEMMA HeadTailLines ==
  ASSUME NEW q \in Seq(Line), q # <<>>
  PROVE  /\ Head(q) \in Line /\ Head(q).key \in Keys /\ Head(q).rec \in Rec
         /\ Tail(q) \in Seq(Line) /\ Len(Tail(q)) = Len(q) - 1 /\ Len(q) > 0
<1>1. Head(q) \in Line /\ Tail(q) \in Seq(Line) /\ Len(Tail(q)) = Len(q) - 1 /\ Len(q) > 0
  OBVIOUS
<1> QED
  BY <1>1, Zenon DEF Line

\* A line appended about k is the last word on k.
LEMMA AppendSays ==
  ASSUME NEW q \in Seq(Line), NEW l \in Line, NEW e, NEW t, Same(l.rec, e, t)
  PROVE  Says(Append(q, l), l.key, e, t)
<1>1. Append(q, l)[Len(q) + 1] = l /\ Len(q) + 1 \in DOMAIN Append(q, l)
  OBVIOUS
<1>2. \A j \in DOMAIN Append(q, l) : ~(j > Len(q) + 1)
  OBVIOUS
<1> QED
  BY <1>1, <1>2, Zenon DEF Says

\* A line appended about another key changes nothing for k.
LEMMA AppendOther ==
  ASSUME NEW q \in Seq(Line), NEW l \in Line, NEW k, l.key # k, NEW e, NEW t
  PROVE  /\ Says(q, k, e, t) => Says(Append(q, l), k, e, t)
         /\ ~Mentions(q, k) => ~Mentions(Append(q, l), k)
<1>1. /\ DOMAIN Append(q, l) = 1..(Len(q) + 1) /\ DOMAIN q = 1..Len(q)
      /\ \A i \in 1..Len(q) : Append(q, l)[i] = q[i]
      /\ Append(q, l)[Len(q) + 1] = l /\ Len(q) \in Nat
  OBVIOUS
<1> DEFINE p == Append(q, l)
<1> HIDE DEF p
<1>2. ASSUME Says(q, k, e, t) PROVE Says(p, k, e, t)
  <2>1. PICK i \in DOMAIN q : /\ q[i].key = k /\ Same(q[i].rec, e, t)
                              /\ \A j \in DOMAIN q : j > i => q[j].key # k
    BY <1>2, Zenon DEF Says
  <2>2. i \in DOMAIN p /\ p[i] = q[i]
    BY <1>1, <2>1 DEF p
  <2>3. ASSUME NEW j \in DOMAIN p, j > i PROVE p[j].key # k
    BY <1>1, <2>1, <2>3 DEF p
  <2> QED
    BY <2>1, <2>2, <2>3, Zenon DEF Says
<1>3. ASSUME ~Mentions(q, k) PROVE ~Mentions(p, k)
  <2>1. ASSUME NEW j \in DOMAIN p PROVE p[j].key # k
    BY <1>1, <1>3 DEF Mentions, p
  <2> QED
    BY <2>1, Zenon DEF Mentions
<1> QED
  BY <1>2, <1>3, Zenon DEF p

\* Taking the first line away: it was the last word on k, or the last word stays.
LEMMA TailSays ==
  ASSUME NEW q \in Seq(Line), q # <<>>, NEW k, NEW e, NEW t
  PROVE  /\ Says(q, k, e, t) =>
              \/ Says(Tail(q), k, e, t)
              \/ Head(q).key = k /\ Same(Head(q).rec, e, t) /\ ~Mentions(Tail(q), k)
         /\ ~Mentions(q, k) => ~Mentions(Tail(q), k) /\ Head(q).key # k
<1> DEFINE p == Tail(q)
<1>1. /\ DOMAIN q = 1..Len(q) /\ Len(q) \in Nat /\ Len(q) > 0 /\ Head(q) = q[1]
      /\ DOMAIN p = 1..(Len(q) - 1) /\ \A i \in 1..(Len(q) - 1) : p[i] = q[i + 1]
  OBVIOUS
<1> HIDE DEF p
<1>2. ASSUME Says(q, k, e, t)
      PROVE  Says(p, k, e, t) \/ (Head(q).key = k /\ Same(Head(q).rec, e, t) /\ ~Mentions(p, k))
  <2>1. PICK i \in DOMAIN q : /\ q[i].key = k /\ Same(q[i].rec, e, t)
                              /\ \A j \in DOMAIN q : j > i => q[j].key # k
    BY <1>2, Zenon DEF Says
  <2>2. CASE i = 1
    <3>1. ASSUME NEW j \in DOMAIN p PROVE p[j].key # k
      BY <1>1, <2>1, <2>2
    <3> QED
      BY <1>1, <2>1, <2>2, <3>1, Zenon DEF Mentions
  <2>3. CASE i # 1
    <3>1. i - 1 \in DOMAIN p /\ p[i - 1] = q[i]
      BY <1>1, <2>3
    <3>2. ASSUME NEW j \in DOMAIN p, j > i - 1 PROVE p[j].key # k
      <4>1. j + 1 \in DOMAIN q /\ j + 1 > i /\ p[j] = q[j + 1]
        BY <1>1, <3>2
      <4> QED
        BY <4>1, <2>1, Zenon
    <3> QED
      BY <2>1, <3>1, <3>2, Zenon DEF Says
  <2> QED
    BY <2>2, <2>3, Zenon
<1>3. ASSUME ~Mentions(q, k) PROVE ~Mentions(p, k) /\ Head(q).key # k
  <2>1. ASSUME NEW j \in DOMAIN p PROVE p[j].key # k
    <3>1. j + 1 \in DOMAIN q /\ p[j] = q[j + 1]
      BY <1>1
    <3> QED
      BY <3>1, <1>3, Zenon DEF Mentions
  <2>2. 1 \in DOMAIN q
    BY <1>1
  <2> QED
    BY <1>1, <1>3, <2>1, <2>2, Zenon DEF Mentions
<1> QED
  BY <1>2, <1>3, Zenon DEF p

-----------------------------------------------------------------------------
(* Records in time *)

\* What is the same stays the same when the clock moves on.
LEMMA SameLater ==
  ASSUME NEW a \in Rec, NEW b \in Rec, NEW t \in Nat, NEW u \in Nat, t <= u, Same(a, b, t)
  PROVE  Same(a, b, u)
BY DEF Same, Dead, Rec

\* A sweep replaces a record by one that is the same.
LEMMA SameSwept ==
  ASSUME NEW a, NEW b, NEW t, Same(a, b, t)
  PROVE  Same(a, IF Dead(b, t) THEN NoRec ELSE b, t)
BY Zenon DEF Same, Dead, NoRec

LEMMA SameSym ==
  ASSUME NEW a, NEW b, NEW t, Same(a, b, t)
  PROVE  Same(b, a, t)
BY Zenon DEF Same

LEMMA SameTrans ==
  ASSUME NEW a, NEW b, NEW c, NEW t, Same(a, b, t), Same(b, c, t)
  PROVE  Same(a, c, t)
BY Zenon DEF Same

\* The last word stays the last word for a record that is the same.
LEMMA SaysSame ==
  ASSUME NEW q, NEW k, NEW a, NEW b, NEW t, Says(q, k, a, t), Same(a, b, t)
  PROVE  Says(q, k, b, t)
BY SameTrans, Zenon DEF Says

LEMMA SaysLater ==
  ASSUME NEW q \in Seq(Line), NEW k, NEW a \in Rec, NEW t \in Nat, NEW u \in Nat, t <= u,
         Says(q, k, a, t)
  PROVE  Says(q, k, a, u)
<1>1. \A i \in DOMAIN q : q[i].rec \in Rec
  BY LineAt, Zenon
<1> QED
  BY <1>1, SameLater, Zenon DEF Says

-----------------------------------------------------------------------------
(* Type correctness *)

LEMMA NoRecType == NoRec \in Rec
BY Zenon DEF NoRec, Rec

\* One key changed in the index keeps the types.
LEMMA IndexChangeTypes ==
  ASSUME TypeOK, OpShape, NEW s \in Sessions, NEW l \in Line, NEW rest \in Seq(Line),
         IndexChange(s, l, rest), nops' \in Nat
  PROVE  TypeOK' /\ OpShape'
<1>1. l.key \in Keys /\ l.rec \in Rec
  BY Zenon DEF Line
<1>2. op[s] \in OpType /\ op[s].sent \in Seq(Line)
  BY Zenon DEF TypeOK, OpType
<1>3. Append(op[s].sent, l) \in Seq(Line)
  BY <1>2
<1>4. op' \in [Sessions -> OpType] /\ OpShape'
  BY <1>3, Zenon DEF TypeOK, OpType, OpShape, IndexChange
<1>5. index' \in [Keys -> Rec] /\ owner' \in [Keys -> Sessions \cup {NoOne}]
  BY <1>1, Zenon DEF TypeOK, IndexChange
<1> QED
  BY <1>4, <1>5, Zenon DEF TypeOK, IndexChange, handlerVars, wireVars, replicaVars

LEMMA NewRecType ==
  ASSUME TypeOK, NEW e \in Nat
  PROVE  NewRec(e) \in Rec
BY DEF NewRec, Rec, TypeOK

\* Taking the first line of out[r] keeps its types.
LEMMA ConsumeTypes ==
  ASSUME TypeOK, NEW r \in Replicas, MayApply(r), Consume(r)
  PROVE  /\ out[r] # <<>>
         /\ out' \in [Replicas -> Seq(Line)] /\ queued' \in [Replicas -> Nat]
         /\ toRead' \in [Replicas -> Nat]
         /\ \A x \in Replicas : queued'[x] <= Len(out'[x]) /\ (client[x] = "go" => queued'[x] = 0)
<1>1. out[r] \in Seq(Line) /\ queued[r] \in Nat /\ queued[r] <= Len(out[r]) /\ toRead[r] \in Nat
  BY Zenon DEF TypeOK
<1>2. out[r] # <<>>
  BY <1>1 DEF MayApply
<1>3. Tail(out[r]) \in Seq(Line) /\ Len(Tail(out[r])) = Len(out[r]) - 1
  BY <1>1, <1>2, HeadTailLines, Zenon
<1>4. out' = [out EXCEPT ![r] = Tail(out[r])]
  BY Zenon DEF Consume
<1>5. CASE client[r] = "python"
  <2>1. queued' = [queued EXCEPT ![r] = queued[r] - 1] /\ queued[r] > 0 /\ toRead' = toRead
    BY <1>5, Zenon DEF Consume, MayApply
  <2>2. ASSUME NEW x \in Replicas PROVE queued'[x] <= Len(out'[x]) /\ (client[x] = "go" => queued'[x] = 0) /\ queued'[x] \in Nat
    <3>1. CASE x = r
      BY <1>1, <1>3, <1>4, <2>1, <3>1 DEF TypeOK
    <3>2. CASE x # r
      BY <1>4, <2>1, <3>2, Zenon DEF TypeOK
    <3> QED
      BY <3>1, <3>2, Zenon
  <2>3. queued' \in [Replicas -> Nat] /\ toRead' \in [Replicas -> Nat]
    BY <2>1, <2>2, Zenon DEF TypeOK
  <2>4. out' \in [Replicas -> Seq(Line)]
    BY <1>3, <1>4, Zenon DEF TypeOK
  <2> QED
    BY <1>2, <2>2, <2>3, <2>4, Zenon
<1>6. CASE client[r] # "python"
  <2>1. /\ toRead' = [toRead EXCEPT ![r] = IF toRead[r] > 0 THEN toRead[r] - 1 ELSE 0]
        /\ queued' = queued
    BY <1>6, Zenon DEF Consume
  <2>2. toRead' \in [Replicas -> Nat] /\ queued' \in [Replicas -> Nat]
    BY <1>1, <2>1 DEF TypeOK
  <2>3. out' \in [Replicas -> Seq(Line)]
    BY <1>3, <1>4, Zenon DEF TypeOK
  <2>4. ASSUME NEW x \in Replicas PROVE queued'[x] <= Len(out'[x]) /\ (client[x] = "go" => queued'[x] = 0)
    <3>1. CASE x = r
      <4>1. client[r] = "go" /\ queued'[r] = 0
        BY <1>6, <2>1, Zenon DEF TypeOK
      <4>2. Len(out'[r]) \in Nat
        BY <2>3
      <4> QED
        BY <3>1, <4>1, <4>2
    <3>2. CASE x # r
      BY <1>4, <2>1, <3>2, Zenon DEF TypeOK
    <3> QED
      BY <3>1, <3>2, Zenon
  <2> QED
    BY <1>2, <2>2, <2>3, <2>4, Zenon
<1> QED
  BY <1>5, <1>6, Zenon

\* Every step keeps the types.
LEMMA TypeStep ==
  ASSUME TypeOK, OpShape, [Next]_vars
  PROVE  TypeOK' /\ OpShape'
<1> USE ReplicationConstants
<1>1. ASSUME NEW s \in Sessions, Write(s) PROVE TypeOK' /\ OpShape'
  <2>1. PICK k \in Keys, e \in {0, now, now + 1} \cap 0..MaxTime :
          NewOp(s) /\ IndexChange(s, [key |-> k, rec |-> NewRec(e)], <<>>)
    BY <1>1, Zenon DEF Write
  <2>2. NewRec(e) \in Rec /\ nops' \in Nat
    BY <2>1, NewRecType DEF NewOp, TypeOK
  <2> DEFINE l == [key |-> k, rec |-> NewRec(e)]
  <2>3. l \in Line /\ <<>> \in Seq(Line)
    BY <2>2 DEF Line
  <2>4. IndexChange(s, l, <<>>)
    BY <2>1, Zenon
  <2> HIDE DEF l
  <2> QED
    BY <2>2, <2>3, <2>4, IndexChangeTypes, Zenon
<1>2. ASSUME NEW s \in Sessions, Delete(s) PROVE TypeOK' /\ OpShape'
  <2>1. PICK k \in Keys : NewOp(s) /\ IndexChange(s, [key |-> k, rec |-> NoRec], <<>>)
    BY <1>2, Zenon DEF Delete
  <2> DEFINE l == [key |-> k, rec |-> NoRec]
  <2>2. l \in Line /\ <<>> \in Seq(Line) /\ nops' \in Nat
    BY <2>1, NoRecType DEF NewOp, TypeOK, Line
  <2>3. IndexChange(s, l, <<>>)
    BY <2>1, Zenon
  <2> HIDE DEF l
  <2> QED
    BY <2>2, <2>3, IndexChangeTypes, Zenon
<1>3. ASSUME NEW s \in Sessions, Commit(s) PROVE TypeOK' /\ OpShape'
  <2>1. PICK k1 \in Keys, k2 \in Keys, rec1 \in {NewRec(0), NoRec}, rec2 \in {NewRec(0), NoRec} :
          NewOp(s) /\ IndexChange(s, [key |-> k1, rec |-> rec1], <<[key |-> k2, rec |-> rec2]>>)
    BY <1>3, Zenon DEF Commit
  <2>2. rec1 \in Rec /\ rec2 \in Rec /\ nops' \in Nat
    BY <2>1, NewRecType, NoRecType DEF NewOp, TypeOK
  <2> DEFINE l1 == [key |-> k1, rec |-> rec1]
             l2 == [key |-> k2, rec |-> rec2]
  <2>3. l1 \in Line /\ l2 \in Line
    BY <2>2, Zenon DEF Line
  <2>4. IndexChange(s, l1, <<l2>>)
    BY <2>1, Zenon
  <2> HIDE DEF l1, l2
  <2>5. <<l2>> \in Seq(Line)
    BY <2>3
  <2> QED
    BY <2>2, <2>3, <2>4, <2>5, IndexChangeTypes, Zenon
<1>4. ASSUME NEW s \in Sessions, CommitStep(s) PROVE TypeOK' /\ OpShape'
  <2>1. op[s].todo \in Seq(Line) /\ op[s].todo # <<>> /\ nops' \in Nat
    BY <1>4, Zenon DEF CommitStep, TypeOK, OpType, OpShape
  <2>2. Head(op[s].todo) \in Line /\ Tail(op[s].todo) \in Seq(Line)
    BY <2>1, HeadTailLines, Zenon
  <2> QED
    BY <1>4, <2>1, <2>2, IndexChangeTypes, Zenon DEF CommitStep
<1>5. ASSUME NEW s \in Sessions, Send(s) PROVE TypeOK' /\ OpShape'
  <2> DEFINE l == Head(op[s].sent)
  <2>1. op[s].sent \in Seq(Line) /\ op[s].sent # <<>> /\ op[s] \in OpType /\ op[s].pc = "send"
    BY <1>5, Zenon DEF Send, TypeOK, OpType
  <2>2. l \in Line /\ l.key \in Keys /\ Tail(op[s].sent) \in Seq(Line)
    BY <2>1, HeadTailLines, Zenon
  <2> HIDE DEF l
  <2>3. op' \in [Sessions -> OpType] /\ OpShape'
    <3>1. [pc |-> "send", todo |-> <<>>, sent |-> Tail(op[s].sent)] \in OpType
      BY <2>1, <2>2 DEF OpType
    <3>2. IdleOp \in OpType
      BY DEF OpType, IdleOp
    <3>3. op' = [op EXCEPT ![s] = IF Tail(op[s].sent) = <<>> THEN IdleOp
                                  ELSE [pc |-> "send", todo |-> <<>>, sent |-> Tail(op[s].sent)]]
      BY <1>5, Zenon DEF Send
    <3>4. op'[s].pc # "index"
      BY <2>1, <3>3, Zenon DEF TypeOK, OpType, IdleOp
    <3> QED
      BY <3>1, <3>2, <3>3, <3>4, Zenon DEF TypeOK, OpShape
  <2>4. ch' \in [Replicas -> Seq(Line)]
    <3>1. ch' = [x \in Replicas |-> IF Takes(x) THEN Append(ch[x], l) ELSE ch[x]]
      BY <1>5, Zenon DEF Send, l
    <3>2. \A x \in Replicas : ch[x] \in Seq(Line) /\ Append(ch[x], l) \in Seq(Line)
      BY <2>2 DEF TypeOK
    <3> QED
      BY <3>1, <3>2, Zenon
  <2>5. lost' \in [Replicas -> SUBSET Keys]
    <3>1. lost' = [x \in Replicas |-> LostBySend(x, s, l)]
      BY <1>5, Zenon DEF Send, l
    <3>2. \A x \in Replicas : LostBySend(x, s, l) \in SUBSET Keys
      BY <2>2, Zenon DEF LostBySend, TypeOK
    <3> QED
      BY <3>1, <3>2, Zenon
  <2>6. owner' \in [Keys -> Sessions \cup {NoOne}]
    BY <1>5, ZenonT(30) DEF Send, TypeOK
  <2> QED
    BY <1>5, <2>3, <2>4, <2>5, <2>6, ZenonT(30) DEF Send, TypeOK, wireVars, replicaVars
<1>6. ASSUME NEW s \in Sessions, EndUnsent(s) PROVE TypeOK' /\ OpShape'
  <2>1. op' \in [Sessions -> OpType] /\ OpShape'
    BY <1>6, SMTT(30) DEF EndUnsent, TypeOK, OpType, OpShape, IdleOp
  <2>2. owner' \in [Keys -> Sessions \cup {NoOne}]
    BY <1>6, Zenon DEF EndUnsent, TypeOK
  <2>3. lost' \in [Replicas -> SUBSET Keys]
    BY <1>6, Zenon DEF EndUnsent, LoseTrack, TypeOK
  <2> QED
    BY <1>6, <2>1, <2>2, <2>3, Zenon DEF EndUnsent, TypeOK, handlerVars, wireVars, replicaVars
<1>7. ASSUME NEW k \in Keys, Persist(k) PROVE TypeOK' /\ OpShape'
  <2>1. index' \in [Keys -> Rec]
    <3>1. [index[k] EXCEPT !.exp = 0] \in Rec
      <4>1. index[k] \in Rec
        BY Zenon DEF TypeOK
      <4> QED
        BY <4>1, Zenon DEF Rec
    <3>2. index' = [index EXCEPT ![k] = [index[k] EXCEPT !.exp = 0]]
      BY <1>7, Zenon DEF Persist
    <3> QED
      BY <3>1, <3>2, Zenon DEF TypeOK
  <2>2. owner' \in [Keys -> Sessions \cup {NoOne}] /\ nops' \in Nat
    BY <1>7 DEF Persist, TypeOK
  <2>3. lost' \in [Replicas -> SUBSET Keys]
    BY <1>7, Zenon DEF Persist, LoseTrack, TypeOK
  <2> QED
    BY <1>7, <2>1, <2>2, <2>3, Zenon DEF Persist, TypeOK, OpShape, handlerVars, wireVars,
      replicaVars
<1>8. ASSUME Evict PROVE TypeOK' /\ OpShape'
  <2>1. index' \in [Keys -> Rec]
    BY <1>8, NoRecType, Zenon DEF Evict, Swept, TypeOK
  <2> QED
    BY <1>8, <2>1, Zenon DEF Evict, TypeOK, OpShape, handlerVars, wireVars, replicaVars
<1>9. ASSUME Tick PROVE TypeOK' /\ OpShape'
  BY <1>9 DEF Tick, TypeOK, OpShape, primaryVars, handlerVars, wireVars, replicaVars
<1>10. ASSUME NEW r \in Replicas, Dial(r) PROVE TypeOK' /\ OpShape'
  BY <1>10 DEF Dial, TypeOK, OpShape, primaryVars
<1>11. ASSUME NEW r \in Replicas, NEW k \in Keys, Visit(r, k),
              out' \in [Replicas -> Seq(Line)], toRead' \in [Replicas -> Nat],
              lost' \in [Replicas -> SUBSET Keys],
              \A x \in Replicas : Len(out[x]) <= Len(out'[x])
       PROVE  TypeOK' /\ OpShape'
  <2>1. handler' \in [Replicas -> {"none", "collect", "stream"}]
    BY <1>11, Zenon DEF Visit, TypeOK
  <2>2. scanned' \in [Replicas -> SUBSET Keys]
    BY <1>11, Zenon DEF Visit, TypeOK
  <2>3. ASSUME NEW x \in Replicas
        PROVE  queued'[x] <= Len(out'[x]) /\ (client[x] = "go" => queued'[x] = 0)
    <3>1. queued' = queued /\ queued[x] <= Len(out[x]) /\ (client[x] = "go" => queued[x] = 0)
      BY <1>11, Zenon DEF Visit, TypeOK
    <3>2. Len(out[x]) <= Len(out'[x]) /\ queued[x] \in Nat
      BY <1>11, Zenon DEF TypeOK
    <3>3. Len(out[x]) \in Nat /\ Len(out'[x]) \in Nat
      BY <1>11 DEF TypeOK
    <3> QED
      BY <3>1, <3>2, <3>3
  <2> QED
    BY <1>11, <2>1, <2>2, <2>3, Zenon DEF Visit, TypeOK, OpShape, primaryVars, replicaVars
<1>12. ASSUME NEW r \in Replicas, Collect(r) PROVE TypeOK' /\ OpShape'
  <2>1. PICK k \in Keys :
          /\ Visit(r, k)
          /\ IF Dead(index[k], now)
             THEN UNCHANGED <<out, toRead>>
             ELSE /\ out' = [out EXCEPT ![r] = Append(@, [key |-> k, rec |-> index[k]])]
                  /\ toRead' = [toRead EXCEPT ![r] = @ + 1]
          /\ lost' = [lost EXCEPT ![r] = LostByCollect(r, k)]
    BY <1>12, Zenon DEF Collect
  <2>2. lost' \in [Replicas -> SUBSET Keys]
    <3>1. LostByCollect(r, k) \in SUBSET Keys
      BY DEF LostByCollect, TypeOK
    <3> QED
      BY <2>1, <3>1, Zenon DEF TypeOK
  <2>3. CASE Dead(index[k], now)
    <3>1. out' = out /\ toRead' = toRead
      BY <2>1, <2>3, Zenon
    <3>2. \A x \in Replicas : out[x] \in Seq(Line)
      BY Zenon DEF TypeOK
    <3>3. \A x \in Replicas : Len(out[x]) <= Len(out'[x])
      BY <3>1, <3>2, SMTT(30)
    <3>4. out' \in [Replicas -> Seq(Line)] /\ toRead' \in [Replicas -> Nat]
      BY <3>1, Zenon DEF TypeOK
    <3> QED
      BY <1>11, <2>1, <2>2, <3>3, <3>4, Zenon
  <2>4. CASE ~Dead(index[k], now)
    <3>1. [key |-> k, rec |-> index[k]] \in Line /\ out[r] \in Seq(Line)
      BY ZenonT(30) DEF TypeOK, Line
    <3> DEFINE o == Append(out[r], [key |-> k, rec |-> index[k]])
    <3>3. o \in Seq(Line) /\ Len(out[r]) <= Len(o)
      BY <3>1
    <3>6. out' = [out EXCEPT ![r] = o] /\ toRead' = [toRead EXCEPT ![r] = toRead[r] + 1]
      BY <2>1, <2>4, Zenon
    <3> HIDE DEF o
    <3>2. out' \in [Replicas -> Seq(Line)] /\ toRead' \in [Replicas -> Nat]
      BY <3>3, <3>6, SMTT(30) DEF TypeOK
    <3>4. \A x \in Replicas : out[x] \in Seq(Line) /\ Len(out[x]) \in Nat
      BY DEF TypeOK
    <3>5. \A x \in Replicas : Len(out[x]) <= Len(out'[x])
      BY <3>3, <3>4, <3>6 DEF TypeOK
    <3> QED
      BY <1>11, <2>1, <2>2, <3>2, <3>5, Zenon
  <2> QED
    BY <2>3, <2>4, Zenon
<1>13. ASSUME NEW r \in Replicas, CollectUnread(r) PROVE TypeOK' /\ OpShape'
  <2>1. PICK k \in Keys :
          Visit(r, k) /\ lost' = [lost EXCEPT ![r] = @ \cup {k}] /\ UNCHANGED <<out, toRead>>
    BY <1>13, Zenon DEF CollectUnread
  <2>2. lost' \in [Replicas -> SUBSET Keys]
    BY <2>1, Zenon DEF TypeOK
  <2>3. \A x \in Replicas : out[x] \in Seq(Line)
    BY Zenon DEF TypeOK
  <2>4. \A x \in Replicas : Len(out[x]) <= Len(out'[x])
    BY <2>1, <2>3, SMTT(30)
  <2>5. out' \in [Replicas -> Seq(Line)] /\ toRead' \in [Replicas -> Nat]
    BY <2>1, Zenon DEF TypeOK
  <2> QED
    BY <1>11, <2>1, <2>2, <2>4, <2>5, Zenon
<1>14. ASSUME NEW r \in Replicas, Stream(r) PROVE TypeOK' /\ OpShape'
  <2>1. ch[r] \in Seq(Line) /\ ch[r] # <<>> /\ out[r] \in Seq(Line)
    BY <1>14, Zenon DEF Stream, TypeOK
  <2>2. Head(ch[r]) \in Line /\ Tail(ch[r]) \in Seq(Line)
    BY <2>1, HeadTailLines, Zenon
  <2>3. ch' \in [Replicas -> Seq(Line)] /\ out' \in [Replicas -> Seq(Line)]
    BY <1>14, <2>1, <2>2, SMTT(30) DEF Stream, TypeOK
  <2>4. Len(Append(out[r], Head(ch[r]))) = Len(out[r]) + 1
    BY <2>1, <2>2
  <2>5. ASSUME NEW x \in Replicas PROVE queued'[x] <= Len(out'[x]) /\ (client[x] = "go" => queued'[x] = 0)
    <3>1. queued[x] \in Nat /\ out[x] \in Seq(Line) /\ queued[x] <= Len(out[x]) /\ queued'[x] = queued[x]
      BY <1>14, Zenon DEF Stream, TypeOK
    <3>2. CASE x = r
      BY <1>14, <2>4, <3>1, <3>2, SMTT(30) DEF Stream, TypeOK
    <3>3. CASE x # r
      BY <1>14, <3>1, <3>3, Zenon DEF Stream, TypeOK
    <3> QED
      BY <3>2, <3>3, Zenon
  <2> QED
    BY <1>14, <2>3, <2>5, Zenon DEF Stream, TypeOK, OpShape, primaryVars, replicaVars
<1>15. ASSUME NEW r \in Replicas, HandlerExit(r) PROVE TypeOK' /\ OpShape'
  BY <1>15 DEF HandlerExit, TypeOK, OpShape, primaryVars, wireVars, replicaVars
<1>16. ASSUME NEW r \in Replicas, PyRead(r) PROVE TypeOK' /\ OpShape'
  <2>1. queued' \in [Replicas -> Nat] /\ toRead' \in [Replicas -> Nat]
    BY <1>16, SMTT(30) DEF PyRead, TypeOK
  <2>2. \A x \in Replicas : queued'[x] <= Len(out'[x]) /\ (client[x] = "go" => queued'[x] = 0)
    BY <1>16, SMTT(30) DEF PyRead, TypeOK
  <2> QED
    BY <1>16, <2>1, <2>2, Zenon DEF PyRead, TypeOK, OpShape, primaryVars, handlerVars, replicaVars
<1>17. ASSUME NEW r \in Replicas, GotReady(r) PROVE TypeOK' /\ OpShape'
  BY <1>17, ZenonT(30) DEF GotReady, TypeOK, OpShape, primaryVars, handlerVars, wireVars
<1>18. ASSUME NEW r \in Replicas, Apply(r) PROVE TypeOK' /\ OpShape'
  <2>1. MayApply(r) /\ Consume(r)
    BY <1>18, Zenon DEF Apply
  <2>2. /\ out[r] # <<>> /\ out' \in [Replicas -> Seq(Line)] /\ queued' \in [Replicas -> Nat]
        /\ toRead' \in [Replicas -> Nat] /\ \A x \in Replicas : queued'[x] <= Len(out'[x]) /\ (client[x] = "go" => queued'[x] = 0)
    BY <2>1, ConsumeTypes, ZenonT(30)
  <2>3. Head(out[r]).key \in Keys /\ Head(out[r]).rec \in Rec
    BY <2>2, HeadTailLines, Zenon DEF TypeOK
  <2>4. db' \in [Replicas -> [Keys -> Rec]]
    BY <1>18, <2>3, ZenonT(30) DEF Apply, TypeOK
  <2> QED
    BY <1>18, <2>2, <2>4, ZenonT(30) DEF Apply, TypeOK, OpShape, primaryVars, handlerVars
<1>19. ASSUME NEW r \in Replicas, ApplyFails(r) \/ ApplyIgnored(r) PROVE TypeOK' /\ OpShape'
  <2>1. MayApply(r) /\ Consume(r)
    BY <1>19, Zenon DEF ApplyFails, ApplyIgnored
  <2>2. /\ out[r] # <<>> /\ out' \in [Replicas -> Seq(Line)] /\ queued' \in [Replicas -> Nat]
        /\ toRead' \in [Replicas -> Nat] /\ \A x \in Replicas : queued'[x] <= Len(out'[x]) /\ (client[x] = "go" => queued'[x] = 0)
    BY <2>1, ConsumeTypes, Zenon
  <2>3. Head(out[r]).key \in Keys
    BY <2>2, HeadTailLines, Zenon DEF TypeOK
  <2>4. \A S : S \in SUBSET Keys => [lost EXCEPT ![r] = S] \in [Replicas -> SUBSET Keys]
    BY Zenon DEF TypeOK
  <2>5. lost' \in [Replicas -> SUBSET Keys]
    <3>1. lost[r] \cup {Head(out[r]).key} \in SUBSET Keys
      BY <2>3, Zenon DEF TypeOK
    <3>2. lost' = [lost EXCEPT ![r] = lost[r] \cup {Head(out[r]).key}]
      BY <1>19, Zenon DEF ApplyFails, ApplyIgnored
    <3> QED
      BY <2>4, <3>1, <3>2, Zenon
  <2>6. replica' \in [Replicas -> {"off", "dial", "live", "stalled"}]
    BY <1>19, ZenonT(30) DEF ApplyFails, ApplyIgnored, TypeOK, replicaVars
  <2>7. UNCHANGED <<now, primaryVars, handlerVars, link, db, dials, client>>
    BY <1>19, Zenon DEF ApplyFails, ApplyIgnored, replicaVars
  <2> QED
    BY <2>2, <2>5, <2>6, <2>7, Zenon DEF TypeOK, OpShape, primaryVars, handlerVars
<1>20. ASSUME NEW r \in Replicas, ReplicaEvict(r) PROVE TypeOK' /\ OpShape'
  <2>1. Swept(db[r]) \in [Keys -> Rec]
    BY NoRecType, SMTT(30) DEF Swept, TypeOK
  <2>2. db' \in [Replicas -> [Keys -> Rec]]
    BY <1>20, <2>1, Zenon DEF ReplicaEvict, TypeOK
  <2> QED
    BY <1>20, <2>2, Zenon DEF ReplicaEvict, TypeOK, OpShape, primaryVars, handlerVars, wireVars
<1>21. ASSUME NEW r \in Replicas, NEW phase \in {"off", "stalled"}, Cut(r, phase),
              db' \in [Replicas -> [Keys -> Rec]]
       PROVE  TypeOK' /\ OpShape'
  <2>1. out' \in [Replicas -> Seq(Line)] /\ queued' \in [Replicas -> Nat] /\ toRead' \in [Replicas -> Nat]
    BY <1>21, SMTT(30) DEF Cut, TypeOK
  <2>2. \A x \in Replicas : queued'[x] <= Len(out'[x]) /\ (client[x] = "go" => queued'[x] = 0)
    BY <1>21, SMTT(30) DEF Cut, TypeOK
  <2>3. /\ replica' \in [Replicas -> {"off", "dial", "live", "stalled"}]
        /\ link' \in [Replicas -> BOOLEAN]
        /\ scanned' \in [Replicas -> SUBSET Keys] /\ lost' \in [Replicas -> SUBSET Keys]
    BY <1>21, Zenon DEF Cut, TypeOK
  <2> QED
    BY <1>21, <2>1, <2>2, <2>3, ZenonT(30) DEF Cut, TypeOK, OpShape, primaryVars
<1>22. ASSUME NEW r \in Replicas, DialFails(r) \/ Break(r) \/ Stop(r) PROVE TypeOK' /\ OpShape'
  <2>1. db' \in [Replicas -> [Keys -> Rec]]
    BY <1>22, NoRecType, SMTT(30) DEF DialFails, Break, Stop, TypeOK
  <2> QED
    BY <1>21, <1>22, <2>1, ZenonT(30) DEF DialFails, Break, Stop
<1>23. CASE UNCHANGED vars
  BY <1>23, Zenon DEF vars, TypeOK, OpShape, primaryVars, handlerVars, wireVars, replicaVars
<1> QED
  BY <1>1, <1>2, <1>3, <1>4, <1>5, <1>6, <1>7, <1>8, <1>9, <1>10, <1>12, <1>13, <1>14, <1>15,
    <1>16, <1>17, <1>18, <1>19, <1>20, <1>22, <1>23, Zenon DEF Next, Environment, SessionStep,
    HandlerStep, ClientStep

-----------------------------------------------------------------------------
(* The shape of a connection *)

LEMMA LinkStep ==
  ASSUME TypeOK, LinkShape, [Next]_vars
  PROVE  LinkShape'
<1>1. CASE UNCHANGED <<handlerVars, wireVars, lost>>
  BY <1>1, Zenon DEF LinkShape, handlerVars, wireVars
<1>2. ASSUME NEW s \in Sessions, Send(s) PROVE LinkShape'
  <2>1. ASSUME NEW r \in Replicas
        PROVE  (~link[r] => lost'[r] = lost[r]) /\ (handler[r] = "none" => ch'[r] = ch[r])
    BY <1>2, ZenonT(30) DEF Send, LostBySend, Takes, Registered
  <2> QED
    BY <1>2, <2>1, ZenonT(30) DEF Send, LinkShape, wireVars
<1>3. ASSUME NEW ks \in SUBSET Keys, LoseTrack(ks), UNCHANGED <<handlerVars, wireVars>>
      PROVE  LinkShape'
  BY <1>3, Zenon DEF LoseTrack, LinkShape, handlerVars, wireVars, TypeOK
<1>4. ASSUME NEW r \in Replicas, Dial(r) PROVE LinkShape'
  BY <1>4, SMTT(30) DEF Dial, LinkShape, TypeOK
<1>5. ASSUME NEW r \in Replicas, NEW k \in Keys, Visit(r, k),
             \A x \in Replicas \ {r} : out'[x] = out[x] /\ lost'[x] = lost[x],
             \A i \in DOMAIN out'[r] : out'[r][i].key = k \/ out'[r][i].key \in scanned[r]
      PROVE  LinkShape'
  <2>1. ASSUME NEW x \in Replicas, x # r
        PROVE  /\ link'[x] = link[x] /\ handler'[x] = handler[x] /\ scanned'[x] = scanned[x]
               /\ out'[x] = out[x] /\ lost'[x] = lost[x] /\ ch'[x] = ch[x]
    BY <1>5, <2>1, ZenonT(30) DEF Visit, TypeOK
  <2>2. /\ link'[r] /\ link[r] /\ scanned'[r] = scanned[r] \cup {k}
        /\ handler'[r] = IF scanned'[r] = Keys THEN "stream" ELSE "collect"
    BY <1>5, Zenon DEF Visit, TypeOK
  <2>3. \A i \in DOMAIN out'[r] : out'[r][i].key \in scanned'[r]
    BY <1>5, <2>2, Zenon
  <2> DEFINE Shape(x) ==
        /\ link[x] => handler[x] # "none"
        /\ ~link[x] => scanned[x] = {} /\ out[x] = <<>> /\ lost[x] = {}
        /\ handler[x] = "none" => ch[x] = <<>>
        /\ handler[x] = "collect" => \A i \in DOMAIN out[x] : out[x][i].key \in scanned[x]
        /\ handler[x] = "stream" /\ link[x] => scanned[x] = Keys
  <2>4. ASSUME NEW x \in Replicas, x # r PROVE Shape(x)'
    <3>1. Shape(x)
      BY Zenon DEF LinkShape
    <3> QED
      BY <2>1, <2>4, <3>1, Zenon
  <2>5. handler'[r] \in {"stream", "collect"} /\ (handler'[r] = "stream" => scanned'[r] = Keys)
    BY <2>2, Zenon
  <2>6. Shape(r)'
    BY <2>2, <2>3, <2>5, Zenon
  <2>7. \A x \in Replicas : Shape(x)'
    BY <2>4, <2>6, Zenon
  <2> QED
    BY <2>7, Zenon DEF LinkShape
<1>6. ASSUME NEW r \in Replicas, Collect(r) PROVE LinkShape'
  <2>1. PICK k \in Keys :
          /\ Visit(r, k)
          /\ IF Dead(index[k], now)
             THEN UNCHANGED <<out, toRead>>
             ELSE /\ out' = [out EXCEPT ![r] = Append(@, [key |-> k, rec |-> index[k]])]
                  /\ toRead' = [toRead EXCEPT ![r] = @ + 1]
          /\ lost' = [lost EXCEPT ![r] = LostByCollect(r, k)]
    BY <1>6, ZenonT(30) DEF Collect
  <2>2. \A x \in Replicas \ {r} : out'[x] = out[x] /\ lost'[x] = lost[x]
    BY <2>1, Zenon DEF TypeOK
  <2>3. \A i \in DOMAIN out[r] : out[r][i].key \in scanned[r]
    BY <2>1, Zenon DEF Visit, LinkShape
  <2>4. CASE Dead(index[k], now)
    BY <1>5, <2>1, <2>2, <2>3, <2>4, Zenon
  <2>5. CASE ~Dead(index[k], now)
    <3> DEFINE l == [key |-> k, rec |-> index[k]]
    <3>1. l \in Line /\ l.key = k /\ out[r] \in Seq(Line)
      BY Zenon DEF TypeOK, Line
    <3>2. out'[r] = Append(out[r], l)
      BY <2>1, <2>5, Zenon DEF TypeOK
    <3> HIDE DEF l
    <3>3. ASSUME NEW i \in DOMAIN Append(out[r], l)
          PROVE  Append(out[r], l)[i].key = k \/ Append(out[r], l)[i].key \in scanned[r]
      <4>1. i \in 1..(Len(out[r]) + 1)
        BY <3>1
      <4>2. CASE i = Len(out[r]) + 1
        BY <3>1, <4>2
      <4>3. CASE i # Len(out[r]) + 1
        <5>1. i \in DOMAIN out[r] /\ Append(out[r], l)[i] = out[r][i]
          BY <3>1, <4>1, <4>3, SMTT(30)
        <5> QED
          BY <5>1, <2>3, Zenon
      <4> QED
        BY <4>2, <4>3, Zenon
    <3> QED
      BY <1>5, <2>1, <2>2, <3>2, <3>3, Zenon
  <2> QED
    BY <2>4, <2>5, Zenon
<1>7. ASSUME NEW r \in Replicas, CollectUnread(r) PROVE LinkShape'
  <2>1. PICK k \in Keys :
          Visit(r, k) /\ lost' = [lost EXCEPT ![r] = @ \cup {k}] /\ UNCHANGED <<out, toRead>>
    BY <1>7, ZenonT(30) DEF CollectUnread
  <2>2. \A x \in Replicas \ {r} : out'[x] = out[x] /\ lost'[x] = lost[x]
    BY <2>1, Zenon DEF TypeOK
  <2>3. \A i \in DOMAIN out[r] : out[r][i].key \in scanned[r]
    BY <2>1, Zenon DEF Visit, LinkShape
  <2> QED
    BY <1>5, <2>1, <2>2, <2>3, Zenon
<1>8. ASSUME NEW r \in Replicas, Stream(r) PROVE LinkShape'
  <2>1. ASSUME NEW x \in Replicas, x # r PROVE out'[x] = out[x] /\ ch'[x] = ch[x]
    BY <1>8, <2>1, Zenon DEF Stream, TypeOK
  <2> QED
    BY <1>8, <2>1, Zenon DEF Stream, LinkShape
<1>9. ASSUME NEW r \in Replicas, HandlerExit(r) PROVE LinkShape'
  BY <1>9, Zenon DEF HandlerExit, LinkShape, TypeOK, wireVars
<1>10. ASSUME NEW r \in Replicas, MayApply(r), Consume(r), link' = link, UNCHANGED handlerVars,
              \A x \in Replicas : ~link[x] => lost'[x] = lost[x]
       PROVE  LinkShape'
  <2>1. out[r] # <<>> /\ out[r] \in Seq(Line)
    BY <1>10, ConsumeTypes, Zenon DEF TypeOK
  <2>2. \A i \in DOMAIN Tail(out[r]) : i + 1 \in DOMAIN out[r] /\ Tail(out[r])[i] = out[r][i + 1]
    BY <2>1, SMTT(30)
  <2>3. out' = [out EXCEPT ![r] = Tail(out[r])]
    BY <1>10, Zenon DEF Consume
  <2>4. ASSUME NEW x \in Replicas, handler[x] = "collect", NEW i \in DOMAIN out'[x]
        PROVE  out'[x][i].key \in scanned[x]
    BY <2>2, <2>3, <2>4, SMTT(30) DEF LinkShape, TypeOK
  <2>5. ASSUME NEW x \in Replicas, ~link[x] PROVE out'[x] = <<>>
    BY <2>1, <2>3, <2>5, Zenon DEF LinkShape, TypeOK
  <2> QED
    BY <1>10, <2>4, <2>5, Zenon DEF LinkShape, handlerVars
<1>11. ASSUME NEW r \in Replicas, Apply(r) \/ ApplyFails(r) \/ ApplyIgnored(r) PROVE LinkShape'
  <2>1. /\ MayApply(r) /\ Consume(r) /\ link' = link /\ UNCHANGED handlerVars
    BY <1>11, Zenon DEF Apply, ApplyFails, ApplyIgnored
  <2>2. link[r]
    <3>1. out[r] # <<>>
      BY <2>1, ConsumeTypes, Zenon
    <3> QED
      BY <3>1, Zenon DEF LinkShape
  <2>3. \A x \in Replicas : ~link[x] => lost'[x] = lost[x]
    BY <1>11, <2>2, ZenonT(30) DEF Apply, ApplyFails, ApplyIgnored, TypeOK
  <2> QED
    BY <1>10, <2>1, <2>3, Zenon
<1>12. ASSUME NEW r \in Replicas, NEW phase, Cut(r, phase) PROVE LinkShape'
  BY <1>12, SMTT(30) DEF Cut, LinkShape, TypeOK
<1>13. ASSUME NEW r \in Replicas, PyRead(r) PROVE LinkShape'
  BY <1>13, Zenon DEF PyRead, LinkShape, handlerVars
<1>14. ASSUME NEW s \in Sessions, Write(s) \/ Delete(s) \/ Commit(s) \/ CommitStep(s) PROVE LinkShape'
  <2>1. UNCHANGED <<handlerVars, wireVars, lost>>
    BY <1>14, ZenonT(30) DEF Write, Delete, Commit, CommitStep, IndexChange
  <2> QED
    BY <1>1, <2>1, Zenon
<1>15. ASSUME NEW s \in Sessions, EndUnsent(s) PROVE LinkShape'
  <2>1. LoseTrack({k \in Keys : owner[k] = s}) /\ UNCHANGED <<handlerVars, wireVars>>
    BY <1>15, Zenon DEF EndUnsent
  <2> QED
    BY <1>3, <2>1, Zenon
<1>16. ASSUME NEW k \in Keys, Persist(k) PROVE LinkShape'
  <2>1. LoseTrack({k}) /\ UNCHANGED <<handlerVars, wireVars>>
    BY <1>16, Zenon DEF Persist
  <2>2. {k} \in SUBSET Keys
    BY Zenon
  <2> QED
    BY <1>3, <2>1, <2>2, Zenon
<1>17. CASE Evict \/ Tick \/ UNCHANGED vars
  BY <1>1, <1>17, Zenon DEF Evict, Tick, vars
<1>18. ASSUME NEW r \in Replicas, GotReady(r) \/ ReplicaEvict(r) PROVE LinkShape'
  BY <1>1, <1>18, Zenon DEF GotReady, ReplicaEvict
<1>19. ASSUME NEW r \in Replicas, DialFails(r) \/ Break(r) \/ Stop(r) PROVE LinkShape'
  BY <1>12, <1>19, Zenon DEF DialFails, Break, Stop
<1> QED
  BY <1>2, <1>4, <1>6, <1>7, <1>8, <1>9, <1>11, <1>13, <1>14, <1>15, <1>16, <1>17, <1>18, <1>19,
    Zenon DEF Next, Environment, SessionStep, HandlerStep, ClientStep

-----------------------------------------------------------------------------
(* Changes that are still to be fanned out *)

\* A session that changes l.key owns it; what others still have to send stays.
LEMMA IndexChangePending ==
  ASSUME TypeOK, NEW s \in Sessions, NEW l \in Line, NEW rest \in Seq(Line), IndexChange(s, l, rest)
  PROVE  /\ Pending(l.key)'
         /\ \A k \in Keys \ {l.key} : Pending(k) => Pending(k)'
<1> DEFINE q == op[s].sent
<1>1. q \in Seq(Line) /\ l.key \in Keys
  BY Zenon DEF TypeOK, OpType, Line
<1>2. /\ DOMAIN Append(q, l) = 1..(Len(q) + 1) /\ DOMAIN q = 1..Len(q) /\ Len(q) \in Nat
      /\ \A i \in 1..Len(q) : Append(q, l)[i] = q[i]
      /\ Append(q, l)[Len(q) + 1] = l
  BY <1>1
<1>3. op'[s].sent = Append(q, l) /\ \A x \in Sessions \ {s} : op'[x] = op[x]
  BY Zenon DEF IndexChange, TypeOK
<1>4. /\ index'[l.key] = l.rec /\ owner'[l.key] = s /\ now' = now
      /\ \A k \in Keys \ {l.key} : index'[k] = index[k] /\ owner'[k] = owner[k]
  BY <1>1, Zenon DEF IndexChange, TypeOK
<1> HIDE DEF q
<1>5. Pending(l.key)'
  <2>1. Len(q) + 1 \in DOMAIN op'[s].sent /\ op'[s].sent[Len(q) + 1] = l
    BY <1>2, <1>3
  <2>2. Same(l.rec, index'[l.key], now')
    BY <1>4, Zenon DEF Same
  <2> QED
    BY <1>4, <2>1, <2>2, Zenon DEF Pending
<1>6. ASSUME NEW k \in Keys \ {l.key}, Pending(k) PROVE Pending(k)'
  <2>1. PICK x \in Sessions : owner[k] = x /\ \E i \in DOMAIN op[x].sent :
          op[x].sent[i].key = k /\ Same(op[x].sent[i].rec, index[k], now)
    BY <1>6, ZenonT(30) DEF Pending
  <2>2. PICK i \in DOMAIN op[x].sent : op[x].sent[i].key = k /\ Same(op[x].sent[i].rec, index[k], now)
    BY <2>1, Zenon
  <2>3. i \in DOMAIN op'[x].sent /\ op'[x].sent[i] = op[x].sent[i]
    <3>1. CASE x = s
      <4>1. i \in 1..Len(q)
        BY <1>2, <2>2, <3>1, Zenon DEF q
      <4>2. i \in DOMAIN Append(q, l) /\ Append(q, l)[i] = q[i]
        BY <1>2, <4>1
      <4> QED
        BY <1>3, <3>1, <4>2, Zenon DEF q
    <3>2. CASE x # s
      BY <1>3, <3>2, Zenon
    <3> QED
      BY <3>1, <3>2, Zenon
  <2> QED
    BY <1>4, <2>1, <2>2, <2>3, ZenonT(30) DEF Pending
<1> QED
  BY <1>5, <1>6, Zenon

\* After a line is fanned out every other change is still pending.
LEMMA SendPending ==
  ASSUME TypeOK, NEW s \in Sessions, Send(s), NEW k \in Keys, Pending(k),
         ~(owner[k] = s /\ k = Head(op[s].sent).key)
  PROVE  Pending(k)'
<1>1. PICK x \in Sessions : owner[k] = x /\ \E i \in DOMAIN op[x].sent :
        op[x].sent[i].key = k /\ Same(op[x].sent[i].rec, index[k], now)
  BY Zenon DEF Pending
<1>2. PICK i \in DOMAIN op[x].sent : op[x].sent[i].key = k /\ Same(op[x].sent[i].rec, index[k], now)
  BY <1>1, Zenon
<1>3. owner'[k] = x /\ index' = index /\ now' = now
  BY <1>1, ZenonT(30) DEF Send, TypeOK
<1>4. CASE x # s
  <2>1. op'[x] = op[x]
    BY <1>4, ZenonT(30) DEF Send, TypeOK
  <2> QED
    BY <1>1, <1>2, <1>3, <2>1, ZenonT(30) DEF Pending
<1>5. CASE x = s
  <2> DEFINE q == op[s].sent
  <2>1. q \in Seq(Line) /\ q # <<>>
    BY Zenon DEF TypeOK, OpType, Send
  <2>2. Head(q) = q[1] /\ i \in 1..Len(q) /\ i # 1
    BY <1>1, <1>2, <1>5, <2>1
  <2>3. i - 1 \in DOMAIN Tail(q) /\ Tail(q)[i - 1] = q[i] /\ Tail(q) # <<>>
    <3> HIDE DEF q
    <3>1. DOMAIN Tail(q) = 1..(Len(q) - 1) /\ \A j \in 1..(Len(q) - 1) : Tail(q)[j] = q[j + 1]
      BY <2>1
    <3>2. i - 1 \in 1..(Len(q) - 1) /\ (i - 1) + 1 = i
      BY <2>1, <2>2
    <3>3. Len(Tail(q)) = Len(q) - 1 /\ Len(q) - 1 > 0
      BY <2>1, <2>2
    <3>4. Tail(q) # <<>>
      BY <3>3, SMTT(30)
    <3> QED
      BY <3>1, <3>2, <3>4, Zenon
  <2>4. op'[s].sent = Tail(q)
    BY <2>3, ZenonT(30) DEF Send, TypeOK
  <2> QED
    BY <1>1, <1>2, <1>3, <1>5, <2>3, <2>4, ZenonT(30) DEF Pending
<1> QED
  BY <1>4, <1>5, Zenon

\* Whatever happens, a pending change stays pending while its key has the
\* same owner, and the record in the index stays the same or is swept.
LEMMA PendingFrame ==
  ASSUME TypeOK, NEW k \in Keys, Pending(k), owner'[k] = owner[k], index'[k] \in Rec,
         op'[owner[k]] = op[owner[k]],
         now' \in Nat, now <= now', Same(index[k], index'[k], now')
  PROVE  Pending(k)'
<1>1. PICK x \in Sessions : owner[k] = x /\ \E i \in DOMAIN op[x].sent :
        op[x].sent[i].key = k /\ Same(op[x].sent[i].rec, index[k], now)
  BY Zenon DEF Pending
<1>2. PICK i \in DOMAIN op[x].sent : op[x].sent[i].key = k /\ Same(op[x].sent[i].rec, index[k], now)
  BY <1>1, Zenon
<1>3. op[x].sent[i].rec \in Rec /\ index[k] \in Rec /\ now \in Nat
  BY LineAt, Zenon DEF TypeOK, OpType
<1>4. Same(op[x].sent[i].rec, index[k], now')
  BY <1>2, <1>3, SameLater, Zenon
<1>5. Same(op[x].sent[i].rec, index'[k], now')
  BY <1>4, SameTrans, Zenon
<1> QED
  BY <1>1, <1>2, <1>5, Zenon DEF Pending

\* What a replica knows stays known when nothing on its way, in its store or
\* pending is disturbed and the primary's record stays the same.
LEMMA KnownFrame ==
  ASSUME TypeOK, NEW r \in Replicas, NEW k \in Keys, Known(r, k), Pending(k) => Pending(k)',
         ch'[r] = ch[r], out'[r] = out[r], scanned'[r] = scanned[r],
         index'[k] \in Rec, now' \in Nat, now <= now',
         Same(db[r][k], db'[r][k], now'), Same(index[k], index'[k], now')
  PROVE  Known(r, k)'
<1>1. ch[r] \in Seq(Line) /\ out[r] \in Seq(Line) /\ index[k] \in Rec /\ db[r][k] \in Rec /\ now \in Nat
  BY ZenonT(30) DEF TypeOK
<1>2. \A q \in Seq(Line) : Says(q, k, index[k], now) => Says(q, k, index'[k], now')
  <2>1. \A q \in Seq(Line) : Says(q, k, index[k], now) => Says(q, k, index[k], now')
    BY <1>1, SaysLater, Zenon
  <2> QED
    BY <2>1, SaysSame, Zenon
<1>3. Same(db[r][k], index[k], now) => Same(db'[r][k], index'[k], now')
  <2>1. ASSUME Same(db[r][k], index[k], now) PROVE Same(db'[r][k], index'[k], now')
    <3>1. Same(db[r][k], index[k], now')
      BY <1>1, <2>1, SameLater, Zenon
    <3>2. Same(db'[r][k], index[k], now')
      BY <3>1, SameSym, SameTrans, Zenon
    <3> QED
      BY <3>2, SameTrans, Zenon
  <2> QED
    BY <2>1, Zenon
<1> QED
  BY <1>1, <1>2, <1>3, ZenonT(30) DEF Known

\* The same, for a step that leaves the primary alone and the replica's record as it is.
LEMMA KnownStays ==
  ASSUME TypeOK, NEW r \in Replicas, NEW k \in Keys, Known(r, k), UNCHANGED <<now, primaryVars>>,
         ch'[r] = ch[r], out'[r] = out[r], scanned'[r] = scanned[r],
         Same(db[r][k], db'[r][k], now)
  PROVE  Known(r, k)'
<1>1. Pending(k) => Pending(k)'
  BY Zenon DEF Pending, primaryVars
<1>2. index'[k] = index[k] /\ now' = now /\ index[k] \in Rec /\ now \in Nat /\ now <= now'
  BY SMTT(30) DEF TypeOK, primaryVars
<1>3. Same(index[k], index'[k], now')
  BY <1>2, Zenon DEF Same
<1> QED
  BY <1>1, <1>2, <1>3, KnownFrame, Zenon

LEMMA SameRefl ==
  ASSUME NEW a, NEW t
  PROVE  Same(a, a, t)
BY Zenon DEF Same

\* A session's change of one key.
LEMMA IndexChangeKnown ==
  ASSUME IInv, NEW s \in Sessions, NEW l \in Line, NEW rest \in Seq(Line), IndexChange(s, l, rest)
  PROVE  OwnerPends' /\ AllKnown'
<1> USE DEF IInv
<1>1. Pending(l.key)' /\ \A k \in Keys \ {l.key} : Pending(k) => Pending(k)'
  BY IndexChangePending, Zenon
<1>2. l.key \in Keys
  BY Zenon DEF Line
<1>3. OwnerPends'
  BY <1>1, <1>2, Zenon DEF OwnerPends, IndexChange, TypeOK
<1>4. ASSUME NEW r \in Replicas, link'[r], NEW k \in Keys \ lost'[r] PROVE Known(r, k)'
  <2>1. CASE k = l.key
    BY <1>1, <2>1, ZenonT(30) DEF Known
  <2>2. CASE k # l.key
    <3>1. Known(r, k)
      BY <1>4, ZenonT(30) DEF AllKnown, IndexChange, wireVars
    <3>2. /\ index'[k] = index[k] /\ now' = now /\ index[k] \in Rec /\ now \in Nat /\ now <= now'
          /\ ch' = ch /\ out' = out /\ scanned' = scanned /\ db' = db
      BY <2>2 DEF IndexChange, TypeOK, handlerVars, wireVars, replicaVars
    <3> QED
      BY <1>1, <2>2, <3>1, <3>2, KnownFrame, SameRefl, ZenonT(30)
  <2> QED
    BY <2>1, <2>2, ZenonT(30)
<1> QED
  BY <1>3, <1>4, Zenon DEF AllKnown

\* The fan-out of a line.
LEMMA SendKnown ==
  ASSUME IInv, NEW s \in Sessions, Send(s)
  PROVE  OwnerPends' /\ AllKnown'
<1> USE DEF IInv
<1> USE ReplicationConstants
<1> DEFINE l == Head(op[s].sent)
<1>1. op[s].sent \in Seq(Line) /\ op[s].sent # <<>>
  BY ZenonT(30) DEF Send, TypeOK, OpType
<1>2. l \in Line /\ l.key \in Keys /\ l.rec \in Rec
  BY <1>1, HeadTailLines, Zenon
<1>3. \A k \in Keys : owner'[k] = IF k = l.key /\ owner[k] = s THEN NoOne ELSE owner[k]
  BY <1>2, ZenonT(30) DEF Send, TypeOK
<1>4. ASSUME NEW k \in Keys, Pending(k), ~(owner[k] = s /\ k = l.key) PROVE Pending(k)'
  BY <1>4, SendPending, ZenonT(30)
<1>5. OwnerPends'
  <2>1. ASSUME NEW k \in Keys, owner'[k] # NoOne PROVE Pending(k)'
    <3>1. owner[k] # NoOne /\ ~(owner[k] = s /\ k = l.key)
      BY <1>3, <2>1, Zenon
    <3>2. Pending(k)
      BY <3>1, Zenon DEF OwnerPends
    <3> QED
      BY <1>4, <3>1, <3>2, ZenonT(30)
  <2> QED
    BY <2>1, ZenonT(30) DEF OwnerPends
<1>6. ASSUME NEW r \in Replicas, link'[r], NEW k \in Keys \ lost'[r] PROVE Known(r, k)'
  <2>1. /\ link[r] /\ handler[r] # "none" /\ ch[r] \in Seq(Line)
        /\ index' = index /\ now' = now /\ out' = out /\ scanned' = scanned /\ db' = db
    BY <1>6, ZenonT(30) DEF Send, LinkShape, TypeOK, wireVars, replicaVars
  <2>2. lost'[r] = LostBySend(r, s, l)
    BY ZenonT(30) DEF Send
  <2>3. ch'[r] = IF Room(r) THEN Append(ch[r], l) ELSE ch[r]
    BY <2>1, ZenonT(30) DEF Send, Takes, Registered
  <2> HIDE DEF l
  <2>4. CASE k # l.key
    <3>1. k \notin lost[r]
      BY <1>6, <2>2, <2>4, ZenonT(30) DEF LostBySend
    <3>2. Known(r, k)
      BY <2>1, <3>1, ZenonT(30) DEF AllKnown
    <3>3. Pending(k) => Pending(k)'
      BY <1>4, <2>4, ZenonT(30)
    <3>6. /\ Says(ch[r], k, index[k], now) => Says(Append(ch[r], l), k, index[k], now)
          /\ ~Mentions(ch[r], k) => ~Mentions(Append(ch[r], l), k)
      BY <1>2, <2>1, <2>4, AppendOther, ZenonT(30)
    <3>4. Says(ch[r], k, index[k], now) => Says(ch'[r], k, index[k], now)
      BY <2>3, <3>6, Zenon
    <3>5. ~Mentions(ch[r], k) => ~Mentions(ch'[r], k)
      BY <2>3, <3>6, Zenon
    <3> QED
      BY <2>1, <3>2, <3>3, <3>4, <3>5, ZenonT(30) DEF Known
  <2>5. CASE k = l.key /\ ~Room(r)
    <3>1. owner[k] # s /\ k \notin lost[r]
      BY <1>6, <2>1, <2>2, <2>5, Zenon DEF LostBySend
    <3>2. Known(r, k) /\ ch'[r] = ch[r]
      BY <2>1, <2>3, <2>5, <3>1, Zenon DEF AllKnown
    <3>3. Pending(k) => Pending(k)'
      BY <1>4, <3>1, Zenon
    <3> QED
      BY <2>1, <3>2, <3>3, ZenonT(30) DEF Known
  <2>6. CASE k = l.key /\ Room(r) /\ owner[k] \notin {s, NoOne}
    <3>1. Pending(k)
      BY <2>6, Zenon DEF OwnerPends
    <3>2. Pending(k)'
      BY <1>4, <2>6, <3>1, Zenon
    <3> QED
      BY <3>2, Zenon DEF Known
  <2>7. CASE k = l.key /\ Room(r) /\ owner[k] \in {s, NoOne}
    <3>1. Same(l.rec, index[k], now)
      BY <1>6, <2>1, <2>2, <2>7, Zenon DEF LostBySend
    <3>2. Says(ch'[r], k, index[k], now)
      <4>1. Says(Append(ch[r], l), l.key, index[k], now)
        BY <1>2, <2>1, <3>1, AppendSays, ZenonT(30)
      <4> QED
        BY <2>3, <2>7, <4>1, ZenonT(30)
    <3> QED
      BY <2>1, <3>2, ZenonT(30) DEF Known
  <2> QED
    BY <2>4, <2>5, <2>6, <2>7, Zenon
<1> QED
  BY <1>5, <1>6, Zenon DEF AllKnown

\* The snapshot passes a key.
LEMMA CollectKnown ==
  ASSUME IInv, NEW r \in Replicas, Collect(r)
  PROVE  AllKnown'
<1> USE DEF IInv
<1>1. PICK v \in Keys :
        /\ Visit(r, v)
        /\ IF Dead(index[v], now)
           THEN UNCHANGED <<out, toRead>>
           ELSE /\ out' = [out EXCEPT ![r] = Append(@, [key |-> v, rec |-> index[v]])]
                /\ toRead' = [toRead EXCEPT ![r] = @ + 1]
        /\ lost' = [lost EXCEPT ![r] = LostByCollect(r, v)]
  BY Zenon DEF Collect
<1>2. UNCHANGED <<now, primaryVars>> /\ ch' = ch /\ db' = db /\ link' = link
  BY <1>1, Zenon DEF Visit, replicaVars
<1>3. ASSUME NEW x \in Replicas, link'[x], NEW k \in Keys \ lost'[x], x # r PROVE Known(x, k)'
  <2>1. out'[x] = out[x] /\ scanned'[x] = scanned[x] /\ lost'[x] = lost[x]
    BY <1>1, <1>3, Zenon DEF Visit, TypeOK
  <2>2. Known(x, k)
    BY <1>2, <1>3, <2>1, Zenon DEF AllKnown
  <2>3. Same(db[x][k], db'[x][k], now)
    BY <1>2, SameRefl, Zenon
  <2> QED
    BY <1>2, <2>1, <2>2, <2>3, KnownStays, Zenon
<1>4. ASSUME NEW k \in Keys \ lost'[r] PROVE Known(r, k)'
  <2> DEFINE l == [key |-> v, rec |-> index[v]]
  <2>1. /\ l \in Line /\ l.key = v /\ l.rec = index[v]
        /\ out[r] \in Seq(Line) /\ ch[r] \in Seq(Line) /\ index[v] \in Rec
    BY Zenon DEF TypeOK, Line
  <2>2. /\ link[r] /\ scanned'[r] = scanned[r] \cup {v} /\ handler[r] = "collect" /\ v \notin scanned[r]
        /\ lost'[r] = LostByCollect(r, v)
        /\ out'[r] = IF Dead(index[v], now) THEN out[r] ELSE Append(out[r], l)
        /\ index' = index /\ now' = now
    BY <1>1, ZenonT(30) DEF Visit, TypeOK, primaryVars
  <2>3. Pending(k) => Pending(k)'
    BY <1>2, Zenon DEF Pending, primaryVars
  <2> HIDE DEF l
  <2>4. CASE k # v
    <3>1. k \notin lost[r]
      BY <1>4, <2>2, <2>4, Zenon DEF LostByCollect
    <3>2. Known(r, k)
      BY <2>2, <3>1, Zenon DEF AllKnown
    <3>3. /\ Says(out[r], k, index[k], now) => Says(out'[r], k, index[k], now)
          /\ ~Mentions(out[r], k) => ~Mentions(out'[r], k)
      <4>1. /\ Says(out[r], k, index[k], now) => Says(Append(out[r], l), k, index[k], now)
            /\ ~Mentions(out[r], k) => ~Mentions(Append(out[r], l), k)
        BY <2>1, <2>4, AppendOther, ZenonT(30)
      <4> QED
        BY <2>2, <4>1, ZenonT(30)
    <3> QED
      BY <1>2, <2>2, <2>3, <2>4, <3>2, <3>3, ZenonT(30) DEF Known
  <2>5. CASE k = v /\ Mentions(ch[r], v)
    <3>1. k \notin lost[r]
      BY <1>4, <2>2, <2>5, Zenon DEF LostByCollect
    <3>2. Pending(k) \/ Says(ch[r], k, index[k], now)
      BY <2>2, <2>5, <3>1, ZenonT(30) DEF AllKnown, Known
    <3> QED
      BY <1>2, <2>2, <2>3, <3>2, ZenonT(30) DEF Known
  <2>6. CASE k = v /\ ~Mentions(ch[r], v) /\ ~Dead(index[v], now)
    <3>1. Same(l.rec, index[v], now)
      BY <2>1, SameRefl, Zenon
    <3>2. Says(out'[r], k, index[k], now)
      <4>1. Says(Append(out[r], l), l.key, index[v], now)
        BY <2>1, <3>1, AppendSays, ZenonT(30)
      <4> QED
        BY <2>1, <2>2, <2>6, <4>1, ZenonT(30)
    <3> QED
      BY <1>2, <2>2, <2>6, <3>2, Zenon DEF Known
  <2>7. CASE k = v /\ ~Mentions(ch[r], v) /\ Dead(index[v], now)
    <3>1. Dead(db[r][v], now)
      BY <1>4, <2>2, <2>7, Zenon DEF LostByCollect
    <3>2. Same(db[r][v], index[v], now)
      BY <2>7, <3>1, Zenon DEF Same
    <3>3. ~Mentions(out[r], v)
      BY <2>2, Zenon DEF LinkShape, Mentions
    <3> QED
      BY <1>2, <2>2, <2>7, <3>2, <3>3, ZenonT(30) DEF Known
  <2> QED
    BY <2>4, <2>5, <2>6, <2>7, Zenon
<1> QED
  BY <1>3, <1>4, Zenon DEF AllKnown

\* The first line of out[r] is used up: applied, or its key is lost.
LEMMA ConsumeKnown ==
  ASSUME IInv, NEW r \in Replicas, MayApply(r), Consume(r), UNCHANGED <<now, primaryVars, ch, scanned, link>>,
         \A x \in Replicas \ {r} : db'[x] = db[x] /\ lost'[x] = lost[x],
         \/ db' = [db EXCEPT ![r][Head(out[r]).key] = Head(out[r]).rec] /\ lost'[r] = lost[r]
         \/ db' = db /\ lost'[r] = lost[r] \cup {Head(out[r]).key}
  PROVE  AllKnown'
<1> USE DEF IInv
<1> DEFINE l == Head(out[r])
<1>1. out[r] # <<>> /\ out[r] \in Seq(Line)
  BY ConsumeTypes, Zenon DEF TypeOK
<1>2. l.key \in Keys /\ l.rec \in Rec
  BY <1>1, HeadTailLines, Zenon
<1>3. out' = [out EXCEPT ![r] = Tail(out[r])]
  BY Zenon DEF Consume
<1>4. index' = index /\ now' = now /\ ch' = ch /\ scanned' = scanned /\ link' = link
  BY Zenon DEF primaryVars
<1>5. ASSUME NEW x \in Replicas \ {r}, link'[x], NEW k \in Keys \ lost'[x] PROVE Known(x, k)'
  <2>1. out'[x] = out[x] /\ db'[x] = db[x] /\ lost'[x] = lost[x]
    BY <1>3, Zenon DEF TypeOK
  <2>2. Known(x, k)
    BY <1>4, <1>5, <2>1, Zenon DEF AllKnown
  <2>3. Same(db[x][k], db'[x][k], now)
    BY <2>1, SameRefl, Zenon
  <2> QED
    BY <1>4, <2>1, <2>2, <2>3, KnownStays, Zenon
<1>6. ASSUME link'[r], NEW k \in Keys \ lost'[r] PROVE Known(r, k)'
  <2>1. Known(r, k)
    BY <1>4, <1>6, Zenon DEF AllKnown
  <2>2. Pending(k) => Pending(k)'
    BY Zenon DEF Pending, primaryVars
  <2>3. out'[r] = Tail(out[r])
    BY <1>3, Zenon DEF TypeOK
  <2>4. /\ Says(out[r], k, index[k], now) =>
             \/ Says(out'[r], k, index[k], now)
             \/ l.key = k /\ Same(l.rec, index[k], now) /\ ~Mentions(out'[r], k)
        /\ ~Mentions(out[r], k) => ~Mentions(out'[r], k) /\ l.key # k
    BY <1>1, <2>3, TailSays, SMTT(30)
  <2>5. /\ k = l.key => db'[r][k] = l.rec
        /\ k # l.key => db'[r][k] = db[r][k]
    BY <1>2, <1>6 DEF TypeOK
  <2> HIDE DEF l
  <2> QED
    BY <1>4, <2>1, <2>2, <2>4, <2>5, Zenon DEF Known
<1> QED
  BY <1>5, <1>6, Zenon DEF AllKnown

\* A line moves from the channel to the connection.
LEMMA StreamKnown ==
  ASSUME IInv, NEW r \in Replicas, Stream(r)
  PROVE  AllKnown'
<1> USE DEF IInv
<1> DEFINE l == Head(ch[r])
<1>1. ch[r] # <<>> /\ ch[r] \in Seq(Line) /\ out[r] \in Seq(Line)
  BY Zenon DEF Stream, TypeOK
<1>2. l \in Line
  BY <1>1, HeadTailLines, Zenon
<1>3. /\ index' = index /\ now' = now /\ scanned' = scanned /\ link' = link /\ lost' = lost /\ db' = db
      /\ UNCHANGED <<now, primaryVars>>
  BY Zenon DEF Stream, primaryVars, replicaVars
<1>4. ASSUME NEW x \in Replicas \ {r}, link'[x], NEW k \in Keys \ lost'[x] PROVE Known(x, k)'
  <2>1. out'[x] = out[x] /\ ch'[x] = ch[x]
    BY Zenon DEF Stream, TypeOK
  <2>2. Known(x, k)
    BY <1>3, <1>4, Zenon DEF AllKnown
  <2>3. Same(db[x][k], db'[x][k], now)
    BY <1>3, SameRefl, Zenon
  <2> QED
    BY <1>3, <2>1, <2>2, <2>3, KnownStays, Zenon
<1>5. ASSUME link'[r], NEW k \in Keys \ lost'[r] PROVE Known(r, k)'
  <2>1. Known(r, k)
    BY <1>3, <1>5, Zenon DEF AllKnown
  <2>2. Pending(k) => Pending(k)'
    BY <1>3, Zenon DEF Pending, primaryVars
  <2>3. ch'[r] = Tail(ch[r]) /\ out'[r] = Append(out[r], l)
    BY Zenon DEF Stream, TypeOK
  <2>4. /\ Says(ch[r], k, index[k], now) =>
             \/ Says(ch'[r], k, index[k], now)
             \/ l.key = k /\ Same(l.rec, index[k], now) /\ ~Mentions(ch'[r], k)
        /\ ~Mentions(ch[r], k) => ~Mentions(ch'[r], k) /\ l.key # k
    <3>1. /\ Says(ch[r], k, index[k], now) =>
               \/ Says(Tail(ch[r]), k, index[k], now)
               \/ l.key = k /\ Same(l.rec, index[k], now) /\ ~Mentions(Tail(ch[r]), k)
          /\ ~Mentions(ch[r], k) => ~Mentions(Tail(ch[r]), k) /\ l.key # k
      BY <1>1, TailSays, ZenonT(30)
    <3> QED
      BY <2>3, <3>1, Zenon
  <2>5. l.key # k => /\ Says(out[r], k, index[k], now) => Says(out'[r], k, index[k], now)
                     /\ ~Mentions(out[r], k) => ~Mentions(out'[r], k)
    BY <1>1, <1>2, <2>3, AppendOther, Zenon
  <2>6. l.key = k /\ Same(l.rec, index[k], now) => Says(out'[r], k, index[k], now)
    BY <1>1, <1>2, <2>3, AppendSays, Zenon
  <2> HIDE DEF l
  <2> QED
    BY <1>3, <2>1, <2>2, <2>4, <2>5, <2>6, Zenon DEF Known
<1> QED
  BY <1>4, <1>5, Zenon DEF AllKnown

\* Every step keeps what is pending and what is known.
LEMMA KnownStep ==
  ASSUME IInv, [Next]_vars
  PROVE  OwnerPends' /\ AllKnown'
<1> USE DEF IInv
<1> USE ReplicationConstants
<1>1. TypeOK'
  BY TypeStep, Zenon
<1>2. ASSUME UNCHANGED <<now, primaryVars>> PROVE OwnerPends'
  BY <1>2, ZenonT(30) DEF OwnerPends, Pending, primaryVars
<1>3. ASSUME NEW r \in Replicas, UNCHANGED <<now, primaryVars, ch, scanned, out>>,
             \A x \in Replicas \ {r} : link'[x] = link[x] /\ lost'[x] = lost[x] /\ db'[x] = db[x],
             link'[r] => /\ link[r] /\ lost'[r] = lost[r]
                         /\ \A k \in Keys : Same(db[r][k], db'[r][k], now)
      PROVE  OwnerPends' /\ AllKnown'
  <2>1. ASSUME NEW x \in Replicas, link'[x], NEW k \in Keys \ lost'[x] PROVE Known(x, k)'
    <3>1. Known(x, k) /\ Same(db[x][k], db'[x][k], now)
      BY <1>3, <2>1, SameRefl, Zenon DEF AllKnown
    <3> QED
      BY <1>3, <3>1, KnownStays, ZenonT(30)
  <2> QED
    BY <1>2, <1>3, <2>1, ZenonT(30) DEF AllKnown
<1>4. ASSUME NEW s \in Sessions, Write(s) \/ Delete(s) \/ Commit(s) \/ CommitStep(s)
      PROVE  OwnerPends' /\ AllKnown'
  <2>1. \E l \in Line, rest \in Seq(Line) : IndexChange(s, l, rest)
    <3>1. CASE Write(s)
      <4>1. PICK k \in Keys, e \in {0, now, now + 1} \cap 0..MaxTime :
              IndexChange(s, [key |-> k, rec |-> NewRec(e)], <<>>)
        BY <3>1, Zenon DEF Write
      <4>2. [key |-> k, rec |-> NewRec(e)] \in Line /\ <<>> \in Seq(Line)
        BY NewRecType DEF Line
      <4> QED
        BY <4>1, <4>2, Zenon
    <3>2. CASE Delete(s)
      <4>1. PICK k \in Keys : IndexChange(s, [key |-> k, rec |-> NoRec], <<>>)
        BY <3>2, Zenon DEF Delete
      <4>2. [key |-> k, rec |-> NoRec] \in Line /\ <<>> \in Seq(Line)
        BY NoRecType DEF Line
      <4> QED
        BY <4>1, <4>2, Zenon
    <3>3. CASE Commit(s)
      <4>1. PICK k1 \in Keys, k2 \in Keys, rec1 \in {NewRec(0), NoRec}, rec2 \in {NewRec(0), NoRec} :
              IndexChange(s, [key |-> k1, rec |-> rec1], <<[key |-> k2, rec |-> rec2]>>)
        BY <3>3, Zenon DEF Commit
      <4>2. rec1 \in Rec /\ rec2 \in Rec
        BY NewRecType, NoRecType, Zenon
      <4>3. [key |-> k1, rec |-> rec1] \in Line /\ [key |-> k2, rec |-> rec2] \in Line
        BY <4>2, Zenon DEF Line
      <4>4. <<[key |-> k2, rec |-> rec2]>> \in Seq(Line)
        BY <4>3
      <4> QED
        BY <4>1, <4>3, <4>4, Zenon
    <3>4. CASE CommitStep(s)
      <4>1. op[s].todo \in Seq(Line) /\ op[s].todo # <<>>
        BY <3>4, Zenon DEF CommitStep, TypeOK, OpType, OpShape
      <4>2. Head(op[s].todo) \in Line /\ Tail(op[s].todo) \in Seq(Line)
        BY <4>1, HeadTailLines, Zenon
      <4> QED
        BY <3>4, <4>2, ZenonT(30) DEF CommitStep
    <3> QED
      BY <1>4, <3>1, <3>2, <3>3, <3>4, Zenon
  <2> QED
    BY <2>1, IndexChangeKnown, Zenon
<1>5. ASSUME NEW s \in Sessions, EndUnsent(s) PROVE OwnerPends' /\ AllKnown'
  <2>1. /\ \A k \in Keys : owner'[k] = IF owner[k] = s THEN NoOne ELSE owner[k]
        /\ \A x \in Sessions \ {s} : op'[x] = op[x]
        /\ UNCHANGED <<now, index, ch, out, scanned, db, link>>
    BY <1>5, ZenonT(30) DEF EndUnsent, TypeOK, handlerVars, wireVars, replicaVars
  <2>2. ASSUME NEW k \in Keys, owner[k] # s, Pending(k) PROVE Pending(k)'
    BY <2>1, <2>2, ZenonT(30) DEF Pending
  <2>3. OwnerPends'
    BY <2>1, <2>2, ZenonT(30) DEF OwnerPends
  <2>4. ASSUME NEW r \in Replicas, link'[r], NEW k \in Keys \ lost'[r] PROVE Known(r, k)'
    <3>1. k \notin lost[r] /\ owner[k] # s
      BY <1>5, <2>1, <2>4, Zenon DEF EndUnsent, LoseTrack
    <3>2. Known(r, k)
      BY <2>1, <2>4, <3>1, ZenonT(30) DEF AllKnown
    <3> QED
      BY <2>1, <2>2, <3>1, <3>2, ZenonT(30) DEF Known
  <2> QED
    BY <2>3, <2>4, Zenon DEF AllKnown
<1>6. ASSUME NEW p \in Keys, Persist(p) PROVE OwnerPends' /\ AllKnown'
  <2>1. /\ \A k \in Keys \ {p} : owner'[k] = owner[k] /\ index'[k] = index[k]
        /\ owner'[p] = NoOne
        /\ UNCHANGED <<now, op, ch, out, scanned, db, link>>
    BY <1>6, Zenon DEF Persist, TypeOK, handlerVars, wireVars, replicaVars
  <2>2. ASSUME NEW k \in Keys \ {p}, Pending(k) PROVE Pending(k)'
    BY <2>1, <2>2, Zenon DEF Pending
  <2>3. OwnerPends'
    BY <2>1, <2>2, Zenon DEF OwnerPends
  <2>4. ASSUME NEW r \in Replicas, link'[r], NEW k \in Keys \ lost'[r] PROVE Known(r, k)'
    <3>1. k \notin lost[r] /\ k # p
      BY <1>6, <2>1, <2>4, Zenon DEF Persist, LoseTrack
    <3>2. Known(r, k)
      BY <2>1, <2>4, <3>1, Zenon DEF AllKnown
    <3> QED
      BY <2>1, <2>2, <3>1, <3>2, Zenon DEF Known
  <2> QED
    BY <2>3, <2>4, Zenon DEF AllKnown
<1>7. ASSUME Evict \/ Tick PROVE OwnerPends' /\ AllKnown'
  <2>1. /\ UNCHANGED <<op, owner, ch, out, scanned, db, link, lost>>
        /\ now \in Nat /\ now' \in Nat /\ now <= now' /\ index' \in [Keys -> Rec]
    BY <1>1, <1>7, SMTT(30) DEF Evict, Tick, TypeOK, primaryVars, handlerVars, wireVars, replicaVars
  <2>2. ASSUME NEW k \in Keys PROVE Same(index[k], index'[k], now')
    <3>1. CASE Evict
      <4>1. index'[k] = (IF Dead(index[k], now) THEN NoRec ELSE index[k]) /\ now' = now
        BY <3>1, Zenon DEF Evict, Swept
      <4> QED
        BY <4>1, SameRefl, SameSwept, Zenon
    <3>2. CASE Tick
      BY <3>2, SameRefl, Zenon DEF Tick, primaryVars
    <3> QED
      BY <1>7, <3>1, <3>2, Zenon
  <2>3. ASSUME NEW k \in Keys, Pending(k) PROVE Pending(k)'
    <3>1. owner'[k] = owner[k] /\ op'[owner[k]] = op[owner[k]] /\ index'[k] \in Rec
      BY <2>1, Zenon
    <3> QED
      BY <2>1, <2>2, <2>3, <3>1, PendingFrame, Zenon
  <2>4. OwnerPends'
    BY <2>1, <2>3, Zenon DEF OwnerPends
  <2>5. ASSUME NEW r \in Replicas, link'[r], NEW k \in Keys \ lost'[r] PROVE Known(r, k)'
    <3>1. Known(r, k) /\ index'[k] \in Rec /\ Same(db[r][k], db'[r][k], now')
      BY <2>1, <2>5, SameRefl, Zenon DEF AllKnown
    <3> QED
      BY <2>1, <2>2, <2>3, <3>1, KnownFrame, ZenonT(30)
  <2> QED
    BY <2>4, <2>5, Zenon DEF AllKnown
<1>8. ASSUME NEW r \in Replicas, Dial(r) PROVE OwnerPends' /\ AllKnown'
  <2>1. /\ ~link[r] /\ scanned[r] = {} /\ ch[r] = <<>>
        /\ UNCHANGED <<now, primaryVars, ch, out, scanned, db, lost>>
        /\ \A x \in Replicas \ {r} : link'[x] = link[x]
    BY <1>8, Zenon DEF Dial, LinkShape, TypeOK
  <2>2. ASSUME NEW x \in Replicas, link'[x], NEW k \in Keys \ lost'[x] PROVE Known(x, k)'
    <3>1. CASE x = r
      <4>1. ch'[x] = <<>> /\ scanned'[x] = {}
        BY <2>1, <3>1, Zenon
      <4>2. ~Mentions(<<>>, k)
        BY DEF Mentions
      <4>3. ~Mentions(ch[x], k)'
        BY <4>1, <4>2, Zenon
      <4> QED
        BY <4>1, <4>3, Zenon DEF Known
    <3>2. CASE x # r
      <4>1. Known(x, k) /\ Same(db[x][k], db'[x][k], now)
        BY <2>1, <2>2, <3>2, SameRefl, ZenonT(30) DEF AllKnown
      <4> QED
        BY <2>1, <4>1, KnownStays, ZenonT(30)
    <3> QED
      BY <3>1, <3>2, Zenon
  <2> QED
    BY <1>2, <2>1, <2>2, Zenon DEF AllKnown
<1>9. ASSUME NEW r \in Replicas, Collect(r) PROVE OwnerPends' /\ AllKnown'
  BY <1>2, <1>9, CollectKnown, ZenonT(30) DEF Collect, Visit
<1>10. ASSUME NEW r \in Replicas, CollectUnread(r) PROVE OwnerPends' /\ AllKnown'
  <2>1. PICK v \in Keys :
          Visit(r, v) /\ lost' = [lost EXCEPT ![r] = @ \cup {v}] /\ UNCHANGED <<out, toRead>>
    BY <1>10, Zenon DEF CollectUnread
  <2>2. UNCHANGED <<now, primaryVars, ch, out, db, link>>
    BY <2>1, Zenon DEF Visit, replicaVars
  <2>3. ASSUME NEW x \in Replicas, link'[x], NEW k \in Keys \ lost'[x] PROVE Known(x, k)'
    <3>1. k \notin lost[x] /\ (k \in scanned'[x] => k \in scanned[x])
      BY <2>1, <2>3, Zenon DEF Visit, TypeOK
    <3>2. Known(x, k)
      BY <2>2, <2>3, <3>1, ZenonT(30) DEF AllKnown
    <3>3. Pending(k) => Pending(k)'
      BY <2>2, Zenon DEF Pending, primaryVars
    <3> QED
      BY <2>2, <3>1, <3>2, <3>3, Zenon DEF Known, primaryVars
  <2> QED
    BY <1>2, <2>2, <2>3, Zenon DEF AllKnown
<1>11. ASSUME NEW r \in Replicas, Stream(r) PROVE OwnerPends' /\ AllKnown'
  BY <1>2, <1>11, StreamKnown, Zenon DEF Stream
<1>12. ASSUME NEW r \in Replicas, HandlerExit(r) PROVE OwnerPends' /\ AllKnown'
  <2>1. /\ UNCHANGED <<now, primaryVars, out, scanned, db, link, lost>> /\ ~link[r]
        /\ \A x \in Replicas \ {r} : ch'[x] = ch[x]
    BY <1>12, Zenon DEF HandlerExit, TypeOK, wireVars, replicaVars
  <2>2. ASSUME NEW x \in Replicas, link'[x], NEW k \in Keys \ lost'[x] PROVE Known(x, k)'
    <3>1. x # r /\ Known(x, k) /\ Same(db[x][k], db'[x][k], now)
      BY <2>1, <2>2, SameRefl, ZenonT(30) DEF AllKnown
    <3> QED
      BY <2>1, <3>1, KnownStays, ZenonT(30)
  <2> QED
    BY <1>2, <2>1, <2>2, Zenon DEF AllKnown
<1>13. ASSUME NEW r \in Replicas, PyRead(r) \/ GotReady(r) PROVE OwnerPends' /\ AllKnown'
  <2>1. UNCHANGED <<now, primaryVars, ch, scanned, out, link, lost, db>>
    BY <1>13, Zenon DEF PyRead, GotReady, handlerVars, wireVars, replicaVars
  <2> QED
    BY <1>3, <2>1, SameRefl, Zenon
<1>14. ASSUME NEW r \in Replicas, Apply(r) PROVE OwnerPends' /\ AllKnown'
  <2>1. /\ MayApply(r) /\ Consume(r) /\ UNCHANGED <<now, primaryVars, ch, scanned, link>>
        /\ db' = [db EXCEPT ![r][Head(out[r]).key] = Head(out[r]).rec] /\ lost' = lost
    BY <1>14, Zenon DEF Apply, handlerVars
  <2>2. \A x \in Replicas \ {r} : db'[x] = db[x] /\ lost'[x] = lost[x]
    BY <2>1, Zenon DEF TypeOK
  <2> QED
    BY <1>2, <2>1, <2>2, ConsumeKnown, Zenon
<1>15. ASSUME NEW r \in Replicas, ApplyFails(r) \/ ApplyIgnored(r) PROVE OwnerPends' /\ AllKnown'
  <2>1. /\ MayApply(r) /\ Consume(r) /\ UNCHANGED <<now, primaryVars, ch, scanned, link, db>>
        /\ lost' = [lost EXCEPT ![r] = @ \cup {Head(out[r]).key}]
    BY <1>15, Zenon DEF ApplyFails, ApplyIgnored, handlerVars, replicaVars
  <2>2. /\ \A x \in Replicas \ {r} : db'[x] = db[x] /\ lost'[x] = lost[x]
        /\ lost'[r] = lost[r] \cup {Head(out[r]).key}
    BY <2>1, ZenonT(30) DEF TypeOK
  <2> QED
    BY <1>2, <2>1, <2>2, ConsumeKnown, Zenon
<1>16. ASSUME NEW r \in Replicas, ReplicaEvict(r) PROVE OwnerPends' /\ AllKnown'
  <2>1. /\ UNCHANGED <<now, primaryVars, ch, scanned, out, link, lost>>
        /\ db' = [db EXCEPT ![r] = Swept(db[r])]
    BY <1>16, Zenon DEF ReplicaEvict, handlerVars, wireVars
  <2>2. \A x \in Replicas \ {r} : db'[x] = db[x]
    BY <2>1, Zenon DEF TypeOK
  <2>3. ASSUME NEW k \in Keys PROVE Same(db[r][k], db'[r][k], now)
    <3>1. db'[r][k] = IF Dead(db[r][k], now) THEN NoRec ELSE db[r][k]
      BY <2>1, Zenon DEF Swept, TypeOK
    <3> QED
      BY <3>1, SameRefl, SameSwept, ZenonT(30)
  <2> QED
    BY <1>3, <2>1, <2>2, <2>3, Zenon
<1>17. ASSUME NEW r \in Replicas, DialFails(r) \/ Break(r) \/ Stop(r) PROVE OwnerPends' /\ AllKnown'
  <2>1. /\ UNCHANGED <<now, primaryVars, ch>> /\ ~link'[r]
        /\ \A x \in Replicas \ {r} : /\ link'[x] = link[x] /\ lost'[x] = lost[x] /\ db'[x] = db[x]
                                     /\ out'[x] = out[x] /\ scanned'[x] = scanned[x]
    BY <1>17 DEF DialFails, Break, Stop, Cut, TypeOK
  <2>2. ASSUME NEW x \in Replicas, link'[x], NEW k \in Keys \ lost'[x] PROVE Known(x, k)'
    <3>1. x # r
      BY <2>1, <2>2, ZenonT(30)
    <3>2. Known(x, k) /\ Same(db[x][k], db'[x][k], now)
      BY <2>1, <2>2, <3>1, SameRefl, ZenonT(30) DEF AllKnown
    <3> QED
      BY <2>1, <3>1, <3>2, KnownStays, Zenon
  <2> QED
    BY <1>2, <2>1, <2>2, ZenonT(30) DEF AllKnown
<1>18. CASE UNCHANGED vars
  BY <1>18, ZenonT(30) DEF vars, OwnerPends, AllKnown, Known, Pending, primaryVars, handlerVars, wireVars, replicaVars
<1>19. ASSUME NEW s \in Sessions, Send(s) PROVE OwnerPends' /\ AllKnown'
  BY <1>19, SendKnown, Zenon
<1> QED
  BY <1>4, <1>5, <1>6, <1>7, <1>8, <1>9, <1>10, <1>11, <1>12, <1>13, <1>14, <1>15, <1>16, <1>17,
    <1>18, <1>19, Zenon DEF Next, Environment, SessionStep, HandlerStep, ClientStep

-----------------------------------------------------------------------------
LEMMA InitInv == Init => IInv
<1> SUFFICES ASSUME Init PROVE IInv
  BY Zenon
<1> USE ReplicationConstants
<1>1. IdleOp \in OpType /\ <<>> \in Seq(Line)
  BY SMTT(30) DEF IdleOp, OpType
<1>2. TypeOK
  <2>1. op \in [Sessions -> OpType] /\ index \in [Keys -> Rec] /\ db \in [Replicas -> [Keys -> Rec]]
    BY <1>1, NoRecType, Zenon DEF Init
  <2>2. ch \in [Replicas -> Seq(Line)] /\ out \in [Replicas -> Seq(Line)] /\ queued \in [Replicas -> Nat]
    BY <1>1, Zenon DEF Init
  <2>3. \A r \in Replicas : queued[r] <= Len(out[r]) /\ (client[r] = "go" => queued[r] = 0)
    BY DEF Init
  <2>4. client \in [Replicas -> {"go", "python"}]
    BY Zenon DEF Init
  <2> QED
    BY <2>1, <2>2, <2>3, <2>4, Zenon DEF Init, TypeOK
<1>3. OpShape /\ LinkShape /\ OwnerPends /\ AllKnown
  BY Zenon DEF Init, IdleOp, OpShape, LinkShape, OwnerPends, AllKnown
<1> QED
  BY <1>2, <1>3, Zenon DEF IInv

LEMMA Inductive == Spec => []IInv
<1>1. Init => IInv
  BY InitInv, Zenon
<1>2. IInv /\ [Next]_vars => IInv'
  BY TypeStep, LinkStep, KnownStep, Zenon DEF IInv
<1> QED
  BY <1>1, <1>2, PTL DEF Spec

\* Sessions, handlers and replicas keep every variable's type, and a Python
\* client's queue is part of what the handler sent it.
THEOREM TypeCorrect == Spec => []TypeOK
<1>1. IInv => TypeOK
  BY Zenon DEF IInv
<1> QED
  BY <1>1, Inductive, PTL

\* For any number of keys, sessions and replicas and any capacities: register
\* before snapshot leaves no gap.  Every key the snapshot has passed, and of which no
\* line was dropped, is known to the replica, on its way, or still to be fanned out.
THEOREM SnapshotAndStreamMeet == Spec => []ReplicaTracks
<1>1. IInv => ReplicaTracks
  BY ZenonT(30) DEF IInv, AllKnown, Known, LinkShape, ReplicaTracks, LastWord, TypeOK
<1> QED
  BY <1>1, Inductive, PTL

\* When the primary is idle and everything sent is applied, the replica's
\* store is the primary's, but for the keys it was not told of.
THEOREM QuietReplicaInSync == Spec => []QuietInSync
<1>1. ASSUME IInv PROVE QuietInSync
  <2>1. SUFFICES ASSUME NEW r \in Replicas, handler[r] = "stream", link[r],
                        \A s \in Sessions : op[s] = IdleOp, ch[r] = <<>>, out[r] = <<>>,
                        NEW k \in Keys \ lost[r]
                 PROVE  Same(db[r][k], index[k], now)
    BY Zenon DEF QuietInSync
  <2>2. Known(r, k) /\ k \in scanned[r]
    BY <1>1, <2>1, Zenon DEF IInv, AllKnown, LinkShape
  <2>3. ~Pending(k)
    BY <2>1, SMTT(30) DEF Pending, IdleOp
  <2>4. ~Says(ch[r], k, index[k], now) /\ ~Says(out[r], k, index[k], now)
    BY <2>1 DEF Says
  <2> QED
    BY <2>2, <2>3, <2>4, Zenon DEF Known
<1> QED
  BY <1>1, Inductive, PTL

-----------------------------------------------------------------------------
(* Handler and client do not wait for each other *)

Waits(r) ==
  /\ toRead[r] + queued[r] <= Len(out[r]) /\ queued[r] <= QueueCap
  /\ handler[r] = "collect" /\ link[r] => scanned[r] # Keys

\* A step that touches the connection of r alone.
LEMMA WaitsOfOne ==
  ASSUME WaitShape, NEW r \in Replicas, Waits(r)',
         \A x \in Replicas \ {r} :
           /\ toRead'[x] = toRead[x] /\ queued'[x] = queued[x] /\ out'[x] = out[x]
           /\ handler'[x] = handler[x] /\ link'[x] = link[x] /\ scanned'[x] = scanned[x]
  PROVE  WaitShape'
<1>1. ASSUME NEW x \in Replicas, x # r PROVE Waits(x)'
  <2>1. Waits(x)
    BY Zenon DEF WaitShape, Waits
  <2> QED
    BY <1>1, <2>1, Zenon DEF Waits
<1>2. \A x \in Replicas : Waits(x)'
  BY <1>1, Zenon
<1> QED
  BY <1>2, Zenon DEF WaitShape, Waits

LEMMA WaitStep ==
  ASSUME TypeOK, LinkShape, WaitShape, Keys # {}, [Next]_vars
  PROVE  WaitShape'
<1>1. CASE UNCHANGED <<handler, scanned, wireVars>>
  BY <1>1, Zenon DEF WaitShape, wireVars
<1>2. ASSUME NEW r \in Replicas
      PROVE  /\ out[r] \in Seq(Line) /\ Len(out[r]) \in Nat /\ queued[r] \in Nat /\ toRead[r] \in Nat
             /\ toRead[r] + queued[r] <= Len(out[r]) /\ queued[r] <= QueueCap
  <2>1. out[r] \in Seq(Line) /\ queued[r] \in Nat /\ toRead[r] \in Nat
    BY Zenon DEF TypeOK
  <2> QED
    BY <2>1 DEF WaitShape
<1>3. ASSUME NEW s \in Sessions, SessionStep(s) \/ Write(s) \/ Delete(s) \/ Commit(s) \/ EndUnsent(s)
      PROVE  WaitShape'
  <2>1. UNCHANGED <<handler, scanned, wireVars>>
    BY <1>3, ZenonT(30) DEF SessionStep, Write, Delete, Commit, CommitStep, Send, EndUnsent, IndexChange, handlerVars
  <2> QED
    BY <1>1, <2>1, Zenon
<1>4. CASE Evict \/ Tick \/ (\E k \in Keys : Persist(k)) \/ UNCHANGED vars
  BY <1>1, <1>4, Zenon DEF Evict, Tick, Persist, vars, handlerVars
<1>5. ASSUME NEW r \in Replicas, GotReady(r) \/ ReplicaEvict(r) PROVE WaitShape'
  BY <1>1, <1>5, Zenon DEF GotReady, ReplicaEvict, handlerVars
<1>6. ASSUME NEW r \in Replicas, Dial(r) PROVE WaitShape'
  <2>1. scanned[r] = {}
    BY <1>6, Zenon DEF Dial, LinkShape
  <2>2. Waits(r)'
    BY <1>2, <1>6, <2>1, Zenon DEF Dial, Waits
  <2>3. \A x \in Replicas \ {r} : handler'[x] = handler[x] /\ link'[x] = link[x]
    BY <1>6, Zenon DEF Dial, TypeOK
  <2> QED
    BY <1>6, <2>2, <2>3, WaitsOfOne, Zenon DEF Dial
<1>7. ASSUME NEW r \in Replicas, NEW k \in Keys, Visit(r, k),
             \A x \in Replicas \ {r} : out'[x] = out[x] /\ toRead'[x] = toRead[x],
             toRead'[r] + queued[r] <= Len(out'[r])
      PROVE  WaitShape'
  <2>1. handler'[r] = IF scanned'[r] = Keys THEN "stream" ELSE "collect"
    BY <1>7, Zenon DEF Visit, TypeOK
  <2>2. Waits(r)'
    <3>1. queued' = queued /\ queued[r] <= QueueCap
      BY <1>2, <1>7, Zenon DEF Visit
    <3> QED
      BY <1>7, <2>1, <3>1, Zenon DEF Waits
  <2>3. \A x \in Replicas \ {r} : /\ handler'[x] = handler[x] /\ scanned'[x] = scanned[x]
                                  /\ link'[x] = link[x] /\ queued'[x] = queued[x]
    BY <1>7, Zenon DEF Visit, TypeOK
  <2> QED
    BY <1>7, <2>2, <2>3, WaitsOfOne, Zenon
<1>8. ASSUME NEW r \in Replicas, Collect(r) PROVE WaitShape'
  <2>1. PICK k \in Keys :
          /\ Visit(r, k)
          /\ IF Dead(index[k], now)
             THEN UNCHANGED <<out, toRead>>
             ELSE /\ out' = [out EXCEPT ![r] = Append(@, [key |-> k, rec |-> index[k]])]
                  /\ toRead' = [toRead EXCEPT ![r] = @ + 1]
    BY <1>8, ZenonT(30) DEF Collect
  <2>2. CASE Dead(index[k], now)
    BY <1>2, <1>7, <2>1, <2>2, Zenon
  <2>3. CASE ~Dead(index[k], now)
    <3> DEFINE l == [key |-> k, rec |-> index[k]]
    <3>1. l \in Line
      BY Zenon DEF TypeOK, Line
    <3>2. out'[r] = Append(out[r], l) /\ toRead'[r] = toRead[r] + 1
      BY <2>1, <2>3, Zenon DEF TypeOK
    <3>3. \A x \in Replicas \ {r} : out'[x] = out[x] /\ toRead'[x] = toRead[x]
      BY <2>1, <2>3, Zenon DEF TypeOK
    <3> HIDE DEF l
    <3>4. Len(out'[r]) = Len(out[r]) + 1
      BY <1>2, <3>1, <3>2
    <3>5. toRead'[r] + queued[r] <= Len(out'[r])
      BY <1>2, <3>2, <3>4
    <3> QED
      BY <1>7, <2>1, <3>3, <3>5, Zenon
  <2> QED
    BY <2>2, <2>3, Zenon
<1>9. ASSUME NEW r \in Replicas, CollectUnread(r) PROVE WaitShape'
  <2>1. PICK k \in Keys : Visit(r, k) /\ UNCHANGED <<out, toRead>>
    BY <1>9, ZenonT(30) DEF CollectUnread
  <2> QED
    BY <1>2, <1>7, <2>1, Zenon
<1>10. ASSUME NEW r \in Replicas, Stream(r) PROVE WaitShape'
  <2>1. out'[r] = Append(out[r], Head(ch[r])) /\ ch[r] \in Seq(Line) /\ ch[r] # <<>>
    BY <1>10, Zenon DEF Stream, TypeOK
  <2>2. Head(ch[r]) \in Line
    BY <2>1, HeadTailLines, Zenon
  <2>3. Len(out'[r]) = Len(out[r]) + 1
    BY <1>2, <2>1, <2>2
  <2>4. UNCHANGED <<handler, scanned, queued, toRead, link>> /\ handler[r] = "stream"
    BY <1>10, Zenon DEF Stream
  <2>5. toRead'[r] + queued'[r] <= Len(out'[r])
    BY <1>2, <2>3, <2>4
  <2>6. Waits(r)'
    BY <1>2, <2>4, <2>5, Zenon DEF Waits
  <2>7. \A x \in Replicas \ {r} : out'[x] = out[x]
    BY <1>10, Zenon DEF Stream, TypeOK
  <2> QED
    BY <2>4, <2>6, <2>7, WaitsOfOne, Zenon
<1>11. ASSUME NEW r \in Replicas, HandlerExit(r) PROVE WaitShape'
  <2>1. handler'[r] = "none" /\ \A x \in Replicas \ {r} : handler'[x] = handler[x]
    BY <1>11, Zenon DEF HandlerExit, TypeOK
  <2>2. UNCHANGED <<scanned, queued, toRead, out, link>>
    BY <1>11, Zenon DEF HandlerExit, wireVars
  <2>3. Waits(r)'
    BY <1>2, <2>1, <2>2, Zenon DEF Waits
  <2> QED
    BY <2>1, <2>2, <2>3, WaitsOfOne, Zenon
<1>12. ASSUME NEW r \in Replicas, PyRead(r) PROVE WaitShape'
  <2>1. /\ queued[r] < Len(out[r]) /\ queued[r] < QueueCap /\ handler[r] = "stream"
        /\ queued'[r] = queued[r] + 1 /\ toRead'[r] = IF toRead[r] > 0 THEN toRead[r] - 1 ELSE 0
        /\ UNCHANGED <<handler, scanned, out, link>>
    BY <1>12, Zenon DEF PyRead, handlerVars, TypeOK
  <2>2. toRead'[r] + queued'[r] <= Len(out'[r]) /\ queued'[r] <= QueueCap
    BY <1>2, <2>1, ReplicationConstants
  <2>3. Waits(r)'
    BY <2>1, <2>2, Zenon DEF Waits
  <2>4. \A x \in Replicas \ {r} : queued'[x] = queued[x] /\ toRead'[x] = toRead[x]
    BY <1>12, Zenon DEF PyRead, TypeOK
  <2> QED
    BY <2>1, <2>3, <2>4, WaitsOfOne, Zenon
<1>13. ASSUME NEW r \in Replicas, Apply(r) \/ ApplyFails(r) \/ ApplyIgnored(r) PROVE WaitShape'
  <2>1. MayApply(r) /\ Consume(r) /\ UNCHANGED <<handler, scanned, link>>
    BY <1>13, Zenon DEF Apply, ApplyFails, ApplyIgnored, handlerVars
  <2>2. out[r] # <<>> /\ out'[r] = Tail(out[r]) /\ \A x \in Replicas \ {r} : out'[x] = out[x]
    BY <2>1, ConsumeTypes, Zenon DEF Consume, TypeOK
  <2>3. Len(out'[r]) = Len(out[r]) - 1
    BY <1>2, <2>2, HeadTailLines, Zenon
  <2>4. CASE client[r] = "python"
    <3>1. queued'[r] = queued[r] - 1 /\ queued[r] > 0 /\ toRead' = toRead
      BY <2>1, <2>4, Zenon DEF Consume, MayApply, TypeOK
    <3>2. toRead'[r] + queued'[r] <= Len(out'[r]) /\ queued'[r] <= QueueCap
      BY <1>2, <2>3, <3>1, ReplicationConstants
    <3>3. Waits(r)'
      <4>1. Waits(r)
        BY Zenon DEF WaitShape, Waits
      <4> QED
        BY <2>1, <3>2, <4>1, Zenon DEF Waits
    <3>4. \A x \in Replicas \ {r} : queued'[x] = queued[x]
      BY <2>1, <2>4, Zenon DEF Consume, TypeOK
    <3> QED
      BY <2>1, <2>2, <3>1, <3>3, <3>4, WaitsOfOne, Zenon
  <2>5. CASE client[r] # "python"
    <3>1. /\ toRead'[r] = IF toRead[r] > 0 THEN toRead[r] - 1 ELSE 0
          /\ queued' = queued /\ queued[r] = 0 /\ handler[r] = "stream"
      BY <2>1, <2>5, Zenon DEF Consume, MayApply, TypeOK
    <3>2. Len(out[r]) > 0
      BY <1>2, <2>2, HeadTailLines, Zenon
    <3>3. toRead'[r] + queued'[r] <= Len(out'[r]) /\ queued'[r] <= QueueCap
      BY <1>2, <2>3, <3>1, <3>2
    <3>4. Waits(r)'
      BY <2>1, <3>1, <3>3, Zenon DEF Waits
    <3>5. \A x \in Replicas \ {r} : toRead'[x] = toRead[x]
      BY <2>1, <2>5, Zenon DEF Consume, TypeOK
    <3> QED
      BY <2>1, <2>2, <3>1, <3>4, <3>5, WaitsOfOne, Zenon
  <2> QED
    BY <2>4, <2>5, Zenon
<1>14. ASSUME NEW r \in Replicas, DialFails(r) \/ Break(r) \/ Stop(r) PROVE WaitShape'
  <2>1. PICK phase : Cut(r, phase)
    BY <1>14, Zenon DEF DialFails, Break, Stop
  <2>2. toRead'[r] = 0 /\ queued'[r] = 0 /\ out'[r] = <<>> /\ ~link'[r]
    BY <2>1, Zenon DEF Cut, TypeOK
  <2>3. toRead'[r] + queued'[r] <= Len(out'[r]) /\ queued'[r] <= QueueCap
    BY <2>2, ReplicationConstants
  <2>4. Waits(r)'
    BY <2>2, <2>3, Zenon DEF Waits
  <2>5. \A x \in Replicas \ {r} :
          /\ toRead'[x] = toRead[x] /\ queued'[x] = queued[x] /\ out'[x] = out[x]
          /\ handler'[x] = handler[x] /\ link'[x] = link[x] /\ scanned'[x] = scanned[x]
    BY <2>1, ZenonT(30) DEF Cut, TypeOK
  <2> QED
    BY <2>4, <2>5, WaitsOfOne, Zenon
<1> QED
  BY <1>3, <1>4, <1>5, <1>6, <1>8, <1>9, <1>10, <1>11, <1>12, <1>13, <1>14, ZenonT(30)
  DEF Next, Environment, HandlerStep, ClientStep

\* For any number of replicas and any capacities but zero: a replica that dials, or
\* has lines to come, has a handler or a client whose guard holds, so handleReplicate and its
\* client never wait for each other; the one exception is the constructor of ReplicaConn
\* behind a full queue.  (NeverStuck says so with ENABLED.)
THEOREM HandlerAndClientMove ==
  ASSUME Keys # {}, WireCap > 0, QueueCap > 0
  PROVE  Spec => []SomeoneMoves
<1>1. Init => WaitShape
  <2> SUFFICES ASSUME Init, NEW r \in Replicas PROVE Waits(r)
    BY Zenon DEF WaitShape, Waits
  <2>1. toRead[r] = 0 /\ queued[r] = 0 /\ out[r] = <<>> /\ handler[r] = "none"
    BY Zenon DEF Init
  <2>2. toRead[r] + queued[r] <= Len(out[r]) /\ queued[r] <= QueueCap
    BY <2>1, ReplicationConstants
  <2> QED
    BY <2>1, <2>2, Zenon DEF Waits
<1>2. IInv /\ WaitShape /\ [Next]_vars => WaitShape'
  BY WaitStep, Zenon DEF IInv
<1>3. ASSUME IInv, WaitShape PROVE SomeoneMoves
  <2> SUFFICES ASSUME NEW r \in Replicas, Busy(r),
                      ~(replica[r] = "dial" /\ QueueFull(r) /\ toRead[r] > 0)
               PROVE  CanStep(r)
    BY Zenon DEF SomeoneMoves
  <2>1. /\ TypeOK /\ link[r] /\ handler[r] \in {"collect", "stream"}
        /\ handler[r] = "collect" => scanned[r] # Keys
    BY <1>3, Zenon DEF IInv, TypeOK, LinkShape, WaitShape, Busy
  <2>2. /\ out[r] \in Seq(Line) /\ queued[r] \in Nat /\ toRead[r] \in Nat
        /\ client[r] \in {"go", "python"} /\ (client[r] = "go" => queued[r] = 0)
    BY <2>1, Zenon DEF TypeOK
  <2>3. toRead[r] + queued[r] <= Len(out[r]) /\ queued[r] <= QueueCap
    BY <1>3, Zenon DEF WaitShape
  <2>4. CASE handler[r] = "collect"
    BY <2>1, <2>4, Zenon DEF CanStep
  <2>5. CASE handler[r] = "stream" /\ replica[r] = "dial"
    <3>1. CASE toRead[r] = 0
      BY <2>1, <2>5, <3>1, Zenon DEF CanStep
    <3>2. CASE toRead[r] > 0
      <4>1. queued[r] < Len(out[r]) /\ out[r] # <<>>
        BY <2>2, <2>3, <3>2
      <4>2. client[r] = "python" => queued[r] < QueueCap
        BY <2>2, <2>3, <2>5, <3>2, ReplicationConstants DEF QueueFull
      <4> QED
        BY <2>2, <2>5, <3>2, <4>1, <4>2, Zenon DEF CanStep, MayApply
    <3> QED
      BY <2>2, <3>1, <3>2
  <2>6. CASE handler[r] = "stream" /\ replica[r] # "dial"
    <3>1. replica[r] = "live" /\ (ch[r] # <<>> \/ out[r] # <<>>)
      BY <2>6, Zenon DEF Busy
    <3>2. CASE out[r] = <<>>
      <4>1. WireRoom(r)
        BY <2>2, <2>3, <3>2 DEF WireRoom
      <4> QED
        BY <2>1, <2>6, <3>1, <3>2, <4>1, Zenon DEF CanStep
    <3>3. CASE out[r] # <<>> /\ (client[r] = "go" \/ queued[r] > 0)
      BY <2>2, <2>6, <3>1, <3>3, Zenon DEF CanStep, MayApply
    <3>4. CASE out[r] # <<>> /\ client[r] = "python" /\ ~(queued[r] > 0)
      <4>1. queued[r] < Len(out[r]) /\ queued[r] < QueueCap
        BY <2>2, <3>4, ReplicationConstants
      <4> QED
        BY <2>6, <3>4, <4>1, Zenon DEF CanStep
    <3> QED
      BY <2>2, <3>2, <3>3, <3>4, Zenon
  <2> QED
    BY <2>1, <2>4, <2>5, <2>6, Zenon
<1> QED
  BY <1>1, <1>2, <1>3, Inductive, PTL DEF Spec
=============================================================================
