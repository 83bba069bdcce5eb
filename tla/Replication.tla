----------------------------- MODULE Replication -----------------------------
(***************************************************************************)
(* WAL replication: the fan-out of every write to the connected replicas    *)
(* (replication.go, the fanout calls of session.go), the handler that sends *)
(* a snapshot and then the stream (handleReplicate in server.go), and its   *)
(* two clients: cmd/replica over client.DialReplica, and ReplicaConn of the *)
(* Python client with its reader thread and bounded queue.                  *)
(*                                                                          *)
(* The lines on their way to a replica are one sequence, out[r]: the first  *)
(* queued[r] are in the Python client's queue, the next WireCap in the      *)
(* connection's buffers, and the rest is the part of the snapshot that is   *)
(* still in the handler's memory.  Lines fanned out but not yet taken by    *)
(* the handler are in its channel, ch[r].                                   *)
(*                                                                          *)
(* A value is the number of the operation that wrote it.  Both processes    *)
(* read one clock: an expiry is sent as an absolute time.                   *)
(***************************************************************************)
EXTENDS Naturals, Sequences, FiniteSets

CONSTANTS
  Keys, Sessions, Replicas,
  NoOne,       \* not a session
  Clients,     \* the kinds of client in play: subset of {"go", "python"}
  ChanCap,     \* capacity of a replica's channel (4096 in the code)
  WireCap,     \* lines the connection's buffers hold
  QueueCap,    \* capacity of the Python client's queue (4096 in the code)
  MaxOps,      \* bound: operations in a behaviour
  MaxTime,     \* bound: clock ticks
  MaxDials     \* bound: connections a replica makes

Rec == [val : Nat, exp : Nat]
Line == [key : Keys, rec : Rec]
NoRec == [val |-> 0, exp |-> 0]

ASSUME ReplicationConstants ==
  /\ IsFiniteSet(Keys)
  /\ NoOne \notin Sessions
  /\ Clients \subseteq {"go", "python"}
  /\ ChanCap \in Nat /\ WireCap \in Nat /\ QueueCap \in Nat
  /\ MaxOps \in Nat /\ MaxTime \in Nat /\ MaxDials \in Nat

VARIABLES
  now,
  index,     \* the primary's hash index
  op,        \* what each session of the primary is doing
  handler,   \* handleReplicate: "none" | "collect" | "stream"
  scanned,   \* the keys Snapshot has visited
  ch, out, queued,
  toRead,    \* lines before +READY that the client has not read
  link,      \* is the connection up?
  replica,   \* the replica process: "off" | "dial" | "live" | "stalled"
  db,        \* its copy of the store
  client,    \* "go" | "python"; never changes
  nops, dials,
  owner,     \* history: the session whose change index[k] is, until it is fanned out
  lost       \* history: keys whose latest change a replica was not sent, or failed to take

primaryVars == <<index, op, nops, owner>>
handlerVars == <<handler, scanned, ch>>
wireVars == <<out, queued, toRead, link>>
replicaVars == <<replica, db, dials>>
vars == <<now, primaryVars, handlerVars, wireVars, replicaVars, client, lost>>

IdleOp == [pc |-> "idle", todo |-> <<>>, sent |-> <<>>]

\* Absent, or expired: exp counts the ticks up to the first one after the expiry.
Dead(rec, t) == rec.val = 0 \/ (rec.exp # 0 /\ rec.exp <= t)

\* From time t on nobody can tell the two records apart.
Same(rec1, rec2, t) == rec1 = rec2 \/ (Dead(rec1, t) /\ Dead(rec2, t))

Mentions(q, k) == \E i \in DOMAIN q : q[i].key = k

\* The last line of q about k brings what is rec at time t.
Says(q, k, rec, t) ==
  \E i \in DOMAIN q :
    /\ q[i].key = k /\ Same(q[i].rec, rec, t)
    /\ \A j \in DOMAIN q : j > i => q[j].key # k

Registered(r) == handler[r] # "none"

Init ==
  /\ now = 0
  /\ index = [k \in Keys |-> NoRec]
  /\ op = [s \in Sessions |-> IdleOp]
  /\ handler = [r \in Replicas |-> "none"]
  /\ scanned = [r \in Replicas |-> {}]
  /\ ch = [r \in Replicas |-> <<>>]
  /\ out = [r \in Replicas |-> <<>>]
  /\ queued = [r \in Replicas |-> 0]
  /\ toRead = [r \in Replicas |-> 0]
  /\ link = [r \in Replicas |-> FALSE]
  /\ replica = [r \in Replicas |-> "off"]
  /\ db = [r \in Replicas |-> [k \in Keys |-> NoRec]]
  /\ client \in [Replicas -> Clients]
  /\ nops = 0
  /\ dials = [r \in Replicas |-> 0]
  /\ owner = [k \in Keys |-> NoOne]
  /\ lost = [r \in Replicas |-> {}]

-----------------------------------------------------------------------------
(* The primary's sessions *)

\* The session changes one key in the index, under its lock; rest follows.
IndexChange(s, l, rest) ==
  /\ index' = [index EXCEPT ![l.key] = l.rec]
  /\ owner' = [owner EXCEPT ![l.key] = s]
  /\ op' = [op EXCEPT ![s] = [pc |-> IF rest = <<>> THEN "send" ELSE "index",
                              todo |-> rest, sent |-> Append(@.sent, l)]]
  /\ UNCHANGED <<now, handlerVars, wireVars, replicaVars, client, lost>>

NewOp(s) == op[s].pc = "idle" /\ nops < MaxOps /\ nops' = nops + 1

NewRec(exp) == [val |-> nops + 1, exp |-> exp]

\* Set, SetEX, SetBlob and SetBlobStream.  The expiry was computed before the
\* lock was taken, and may have passed.  (One beyond MaxTime never comes.)
Write(s) ==
  \E k \in Keys, exp \in {0, now, now + 1} \cap 0..MaxTime :
    NewOp(s) /\ IndexChange(s, [key |-> k, rec |-> NewRec(exp)], <<>>)

\* Delete; an absent key ends it under the lock.
Delete(s) ==
  \E k \in Keys :
    NewOp(s) /\ index[k] # NoRec /\ IndexChange(s, [key |-> k, rec |-> NoRec], <<>>)

\* CommitTransaction: the keys it sets in any order, then those it deletes,
\* whether or not they are there.
Commit(s) ==
  \E k1, k2 \in Keys, rec1, rec2 \in {NewRec(0), NoRec} :
    /\ k1 # k2 /\ (rec1 = NoRec => rec2 = NoRec)
    /\ NewOp(s)
    /\ IndexChange(s, [key |-> k1, rec |-> rec1], <<[key |-> k2, rec |-> rec2]>>)

CommitStep(s) ==
  /\ op[s].pc = "index"
  /\ IndexChange(s, Head(op[s].todo), Tail(op[s].todo))
  /\ UNCHANGED nops

Room(r) == Len(ch[r]) < ChanCap

\* Mutant of Takes: the replica gets nothing before its snapshot is complete.
TakesLate(r) == handler[r] = "stream" /\ Room(r)

\* The replica is registered and its channel has room: the send does not fall through.
Takes(r) == Registered(r) /\ Room(r)

\* Every connected replica loses track of the keys ks.
LoseTrack(ks) == lost' = [r \in Replicas |-> IF link[r] THEN lost[r] \cup ks ELSE lost[r]]

\* What becomes of the replica's knowledge of l.key when s fans out l.
LostBySend(r, s, l) ==
  IF ~link[r] THEN lost[r]
  ELSE IF ~Room(r)
  THEN IF owner[l.key] = s THEN lost[r] \cup {l.key} ELSE lost[r]
  ELSE IF owner[l.key] \notin {s, NoOne} THEN lost[r]
  ELSE IF Same(l.rec, index[l.key], now) THEN lost[r] \ {l.key} ELSE lost[r] \cup {l.key}

\* writeWAL succeeds and fanout offers the line to every registered replica.
Send(s) ==
  LET l == Head(op[s].sent) IN
  /\ op[s].pc = "send" /\ op[s].sent # <<>>
  /\ op' = [op EXCEPT ![s] = IF Tail(@.sent) = <<>> THEN IdleOp
                             ELSE [pc |-> "send", todo |-> <<>>, sent |-> Tail(@.sent)]]
  /\ ch' = [r \in Replicas |-> IF Takes(r) THEN Append(ch[r], l) ELSE ch[r]]
  /\ lost' = [r \in Replicas |-> LostBySend(r, s, l)]
  /\ owner' = [owner EXCEPT ![l.key] = IF @ = s THEN NoOne ELSE @]
  /\ UNCHANGED <<now, index, nops, handler, scanned, wireVars, replicaVars, client>>

\* The session ends without fanning out what it changed: SetBlobStream never
\* does, and no operation does once the index or the WAL returned an error.
EndUnsent(s) ==
  LET ks == {k \in Keys : owner[k] = s} IN
  /\ op[s].sent # <<>>
  /\ op' = [op EXCEPT ![s] = IdleOp]
  /\ owner' = [k \in Keys |-> IF owner[k] = s THEN NoOne ELSE owner[k]]
  /\ LoseTrack(ks)
  /\ UNCHANGED <<now, index, nops, handlerVars, wireVars, replicaVars, client>>

\* Persist is neither logged nor fanned out.
Persist(k) ==
  /\ index[k].exp # 0 /\ nops < MaxOps
  /\ nops' = nops + 1
  /\ index' = [index EXCEPT ![k].exp = 0]
  /\ owner' = [owner EXCEPT ![k] = NoOne]
  /\ LoseTrack({k})
  /\ UNCHANGED <<now, op, handlerVars, wireVars, replicaVars, client>>

Swept(store) == [k \in Keys |-> IF Dead(store[k], now) THEN NoRec ELSE store[k]]

\* evictExpired on the primary; nothing is fanned out.
Evict ==
  /\ index # Swept(index)
  /\ index' = Swept(index)
  /\ UNCHANGED <<now, op, nops, owner, handlerVars, wireVars, replicaVars, client, lost>>

Tick ==
  /\ now < MaxTime
  /\ now' = now + 1
  /\ UNCHANGED <<primaryVars, handlerVars, wireVars, replicaVars, client, lost>>

-----------------------------------------------------------------------------
(* handleReplicate *)

\* A replica process starts, connects and sends REPLICATE; the handler
\* registers its channel before it takes the snapshot.
Dial(r) ==
  /\ replica[r] = "off" /\ handler[r] = "none" /\ dials[r] < MaxDials
  /\ dials' = [dials EXCEPT ![r] = @ + 1]
  /\ replica' = [replica EXCEPT ![r] = "dial"]
  /\ link' = [link EXCEPT ![r] = TRUE]
  /\ handler' = [handler EXCEPT ![r] = "collect"]
  /\ UNCHANGED <<now, primaryVars, scanned, ch, out, queued, toRead, db, client, lost>>

\* What Collect leaves of lost[r]: a snapshot value is the last word unless
\* the channel holds a line about the key; an absent key is not mentioned, and
\* the replica keeps what it has from an earlier connection.
LostByCollect(r, k) ==
  IF Mentions(ch[r], k) THEN lost[r]
  ELSE IF Dead(index[k], now) /\ ~Dead(db[r][k], now) THEN lost[r] \cup {k}
  ELSE lost[r] \ {k}

\* Snapshot is done with a key; with the last one it returns, and the lines
\* are written as the connection takes them.
Visit(r, k) ==
  /\ handler[r] = "collect" /\ link[r] /\ k \notin scanned[r]
  /\ scanned' = [scanned EXCEPT ![r] = @ \cup {k}]
  /\ handler' = [handler EXCEPT ![r] = IF scanned'[r] = Keys THEN "stream" ELSE @]
  /\ UNCHANGED <<now, primaryVars, ch, queued, link, replicaVars, client>>

\* ForEach reports a value the key has while it runs (HashIndex!ScanRegular)
\* and skips expired ones.
Collect(r) ==
  \E k \in Keys :
    /\ Visit(r, k)
    /\ IF Dead(index[k], now)
       THEN UNCHANGED <<out, toRead>>
       ELSE /\ out' = [out EXCEPT ![r] = Append(@, [key |-> k, rec |-> index[k]])]
            /\ toRead' = [toRead EXCEPT ![r] = @ + 1]
    /\ lost' = [lost EXCEPT ![r] = LostByCollect(r, k)]

\* The value's volume cannot be read: Snapshot goes on without the key.
CollectUnread(r) ==
  \E k \in Keys :
    /\ Visit(r, k)
    /\ ~Dead(index[k], now)
    /\ lost' = [lost EXCEPT ![r] = @ \cup {k}]
    /\ UNCHANGED <<out, toRead>>

\* The snapshot and +READY are written, and one more line fits.
WireRoom(r) == Len(out[r]) - queued[r] < WireCap

Stream(r) ==
  /\ handler[r] = "stream" /\ link[r] /\ ch[r] # <<>> /\ WireRoom(r)
  /\ ch' = [ch EXCEPT ![r] = Tail(@)]
  /\ out' = [out EXCEPT ![r] = Append(@, Head(ch[r]))]
  /\ UNCHANGED <<now, primaryVars, handler, scanned, queued, toRead, link, replicaVars, client, lost>>

\* The connection is gone.  Writes of the snapshot fail unnoticed; in the
\* stream a failed write, or connClosed, ends the handler: Unregister.
HandlerExit(r) ==
  /\ Registered(r) /\ ~link[r]
  /\ handler' = [handler EXCEPT ![r] = "none"]
  /\ ch' = [ch EXCEPT ![r] = <<>>]
  /\ UNCHANGED <<now, primaryVars, scanned, wireVars, replicaVars, client, lost>>

-----------------------------------------------------------------------------
(* The replica process *)

\* ReplicaConn's reader thread puts the next line into the queue.
PyRead(r) ==
  /\ client[r] = "python" /\ handler[r] = "stream"
  /\ queued[r] < Len(out[r]) /\ queued[r] < QueueCap
  /\ queued' = [queued EXCEPT ![r] = @ + 1]
  /\ toRead' = [toRead EXCEPT ![r] = IF @ > 0 THEN @ - 1 ELSE 0]
  /\ UNCHANGED <<now, primaryVars, handlerVars, out, link, replicaVars, client, lost>>

\* Mutant of GotReady: the constructor also waits for the queue to be empty.
GotReadyDrained(r) ==
  /\ replica[r] = "dial" /\ link[r] /\ handler[r] = "stream" /\ toRead[r] = 0
  /\ queued[r] = 0
  /\ replica' = [replica EXCEPT ![r] = "live"]
  /\ UNCHANGED <<now, primaryVars, handlerVars, wireVars, db, dials, client, lost>>

\* DialReplica returns, or _ready is set: all lines before +READY are read.
GotReady(r) ==
  /\ replica[r] = "dial" /\ link[r] /\ handler[r] = "stream" /\ toRead[r] = 0
  /\ replica' = [replica EXCEPT ![r] = "live"]
  /\ UNCHANGED <<now, primaryVars, handlerVars, wireVars, db, dials, client, lost>>

\* A line the process may apply: the Go client reads the connection itself, up
\* to +READY while it dials; the Python user iterates once the constructor returned.
MayApply(r) ==
  IF client[r] = "python"
  THEN queued[r] > 0 /\ replica[r] = "live"
  ELSE /\ handler[r] = "stream" /\ out[r] # <<>>
       /\ replica[r] = "live" \/ (replica[r] = "dial" /\ toRead[r] > 0)

\* The head of out[r] is used up.
Consume(r) ==
  /\ out' = [out EXCEPT ![r] = Tail(@)]
  /\ IF client[r] = "python"
     THEN queued' = [queued EXCEPT ![r] = @ - 1] /\ UNCHANGED toRead
     ELSE toRead' = [toRead EXCEPT ![r] = IF @ > 0 THEN @ - 1 ELSE 0] /\ UNCHANGED queued

\* Mutant of Apply: a DELETE is not applied.
ApplySetsOnly(r) ==
  LET l == Head(out[r]) IN
  /\ MayApply(r)
  /\ Consume(r)
  /\ db' = IF l.rec = NoRec THEN db ELSE [db EXCEPT ![r][l.key] = l.rec]
  /\ UNCHANGED <<now, primaryVars, handlerVars, link, replica, dials, client, lost>>

\* ApplyReplicationEntry, or the Python user's update of its own copy.
Apply(r) ==
  LET l == Head(out[r]) IN
  /\ MayApply(r)
  /\ Consume(r)
  /\ db' = [db EXCEPT ![r][l.key] = l.rec]
  /\ UNCHANGED <<now, primaryVars, handlerVars, link, replica, dials, client, lost>>

\* The connection ends on the replica's side; what was on its way is gone.
\* (What a Python user still takes from the queue then is not followed.)
Cut(r, phase) ==
  /\ replica' = [replica EXCEPT ![r] = phase]
  /\ link' = [link EXCEPT ![r] = FALSE]
  /\ out' = [out EXCEPT ![r] = <<>>]
  /\ queued' = [queued EXCEPT ![r] = 0]
  /\ toRead' = [toRead EXCEPT ![r] = 0]
  /\ scanned' = [scanned EXCEPT ![r] = {}]
  /\ lost' = [lost EXCEPT ![r] = {}]
  /\ UNCHANGED <<now, primaryVars, handler, ch, dials, client>>

\* ApplyReplicationEntry fails while DialReplica runs: the process exits.
DialFails(r) ==
  /\ client[r] = "go" /\ replica[r] = "dial" /\ MayApply(r)
  /\ Cut(r, "off")
  /\ UNCHANGED db

\* It fails later: Stream returns, but the process keeps the connection open
\* and goes on serving what it has.
ApplyFails(r) ==
  /\ client[r] = "go" /\ replica[r] = "live" /\ MayApply(r)
  /\ Consume(r)
  /\ replica' = [replica EXCEPT ![r] = "stalled"]
  /\ lost' = [lost EXCEPT ![r] = @ \cup {Head(out[r]).key}]
  /\ UNCHANGED <<now, primaryVars, handlerVars, link, db, dials, client>>

\* The index's write fails, an error applyEntry ignores.
ApplyIgnored(r) ==
  /\ client[r] = "go" /\ MayApply(r)
  /\ Consume(r)
  /\ lost' = [lost EXCEPT ![r] = @ \cup {Head(out[r]).key}]
  /\ UNCHANGED <<now, primaryVars, handlerVars, link, replicaVars, client>>

\* The replica's own sweep.
ReplicaEvict(r) ==
  /\ replica[r] # "off"
  /\ db[r] # Swept(db[r])
  /\ db' = [db EXCEPT ![r] = Swept(@)]
  /\ UNCHANGED <<now, primaryVars, handlerVars, wireVars, replica, dials, client, lost>>

\* The connection breaks: DialReplica fails, Stream or the iteration ends.
\* Neither client connects again by itself.
Break(r) ==
  /\ link[r]
  /\ Cut(r, IF replica[r] = "dial" THEN "off" ELSE "stalled")
  /\ UNCHANGED db

\* The replica process is stopped, or ReplicaConn closed.  The Go replica's
\* store is on disk; a new ReplicaConn starts with nothing.
Stop(r) ==
  /\ replica[r] \in {"live", "stalled"}
  /\ Cut(r, "off")
  /\ db' = IF client[r] = "python" THEN [db EXCEPT ![r] = [k \in Keys |-> NoRec]] ELSE db

-----------------------------------------------------------------------------
SessionStep(s) == CommitStep(s) \/ Send(s)

HandlerStep(r) == Collect(r) \/ Stream(r) \/ HandlerExit(r)

ClientStep(r) == PyRead(r) \/ GotReady(r) \/ Apply(r)

Environment ==
  \/ \E s \in Sessions : Write(s) \/ Delete(s) \/ Commit(s) \/ EndUnsent(s)
  \/ \E k \in Keys : Persist(k)
  \/ Evict \/ Tick
  \/ \E r \in Replicas :
       \/ Dial(r) \/ CollectUnread(r) \/ DialFails(r) \/ ApplyFails(r)
       \/ ApplyIgnored(r) \/ ReplicaEvict(r) \/ Break(r) \/ Stop(r)

Next ==
  \/ \E s \in Sessions : SessionStep(s)
  \/ \E r \in Replicas : HandlerStep(r) \/ ClientStep(r)
  \/ Environment

Spec == Init /\ [][Next]_vars

-----------------------------------------------------------------------------
(* Properties *)

OpType == [pc : {"idle", "index", "send"}, todo : Seq(Line), sent : Seq(Line)]

\* Every variable has its type, and what ReplicaConn has queued is part of
\* what it was sent.
TypeOK ==
  /\ now \in Nat /\ nops \in Nat
  /\ index \in [Keys -> Rec]
  /\ op \in [Sessions -> OpType]
  /\ handler \in [Replicas -> {"none", "collect", "stream"}]
  /\ scanned \in [Replicas -> SUBSET Keys]
  /\ ch \in [Replicas -> Seq(Line)]
  /\ out \in [Replicas -> Seq(Line)]
  /\ queued \in [Replicas -> Nat]
  /\ toRead \in [Replicas -> Nat]
  /\ link \in [Replicas -> BOOLEAN]
  /\ replica \in [Replicas -> {"off", "dial", "live", "stalled"}]
  /\ db \in [Replicas -> [Keys -> Rec]]
  /\ client \in [Replicas -> {"go", "python"}]
  /\ dials \in [Replicas -> Nat]
  /\ owner \in [Keys -> Sessions \cup {NoOne}]
  /\ lost \in [Replicas -> SUBSET Keys]
  /\ \A r \in Replicas : queued[r] <= Len(out[r]) /\ (client[r] = "go" => queued[r] = 0)

\* The session whose change index[k] is has still to fan it out.
Pending(k) ==
  \E s \in Sessions : owner[k] = s /\ \E i \in DOMAIN op[s].sent :
    op[s].sent[i].key = k /\ Same(op[s].sent[i].rec, index[k], now)

\* The last that r has been told, or will be told by what is on its way, about k
\* is what the primary has.
LastWord(r, k) ==
  \/ Says(ch[r], k, index[k], now)
  \/ ~Mentions(ch[r], k) /\ Says(out[r], k, index[k], now)
  \/ ~Mentions(ch[r], k) /\ ~Mentions(out[r], k) /\ Same(db[r][k], index[k], now)

\* Snapshot and stream overlap without a gap (handleReplicate registers the
\* channel before it takes the snapshot): for every key the snapshot has
\* passed, a connected replica has, or has on its way as the last word, the
\* primary's value, or the session that wrote it has still to fan it out; except for
\* the keys it was never told of because of a full channel, a failed log
\* write, a failed read, an operation that does not fan out, or two sessions
\* that changed a key in one order and fanned out in the other, and for those
\* whose change its own index failed to take.
ReplicaTracks ==
  \A r \in Replicas : link[r] =>
    \A k \in scanned[r] \ lost[r] : Pending(k) \/ LastWord(r, k)

\* What makes ReplicaTracks inductive: an operation has work left while it is indexing;
\* a connected replica is registered and an unconnected one has nothing on its way;
\* while the snapshot is taken only visited keys are in it; the owner of a
\* key has still to fan out what the index holds; and for a key not yet visited the channel,
\* if it mentions the key, ends with the primary's value.
OpShape == \A s \in Sessions : op[s].pc = "index" => op[s].todo # <<>>

LinkShape ==
  \A r \in Replicas :
    /\ link[r] => handler[r] # "none"
    /\ ~link[r] => scanned[r] = {} /\ out[r] = <<>> /\ lost[r] = {}
    /\ handler[r] = "none" => ch[r] = <<>>
    /\ handler[r] = "collect" => \A i \in DOMAIN out[r] : out[r][i].key \in scanned[r]
    /\ handler[r] = "stream" /\ link[r] => scanned[r] = Keys

OwnerPends == \A k \in Keys : owner[k] # NoOne => Pending(k)

Known(r, k) ==
  \/ Pending(k)
  \/ Says(ch[r], k, index[k], now)
  \/ /\ ~Mentions(ch[r], k)
     /\ k \in scanned[r] => \/ Says(out[r], k, index[k], now)
                            \/ ~Mentions(out[r], k) /\ Same(db[r][k], index[k], now)

AllKnown == \A r \in Replicas : link[r] => \A k \in Keys \ lost[r] : Known(r, k)

IInv == TypeOK /\ OpShape /\ LinkShape /\ OwnerPends /\ AllKnown

\* When all sessions are idle and nothing is on its way, a streaming replica's copy is
\* the primary's store, apart from the keys it was not told of or failed to write.
QuietInSync ==
  \A r \in Replicas :
    /\ handler[r] = "stream" /\ link[r]
    /\ \A s \in Sessions : op[s] = IdleOp
    /\ ch[r] = <<>> /\ out[r] = <<>>
    => \A k \in Keys \ lost[r] : Same(db[r][k], index[k], now)

\* Something is on its way to r, or r is dialling, and the connection is up.
Busy(r) ==
  link[r] /\ \/ replica[r] = "dial"
             \/ replica[r] = "live" /\ (ch[r] # <<>> \/ out[r] # <<>>)

\* The Python constructor waits for +READY while nobody takes from its queue.
QueueFull(r) == client[r] = "python" /\ queued[r] = QueueCap

\* The guards of Collect, Stream, PyRead, GotReady and Apply: the handler has a key to
\* visit or a line to write, or the client has one to read or to apply.
CanStep(r) ==
  \/ handler[r] = "collect" /\ link[r] /\ scanned[r] # Keys
  \/ handler[r] = "stream" /\ link[r] /\ ch[r] # <<>> /\ WireRoom(r)
  \/ /\ client[r] = "python" /\ handler[r] = "stream"
     /\ queued[r] < Len(out[r]) /\ queued[r] < QueueCap
  \/ replica[r] = "dial" /\ link[r] /\ handler[r] = "stream" /\ toRead[r] = 0
  \/ MayApply(r)

\* Handler and client never wait for each other: a replica that is dialling, or
\* has lines to come, is always brought further by a step of the handler or of
\* its own threads, whose guards are all that they wait for; except ReplicaConn's
\* constructor, which waits for +READY while nobody takes from its queue, when the
\* snapshot is larger than the queue.
NeverStuck ==
  \A r \in Replicas :
    /\ Busy(r) => \/ ENABLED (HandlerStep(r) \/ ClientStep(r))
                  \/ replica[r] = "dial" /\ QueueFull(r) /\ toRead[r] > 0
    /\ CanStep(r) => ENABLED (HandlerStep(r) \/ ClientStep(r))

\* NeverStuck by the guards alone.
SomeoneMoves ==
  \A r \in Replicas :
    Busy(r) => CanStep(r) \/ (replica[r] = "dial" /\ QueueFull(r) /\ toRead[r] > 0)

\* What SomeoneMoves rests on: the lines before +READY that are not read are on the
\* connection, the queue keeps its capacity, and a snapshot in progress has keys to visit.
WaitShape ==
  \A r \in Replicas :
    /\ toRead[r] + queued[r] <= Len(out[r]) /\ queued[r] <= QueueCap
    /\ handler[r] = "collect" /\ link[r] => scanned[r] # Keys
=============================================================================
