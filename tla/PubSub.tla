------------------------------- MODULE PubSub -------------------------------
(***************************************************************************)
(* Pub/sub: the registry of subscribers (brisedb/pubsub.go), a connection's *)
(* handler with its forwarder goroutine (handleConn in server.go), and the  *)
(* subscriber's client PubSubConn, in Go (client/pubsub.go) and in Python.  *)
(*                                                                          *)
(* A connection has two writers, the handler answering requests and the     *)
(* forwarder pushing messages; both block when the wire is full.  Messages  *)
(* pass msgCh, the forwarder, the wire and the client's queue.              *)
(***************************************************************************)
EXTENDS Naturals, Sequences, FiniteSets

CONSTANTS
  Conns,        \* subscribers' connections
  Publishers,   \* connections that only publish
  Channels,
  None,         \* no line; not a line
  Kinds,        \* the kinds of client in play: subset of {"go", "python"}
  ChanCap,      \* capacity of msgCh (256 in the code)
  WireCap,      \* lines a connection's buffers hold
  QueueCap,     \* capacity of the client's queue (256 in both clients)
  MaxRequests,  \* bound: requests a client sends
  MaxPublishes  \* bound: messages a publisher publishes

\* The lines to a subscriber: messages, and confirmations with the number of
\* channels that the connection is subscribed to.
MessageLine == [kind : {"message"}, pub : Publishers, ch : Channels, n : Nat]
ConfirmLine == [kind : {"subscribe", "unsubscribe"}, ch : Channels,
                count : {Cardinality(chs) : chs \in SUBSET Channels}]
Line == MessageLine \cup ConfirmLine

ASSUME PubSubConstants ==
  /\ Kinds \subseteq {"go", "python"}
  /\ {ChanCap, WireCap, QueueCap, MaxRequests, MaxPublishes} \subseteq Nat
  /\ None \notin Line

VARIABLES
  conn,         \* handleConn: "none" | "open" | "closed"
  subs,         \* the registry: channel -> subscribed connections
  subChannels,  \* each handler's own record of its subscriptions
  todo,         \* the rest of the request a handler works on
  reply,        \* the line it is about to write, or None
  msgCh, fwd,   \* the forwarder's channel, and the line it is about to write
  wire, reqs,   \* lines to the client, requests to the server
  link,         \* is the socket connected?
  client,       \* PubSubConn: "none" | "open" | "closed" | "ended"
  queue,
  pub,          \* what each publisher's handler is doing
  kind,         \* "go" | "python"; never changes
  nreq,
  confirmed,    \* history: the subscriptions confirmed to the user
  last,         \* history: number of the last message the user got, per publisher
  owed          \* history: messages counted as received and not yet given to the user

handlerVars == <<conn, subs, subChannels, todo, reply>>
clientVars == <<client, queue, reqs, nreq, confirmed, last>>
vars == <<handlerVars, msgCh, fwd, wire, link, clientVars, pub, kind, owed>>

NoTask == [kind |-> "none", chs |-> {}]
IdlePub == [pc |-> "idle", ch |-> None, targets |-> {}, n |-> 0]

Message(p, ch, n) == [kind |-> "message", pub |-> p, ch |-> ch, n |-> n]

Confirm(k, ch, n) == [kind |-> k, ch |-> ch, count |-> n]

Init ==
  /\ conn = [c \in Conns |-> "none"]
  /\ subs = [ch \in Channels |-> {}]
  /\ subChannels = [c \in Conns |-> {}]
  /\ todo = [c \in Conns |-> NoTask]
  /\ reply = [c \in Conns |-> None]
  /\ msgCh = [c \in Conns |-> <<>>]
  /\ fwd = [c \in Conns |-> None]
  /\ wire = [c \in Conns |-> <<>>]
  /\ reqs = [c \in Conns |-> <<>>]
  /\ link = [c \in Conns |-> FALSE]
  /\ client = [c \in Conns |-> "none"]
  /\ queue = [c \in Conns |-> <<>>]
  /\ pub = [p \in Publishers |-> IdlePub]
  /\ kind \in [Conns -> Kinds]
  /\ nreq = [c \in Conns |-> 0]
  /\ confirmed = [c \in Conns |-> {}]
  /\ last = [c \in Conns |-> [p \in Publishers |-> 0]]
  /\ owed = [c \in Conns |-> {}]

(* handleConn *)

\* DialPubSub connects, and the server starts the connection's goroutines.
Dial(c) ==
  /\ client[c] = "none"
  /\ client' = [client EXCEPT ![c] = "open"]
  /\ link' = [link EXCEPT ![c] = TRUE]
  /\ conn' = [conn EXCEPT ![c] = "open"]
  /\ UNCHANGED <<subs, subChannels, todo, reply, msgCh, fwd, wire, queue, reqs, nreq,
                 confirmed, last, pub, kind, owed>>

\* The scanner returns the next request.  UNSUBSCRIBE without channels means all.
ReadRequest(c) ==
  LET req == Head(reqs[c]) IN
  /\ conn[c] = "open" /\ todo[c] = NoTask /\ reply[c] = None /\ reqs[c] # <<>>
  /\ reqs' = [reqs EXCEPT ![c] = Tail(@)]
  /\ todo' = [todo EXCEPT ![c] = IF req = [kind |-> "unsubscribe", chs |-> {}]
                                 THEN [req EXCEPT !.chs = subChannels[c]] ELSE req]
  /\ UNCHANGED <<conn, subs, subChannels, reply, msgCh, fwd, wire, link,
                 client, queue, nreq, confirmed, last, pub, kind, owed>>

\* Mutant of Register: an unsubscribe forgets the handler's record only.
RegisterOnly(c, k, ch) ==
  /\ subs' = IF k = "subscribe" THEN [subs EXCEPT ![ch] = @ \cup {c}] ELSE subs
  /\ subChannels' = [subChannels EXCEPT ![c] = IF k = "subscribe" THEN @ \cup {ch} ELSE @ \ {ch}]

\* PubSub.Subscribe or Unsubscribe, if subChannels says it is needed, and subChannels.
Register(c, k, ch) ==
  IF k = "subscribe"
  THEN /\ subs' = IF ch \in subChannels[c] THEN subs ELSE [subs EXCEPT ![ch] = @ \cup {c}]
       /\ subChannels' = [subChannels EXCEPT ![c] = @ \cup {ch}]
  ELSE /\ subs' = IF ch \in subChannels[c] THEN [subs EXCEPT ![ch] = @ \ {c}] ELSE subs
       /\ subChannels' = [subChannels EXCEPT ![c] = @ \ {ch}]

\* One channel of a SUBSCRIBE or UNSUBSCRIBE; the user may name them in any order.
HandleChannel(c) ==
  \E ch \in todo[c].chs :
    /\ reply[c] = None
    /\ Register(c, todo[c].kind, ch)
    /\ reply' = [reply EXCEPT ![c] = Confirm(todo[c].kind, ch, Cardinality(subChannels'[c]))]
    /\ todo' = [todo EXCEPT ![c] = IF @.chs = {ch} THEN NoTask ELSE [todo[c] EXCEPT !.chs = @ \ {ch}]]
    /\ UNCHANGED <<conn, msgCh, fwd, wire, link, clientVars, pub, kind, owed>>

\* UNSUBSCRIBE of nothing answers nothing.
HandleNothing(c) ==
  /\ todo[c] # NoTask /\ todo[c].chs = {}
  /\ todo' = [todo EXCEPT ![c] = NoTask]
  /\ UNCHANGED <<conn, subs, subChannels, reply, msgCh, fwd, wire, link, clientVars, pub, kind, owed>>

\* A line can be written, or the write fails.
Writable(c) == ~link[c] \/ Len(wire[c]) < WireCap

WireAfter(c, line) == [wire EXCEPT ![c] = IF link[c] THEN Append(@, line) ELSE <<>>]

Respond(c) ==
  /\ reply[c] # None /\ Writable(c)
  /\ wire' = WireAfter(c, reply[c])
  /\ reply' = [reply EXCEPT ![c] = None]
  /\ UNCHANGED <<conn, subs, subChannels, todo, msgCh, fwd, link, clientVars, pub, kind, owed>>

\* The scanner ends, requests in the socket's buffer or not: UnsubscribeAll,
\* close(done), wg.Done.
HandlerEnds(c) ==
  /\ conn[c] = "open" /\ ~link[c] /\ todo[c] = NoTask /\ reply[c] = None
  /\ conn' = [conn EXCEPT ![c] = "closed"]
  /\ subs' = [ch \in Channels |-> subs[ch] \ {c}]
  /\ subChannels' = [subChannels EXCEPT ![c] = {}]
  /\ reqs' = [reqs EXCEPT ![c] = <<>>]
  /\ UNCHANGED <<todo, reply, msgCh, fwd, wire, link, client, queue, nreq, confirmed, last, pub, kind, owed>>

\* Mutant of Forward: a message that cannot be written at once is dropped.
ForwardOrDrop(c) ==
  /\ conn[c] = "open" /\ fwd[c] = None /\ msgCh[c] # <<>>
  /\ fwd' = [fwd EXCEPT ![c] = IF Writable(c) THEN Head(msgCh[c]) ELSE None]
  /\ msgCh' = [msgCh EXCEPT ![c] = Tail(@)]
  /\ UNCHANGED <<handlerVars, wire, link, clientVars, pub, kind, owed>>

\* The forwarder takes a message.  (What it takes once done is closed goes nowhere.)
Forward(c) ==
  /\ conn[c] = "open" /\ fwd[c] = None /\ msgCh[c] # <<>>
  /\ fwd' = [fwd EXCEPT ![c] = Head(msgCh[c])]
  /\ msgCh' = [msgCh EXCEPT ![c] = Tail(@)]
  /\ UNCHANGED <<handlerVars, wire, link, clientVars, pub, kind, owed>>

\* Mutant of ForwardWrite: the message is kept and written again.
ForwardWriteAgain(c) ==
  /\ fwd[c] # None /\ Writable(c)
  /\ wire' = WireAfter(c, fwd[c])
  /\ UNCHANGED <<handlerVars, msgCh, fwd, link, clientVars, pub, kind, owed>>

ForwardWrite(c) ==
  /\ fwd[c] # None /\ Writable(c)
  /\ wire' = WireAfter(c, fwd[c])
  /\ fwd' = [fwd EXCEPT ![c] = None]
  /\ UNCHANGED <<handlerVars, msgCh, link, clientVars, pub, kind, owed>>

-----------------------------------------------------------------------------
(* PubSub.Publish, in a publisher's handler *)

\* The subscribers are collected under the read lock.
PublishStart(p) ==
  \E ch \in Channels :
    /\ pub[p].pc = "idle" /\ pub[p].n < MaxPublishes
    /\ pub' = [pub EXCEPT ![p] = [pc |-> "send", ch |-> ch, targets |-> subs[ch], n |-> @.n + 1]]
    /\ UNCHANGED <<handlerVars, msgCh, fwd, wire, link, clientVars, kind, owed>>

\* Mutant of PublishSend: the send waits for room.
PublishBlocking(p) ==
  \E c \in pub[p].targets :
    LET m == Message(p, pub[p].ch, pub[p].n) IN
    /\ Len(msgCh[c]) < ChanCap
    /\ pub' = [pub EXCEPT ![p].targets = @ \ {c}]
    /\ msgCh' = [msgCh EXCEPT ![c] = Append(@, m)]
    /\ owed' = [owed EXCEPT ![c] = @ \cup {m}]
    /\ UNCHANGED <<handlerVars, fwd, wire, link, clientVars, kind>>

\* After the lock is released: a send that does not wait, counted if it is taken.
PublishSend(p) ==
  \E c \in pub[p].targets :
    LET m == Message(p, pub[p].ch, pub[p].n) IN
    /\ pub' = [pub EXCEPT ![p].targets = @ \ {c}]
    /\ IF Len(msgCh[c]) < ChanCap
       THEN /\ msgCh' = [msgCh EXCEPT ![c] = Append(@, m)]
            /\ owed' = [owed EXCEPT ![c] = IF client[c] = "open" /\ link[c] THEN @ \cup {m} ELSE @]
       ELSE UNCHANGED <<msgCh, owed>>
    /\ UNCHANGED <<handlerVars, fwd, wire, link, clientVars, kind>>

PublishReturns(p) ==
  /\ pub[p].pc = "send" /\ pub[p].targets = {}
  /\ pub' = [pub EXCEPT ![p] = [IdlePub EXCEPT !.n = pub[p].n]]
  /\ UNCHANGED <<handlerVars, msgCh, fwd, wire, link, clientVars, kind, owed>>

-----------------------------------------------------------------------------
(* PubSubConn *)

\* Subscribe and Unsubscribe write the request; no channels: all.
Request(c) ==
  \E k \in {"subscribe", "unsubscribe"}, chs \in SUBSET Channels :
    /\ client[c] = "open" /\ link[c] /\ nreq[c] < MaxRequests
    /\ k = "subscribe" => chs # {}
    /\ reqs' = [reqs EXCEPT ![c] = Append(@, [kind |-> k, chs |-> chs])]
    /\ nreq' = [nreq EXCEPT ![c] = @ + 1]
    /\ UNCHANGED <<handlerVars, msgCh, fwd, wire, link, client, queue, confirmed,
                   last, pub, kind, owed>>

\* readLoop hands the next line to the queue; a full queue stops it.
ReadLine(c) ==
  /\ client[c] \in {"open", "closed"} /\ wire[c] # <<>> /\ Len(queue[c]) < QueueCap
  /\ queue' = [queue EXCEPT ![c] = Append(@, Head(wire[c]))]
  /\ wire' = [wire EXCEPT ![c] = Tail(@)]
  /\ UNCHANGED <<handlerVars, msgCh, fwd, link, client, reqs, nreq, confirmed, last,
                 pub, kind, owed>>

\* The user takes the next event.
Receive(c) ==
  LET line == Head(queue[c]) IN
  /\ client[c] = "open" /\ queue[c] # <<>>
  /\ queue' = [queue EXCEPT ![c] = Tail(@)]
  /\ IF line.kind = "message"
     THEN /\ last' = [last EXCEPT ![c][line.pub] = line.n]
          /\ owed' = [owed EXCEPT ![c] = @ \ {line}]
          /\ UNCHANGED confirmed
     ELSE /\ confirmed' = [confirmed EXCEPT ![c] = IF line.kind = "subscribe"
                                                   THEN @ \cup {line.ch} ELSE @ \ {line.ch}]
          /\ UNCHANGED <<last, owed>>
  /\ UNCHANGED <<handlerVars, msgCh, fwd, wire, link, client, reqs, nreq, pub, kind>>

\* Close.  The Go client closes the socket; the Python client's close() leaves it
\* connected, for its reader thread still holds the file made of it.  What
\* the user got is of no interest any more.
Close(c) ==
  /\ client[c] = "open"
  /\ client' = [client EXCEPT ![c] = "closed"]
  /\ IF kind[c] = "go"
     THEN /\ link' = [link EXCEPT ![c] = FALSE]
          /\ wire' = [wire EXCEPT ![c] = <<>>]
     ELSE UNCHANGED <<link, wire>>
  /\ confirmed' = [confirmed EXCEPT ![c] = {}]
  /\ last' = [last EXCEPT ![c] = [p \in Publishers |-> 0]]
  /\ owed' = [owed EXCEPT ![c] = {}]
  /\ UNCHANGED <<handlerVars, msgCh, fwd, queue, reqs, nreq, pub, kind>>

\* The network fails, or the server's process ends.  What is on its way is lost:
\* lines that are read all the same were read before.
Break(c) ==
  /\ link[c]
  /\ link' = [link EXCEPT ![c] = FALSE]
  /\ wire' = [wire EXCEPT ![c] = <<>>]
  /\ owed' = [owed EXCEPT ![c] = {}]
  /\ UNCHANGED <<handlerVars, msgCh, fwd, clientVars, pub, kind>>

\* The user has taken all that was read.  (After a close, the Python thread
\* need only get its sentinel into the queue.)
Taken(c) == queue[c] = <<>> \/ (client[c] = "closed" /\ Len(queue[c]) < QueueCap)

\* Mutant of ReadEnds: readLoop does not select on done, and stays in its send
\* when the queue is full.
ReadEndsUnlessFull(c) ==
  /\ client[c] \in {"open", "closed"} /\ ~link[c] /\ Taken(c)
  /\ client' = [client EXCEPT ![c] = "ended"]
  /\ queue' = [queue EXCEPT ![c] = <<>>]
  /\ UNCHANGED <<handlerVars, msgCh, fwd, wire, link, reqs, nreq, confirmed, last, pub, kind, owed>>

\* readLoop returns and Messages() ends: a read fails, or done is closed.
ReadEnds(c) ==
  /\ client[c] \in {"open", "closed"} /\ ~link[c]
  /\ (client[c] = "closed" /\ kind[c] = "go") \/ Taken(c)
  /\ client' = [client EXCEPT ![c] = "ended"]
  /\ queue' = [queue EXCEPT ![c] = <<>>]
  /\ UNCHANGED <<handlerVars, msgCh, fwd, wire, link, reqs, nreq, confirmed, last, pub, kind, owed>>

-----------------------------------------------------------------------------
HandlerStep(c) ==
  ReadRequest(c) \/ HandleChannel(c) \/ HandleNothing(c) \/ Respond(c) \/ HandlerEnds(c)

PublishStep(p) == PublishSend(p) \/ PublishReturns(p)

Next ==
  \/ \E c \in Conns :
       \/ Dial(c) \/ HandlerStep(c) \/ Forward(c) \/ ForwardWrite(c)
       \/ Request(c) \/ ReadLine(c) \/ Receive(c) \/ Close(c) \/ Break(c) \/ ReadEnds(c)
  \/ \E p \in Publishers : PublishStart(p) \/ PublishStep(p)

Spec == Init /\ [][Next]_vars

\* Goroutines that can run are run.  Nothing is assumed of users: they may
\* stop taking messages, and never close.
Fairness ==
  /\ \A c \in Conns : WF_vars(HandlerStep(c)) /\ WF_vars(ReadEnds(c))
  /\ \A p \in Publishers : WF_vars(PublishStep(p))

FairSpec == Spec /\ Fairness

-----------------------------------------------------------------------------
(* Properties *)

Asked == [kind : {"subscribe", "unsubscribe"}, chs : SUBSET Channels]

PubTask == [pc : {"idle"}, ch : {None}, targets : {{}}, n : Nat]
             \cup [pc : {"send"}, ch : Channels, targets : SUBSET Conns, n : Nat]

\* Every variable has its type: confirmations come from handlers and messages from
\* publishers, and only a publisher that sends has targets.
TypeOK ==
  /\ conn \in [Conns -> {"none", "open", "closed"}]
  /\ subs \in [Channels -> SUBSET Conns]
  /\ subChannels \in [Conns -> SUBSET Channels]
  /\ todo \in [Conns -> Asked \cup {NoTask}]
  /\ reply \in [Conns -> ConfirmLine \cup {None}]
  /\ msgCh \in [Conns -> Seq(MessageLine)]
  /\ fwd \in [Conns -> MessageLine \cup {None}]
  /\ wire \in [Conns -> Seq(Line)] /\ queue \in [Conns -> Seq(Line)]
  /\ reqs \in [Conns -> Seq(Asked)]
  /\ link \in [Conns -> BOOLEAN]
  /\ client \in [Conns -> {"none", "open", "closed", "ended"}]
  /\ pub \in [Publishers -> PubTask]
  /\ kind \in [Conns -> {"go", "python"}]
  /\ nreq \in [Conns -> Nat]
  /\ confirmed \in [Conns -> SUBSET Channels]
  /\ last \in [Conns -> [Publishers -> Nat]]
  /\ owed \in [Conns -> SUBSET MessageLine]

OneLine(line) == IF line = None THEN <<>> ELSE <<line>>

IsMessage(line) == line.kind = "message"

Elems(q) == {q[i] : i \in DOMAIN q}

\* The confirmations on their way to the user.
Confirmations(c) ==
  {l \in Elems(queue[c]) \cup Elems(wire[c]) \cup Elems(OneLine(reply[c])) : ~IsMessage(l)}

\* The lines on the way that messages take to the user, the oldest first.
Pushed(c) == queue[c] \o wire[c] \o OneLine(fwd[c]) \o msgCh[c]

\* Unless they are not two messages of one publisher, l was published before m.
Earlier(l, m) == IsMessage(l) /\ IsMessage(m) /\ l.pub = m.pub => l.n < m.n

Alive(c) == link[c] /\ conn[c] = "open" /\ client[c] = "open"

\* What the user has been told is what the registry has: once the answers about a
\* channel are read, the user's connection is subscribed to it if and only if the
\* last confirmation was a subscribe.
ConfirmedIsRegistered ==
  \A c \in Conns, ch \in Channels :
    Alive(c) /\ (\A l \in Confirmations(c) : l.ch # ch) => (ch \in confirmed[c] <=> c \in subs[ch])

\* The messages of one publisher reach a subscriber in the order published,
\* none twice, through the channel, the forwarder, the wire and the reader.
InOrder ==
  \A c \in Conns :
    LET q == Pushed(c) IN
    /\ \A l \in Elems(q) : IsMessage(l) => l.n > last[c][l.pub]
    /\ \A i, j \in DOMAIN q : i < j => Earlier(q[i], q[j])

\* A message that Publish counted as received is on its way to the user, or
\* was taken, as long as the connection lives.
CountedIsKept == \A c \in Conns : Alive(c) => owed[c] \subseteq Elems(Pushed(c))

\* Publish returns whatever its subscribers, their handlers and clients do or fail to do.
PublishEnds == \A p \in Publishers : pub[p].pc = "send" ~> pub[p].pc = "idle"

\* After Close of the Go client the handler returns, the connection is gone
\* from the registry and Messages() is closed, even when nobody reads and
\* every buffer is full.  A broken connection is gone from the registry as well.
CloseEnds ==
  \A c \in Conns :
    /\ client[c] = "closed" /\ kind[c] = "go" ~> client[c] = "ended"
    /\ client[c] # "none" /\ ~link[c] ~>
         conn[c] = "closed" /\ \A ch \in Channels : c \notin subs[ch]

\* "Yield PubSubMessage objects until the connection is closed": the Python
\* iteration ends after close() as well.
IterationEnds == \A c \in Conns : client[c] = "closed" ~> client[c] = "ended"
=============================================================================
