------------------------------- MODULE Calls --------------------------------
(***************************************************************************)
(* Clients calling the TCP server.  The server's life: Start, Shutdown and  *)
(* the main program of cmd/server (server.go, cmd/server/main.go).  A       *)
(* connection's handler answering requests with one line, or with a header  *)
(* and as many lines as it announces (KEYS and SCAN, handleConn).  The      *)
(* Client that several threads share (client/client.go, and its Python      *)
(* counterpart), and a walk through all keys by SCAN calls, whose cursor is *)
(* a position in the sorted list of the keys of that moment.                *)
(***************************************************************************)
EXTENDS Glob, Integers, FiniteSets, FiniteSetsExt, SequencesExt

CONSTANTS
  Conns,        \* connections, one Client each
  Threads,      \* threads that call
  Listers,      \* those of them that call Keys and Scan; the others call the rest
  ClientOf,     \* the Client each thread uses
  Name,         \* the keys in their sorted order, a sequence of names
  Patterns,     \* patterns asked for by Keys
  None,
  Kinds,        \* the kinds of client in play: subset of {"go", "python"}
  Counts,       \* page sizes asked for
  WireCap,      \* lines a connection's buffers hold
  MaxCalls,     \* bound: one-line calls of a thread
  MaxChanges    \* bound: changes of the key set, and listings cut

DefaultCount == 10

NKeys == Len(Name)
Keys == 1..NKeys

ASSUME CallsConstants ==
  /\ ClientOf \in [Threads -> Conns] /\ Listers \subseteq Threads
  /\ Kinds \subseteq {"go", "python"}
  /\ NKeys \in 1..DefaultCount /\ Patterns # {}
  /\ Counts \subseteq Int /\ {WireCap, MaxCalls, MaxChanges} \subseteq Nat

VARIABLES
  listening,    \* is the listener open?
  started,      \* has Start not returned?
  shut,         \* Shutdown: "no" | "waiting" | "returned"
  exited,       \* has the process ended?
  conn,         \* "none" | "queued" | "accepted" | "served" | "done"
  link,         \* is the socket connected?
  reqs, wire,   \* requests to the server, lines to the client
  job,          \* the listing a handler collects, or None
  out,          \* lines the handler has yet to write
  live,         \* the live keys
  lock,         \* holder of Client.mu
  call,         \* what each thread is doing
  walk,         \* history of each thread's walk
  kind,         \* "go" | "python"; never changes
  changes,
  late,         \* history: the connection Accept had returned when Shutdown returned
  mixed         \* history: has a thread read a line written for another call?

serverVars == <<listening, started, shut, exited, late>>
threadVars == <<lock, call, mixed>>
vars == <<serverVars, threadVars, conn, link, reqs, wire, job, out, live, walk, kind, changes>>

Idle == [pc |-> "idle", kind |-> "line", count |-> 0, cursor |-> 0, left |-> 0, n |-> 0,
         pattern |-> <<>>]
NoWalk == [stable |-> {}, ever |-> {}, got |-> {}, twice |-> 0, removed |-> 0, inserted |-> 0,
           cut |-> FALSE]

Init ==
  /\ listening = TRUE /\ started = TRUE /\ shut = "no" /\ exited = FALSE
  /\ conn = [c \in Conns |-> "none"]
  /\ link = [c \in Conns |-> FALSE]
  /\ reqs = [c \in Conns |-> <<>>]
  /\ wire = [c \in Conns |-> <<>>]
  /\ job = [c \in Conns |-> None]
  /\ out = [c \in Conns |-> <<>>]
  /\ live \in SUBSET Keys
  /\ lock = [c \in Conns |-> None]
  /\ call = [t \in Threads |-> Idle]
  /\ walk = [t \in Threads |-> NoWalk]
  /\ kind \in [Conns -> Kinds]
  /\ changes = 0 /\ late = {} /\ mixed = FALSE

-----------------------------------------------------------------------------
(* The server's life *)

\* Dial: the listener's backlog takes the connection.
Dial(c) ==
  /\ listening /\ ~exited /\ conn[c] = "none"
  /\ conn' = [conn EXCEPT ![c] = "queued"]
  /\ link' = [link EXCEPT ![c] = TRUE]
  /\ UNCHANGED <<serverVars, threadVars, reqs, wire, job, out, live, walk, kind, changes>>

Accepted == {c \in Conns : conn[c] = "accepted"}
Served == {c \in Conns : conn[c] = "served"}     \* what the wait group counts

Accept(c) ==
  /\ started /\ listening /\ Accepted = {} /\ conn[c] = "queued"
  /\ conn' = [conn EXCEPT ![c] = "accepted"]
  /\ UNCHANGED <<serverVars, threadVars, link, reqs, wire, job, out, live, walk, kind, changes>>

\* wg.Add(1) and the handler's goroutine.
Spawn(c) ==
  /\ conn[c] = "accepted" /\ ~exited
  /\ conn' = [conn EXCEPT ![c] = "served"]
  /\ UNCHANGED <<serverVars, threadVars, link, reqs, wire, job, out, live, walk, kind, changes>>

\* Accept fails, as it does on a closed listener and, say, for want of file
\* descriptors: Start returns.
StartReturns ==
  /\ started /\ Accepted = {}
  /\ started' = FALSE
  /\ UNCHANGED <<listening, shut, exited, late, threadVars, conn, link, reqs, wire, job, out,
                 live, walk, kind, changes>>

\* Connections break; lines on the way may still be read.
Break(cs) == link' = [c \in Conns |-> link[c] /\ c \notin cs]

\* Shutdown closes the listener, and with it the connections of the backlog.
Shutdown ==
  /\ listening /\ ~exited
  /\ listening' = FALSE /\ shut' = "waiting"
  /\ LET queued == {c \in Conns : conn[c] = "queued"} IN
     /\ conn' = [c \in Conns |-> IF c \in queued THEN "done" ELSE conn[c]]
     /\ Break(queued)
  /\ UNCHANGED <<started, exited, late, threadVars, reqs, wire, job, out, live, walk, kind, changes>>

\* Mutant of ShutdownReturns: Shutdown does not wait.
ShutdownAtOnce ==
  /\ shut = "waiting" /\ ~exited
  /\ shut' = "returned" /\ late' = Accepted
  /\ UNCHANGED <<listening, started, exited, threadVars, conn, link, reqs, wire, job, out,
                 live, walk, kind, changes>>

\* wg.Wait is over.
ShutdownReturns ==
  /\ shut = "waiting" /\ ~exited /\ Served = {}
  /\ shut' = "returned" /\ late' = Accepted
  /\ UNCHANGED <<listening, started, exited, threadVars, conn, link, reqs, wire, job, out,
                 live, walk, kind, changes>>

\* cmd/server: once Start has returned, the database is compacted and closed
\* and the process ends, the handlers with it.
Exit ==
  /\ ~started /\ ~exited
  /\ exited' = TRUE
  /\ conn' = [c \in Conns |-> IF conn[c] = "none" THEN "none" ELSE "done"]
  /\ Break(Conns)
  /\ job' = [c \in Conns |-> None]
  /\ out' = [c \in Conns |-> <<>>]
  /\ reqs' = [c \in Conns |-> <<>>]
  /\ UNCHANGED <<listening, started, shut, late, threadVars, wire, live, walk, kind, changes>>

-----------------------------------------------------------------------------
(* The handler *)

Header(r, next, n) == [to |-> <<r.thread, r.n>>, kind |-> "header", next |-> next, val |-> n]
Item(r, k) == [to |-> <<r.thread, r.n>>, kind |-> "item", next |-> 0, val |-> k]

\* Mutant of Page: the next cursor is one too far.
PageAfter(all, cursor, count) ==
  LET end == cursor + count IN
  CASE cursor >= Len(all) -> [next |-> 0, keys |-> <<>>]
    [] cursor < Len(all) /\ end >= Len(all) -> [next |-> 0, keys |-> SubSeq(all, cursor + 1, Len(all))]
    [] OTHER -> [next |-> end + 1, keys |-> SubSeq(all, cursor + 1, end)]

\* Session.Scan of the sorted keys.
Page(all, cursor, count) ==
  LET end == cursor + count IN
  CASE cursor >= Len(all) -> [next |-> 0, keys |-> <<>>]
    [] cursor < Len(all) /\ end >= Len(all) -> [next |-> 0, keys |-> SubSeq(all, cursor + 1, Len(all))]
    [] OTHER -> [next |-> end, keys |-> SubSeq(all, cursor + 1, end)]

\* A count that is not positive, or not a number, is the default.
PageSize(count) == IF count > 0 THEN count ELSE DefaultCount

Sorted(S) == SetToSortSeq(S, <)

\* What a request lists: Session.Keys with its pattern, or Session.Scan.
Listed(r, keys) ==
  IF r.kind = "keys"
  THEN [next |-> 0, keys |-> Sorted({k \in keys : matchGlob(r.pattern, Name[k])})]
  ELSE Page(Sorted(keys), r.cursor, PageSize(r.count))

\* Mutant of Answer: the header counts one line more than the handler writes.
AnswerShort(r, keys) ==
  LET page == Listed(r, keys)
  IN <<Header(r, page.next, Len(page.keys) + 1)>>
       \o [i \in DOMAIN page.keys |-> Item(r, page.keys[i])]

\* The lines that answer KEYS or SCAN, given the keys collected.
Answer(r, keys) ==
  LET page == Listed(r, keys)
  IN <<Header(r, page.next, Len(page.keys))>>
       \o [i \in DOMAIN page.keys |-> Item(r, page.keys[i])]

\* The scanner returns a request.  A one-line command is answered (what it
\* does to keys is among the Changes); KEYS and SCAN start ForEach.
ReadRequest(c) ==
  LET r == Head(reqs[c]) IN
  /\ conn[c] = "served" /\ job[c] = None /\ out[c] = <<>> /\ reqs[c] # <<>>
  /\ reqs' = [reqs EXCEPT ![c] = Tail(@)]
  /\ IF r.kind = "line"
     THEN /\ out' = [out EXCEPT ![c] = <<Item(r, 0)>>]
          /\ UNCHANGED job
     ELSE /\ job' = [job EXCEPT ![c] = [r |-> r, stay |-> live, maybe |-> live, cut |-> FALSE]]
          /\ UNCHANGED out
  /\ UNCHANGED <<serverVars, threadVars, conn, link, wire, live, walk, kind, changes>>

\* Compact closes and replaces the index file under the listings that run, or
\* they come by half an entry (HashIndex, ScanFails and ScanAstray).
Cut ==
  /\ changes < MaxChanges /\ ~exited /\ \E c \in Conns : job[c] # None
  /\ changes' = changes + 1
  /\ job' = [c \in Conns |-> IF job[c] = None THEN None ELSE [job[c] EXCEPT !.cut = TRUE]]
  /\ walk' = [t \in Threads |->
               IF \E c \in Conns : job[c] # None /\ job[c].r.thread = t
               THEN [walk[t] EXCEPT !.cut = TRUE] ELSE walk[t]]
  /\ UNCHANGED <<serverVars, threadVars, conn, link, reqs, wire, out, live, kind>>

\* What ForEach may have passed on when it returns.  A key live throughout was
\* visited, a key live for a part of it perhaps (HashIndex, ScanRegular).  One
\* that was cut passed on anything, nothing included.
Collected(j) ==
  IF j.cut THEN SUBSET Keys
  ELSE {j.stay \cup extra : extra \in SUBSET (j.maybe \ j.stay)}

\* ForEach ends; an error of its is ignored.
CollectEnds(c) ==
  /\ job[c] # None
  /\ \E keys \in Collected(job[c]) : out' = [out EXCEPT ![c] = Answer(job[c].r, keys)]
  /\ job' = [job EXCEPT ![c] = None]
  /\ UNCHANGED <<serverVars, threadVars, conn, link, reqs, wire, live, walk, kind, changes>>

\* Mutant of WriteLine: a write to a broken connection does not fail.
WriteLineWaits(c) ==
  /\ out[c] # <<>> /\ link[c] /\ Len(wire[c]) < WireCap
  /\ wire' = [wire EXCEPT ![c] = Append(@, Head(out[c]))]
  /\ out' = [out EXCEPT ![c] = Tail(@)]
  /\ UNCHANGED <<serverVars, threadVars, conn, link, reqs, job, live, walk, kind, changes>>

\* respond writes a line; on a broken connection the error is ignored.
WriteLine(c) ==
  /\ out[c] # <<>> /\ (link[c] => Len(wire[c]) < WireCap)
  /\ wire' = IF link[c] THEN [wire EXCEPT ![c] = Append(@, Head(out[c]))] ELSE wire
  /\ out' = [out EXCEPT ![c] = Tail(@)]
  /\ UNCHANGED <<serverVars, threadVars, conn, link, reqs, job, live, walk, kind, changes>>

\* The scanner fails, on a broken connection or on a request that is too long
\* for it; the handler closes the connection and returns: wg.Done.
HandlerEnds(c) ==
  /\ conn[c] = "served" /\ job[c] = None /\ out[c] = <<>>
  /\ ~link[c] \/ (reqs[c] # <<>> /\ Head(reqs[c]).kind = "line")
  /\ conn' = [conn EXCEPT ![c] = "done"]
  /\ Break({c})
  /\ reqs' = [reqs EXCEPT ![c] = <<>>]
  /\ UNCHANGED <<serverVars, threadVars, wire, job, out, live, walk, kind, changes>>

Listing(t) == call[t].kind # "line" /\ call[t].pc \in {"first", "items", "page"}

\* Some session's write, or an expiry, adds or removes a key.  (Changes outside
\* of walks only lead to another of the initial sets of keys.)
Change(k) ==
  LET added == k \notin live IN
  /\ changes < MaxChanges /\ ~exited /\ \E t \in Threads : Listing(t)
  /\ changes' = changes + 1
  /\ live' = IF added THEN live \cup {k} ELSE live \ {k}
  /\ job' = [c \in Conns |->
              IF job[c] = None THEN None
              ELSE IF added THEN [job[c] EXCEPT !.maybe = @ \cup {k}]
              ELSE [job[c] EXCEPT !.stay = @ \ {k}]]
  /\ walk' = [t \in Threads |->
               IF ~Listing(t) THEN walk[t]
               ELSE IF added THEN [walk[t] EXCEPT !.ever = @ \cup {k}, !.inserted = @ + 1]
               ELSE [walk[t] EXCEPT !.stable = @ \ {k}, !.removed = @ + 1]]
  /\ UNCHANGED <<serverVars, threadVars, conn, link, reqs, wire, out, kind>>

-----------------------------------------------------------------------------
(* Client *)

Reading(t) == call[t].pc \in {"first", "items"}

\* A call takes the lock and writes its request.
Send(t, c, next) ==
  /\ lock[c] = None /\ link[c]
  /\ lock' = [lock EXCEPT ![c] = t]
  /\ call' = [call EXCEPT ![t] = [next EXCEPT !.pc = "first"]]
  /\ reqs' = [reqs EXCEPT ![c] = Append(@, [thread |-> t, n |-> next.n, kind |-> next.kind,
                                            cursor |-> next.cursor, count |-> next.count,
                                            pattern |-> next.pattern])]
  /\ UNCHANGED <<serverVars, mixed, conn, link, wire, job, out, live, kind, changes>>

\* Set, Get, Delete, Begin, Commit ...: one line is the answer.
CallLine(t) ==
  /\ t \notin Listers /\ call[t].pc = "idle" /\ call[t].n < MaxCalls
  /\ Send(t, ClientOf[t], [call[t] EXCEPT !.n = @ + 1])
  /\ UNCHANGED walk

\* Keys, or the first Scan of a walk.
CallList(t) ==
  LET keys == {[call[t] EXCEPT !.kind = "keys", !.pattern = p] : p \in Patterns}
      scans == {[call[t] EXCEPT !.kind = "scan", !.count = n] : n \in Counts}
  IN \E c \in keys \cup scans :
       /\ t \in Listers /\ call[t].pc = "idle"
       /\ Send(t, ClientOf[t], [c EXCEPT !.n = @ + 1])
       /\ walk' = [walk EXCEPT ![t] = [NoWalk EXCEPT !.stable = live, !.ever = live]]

\* The next Scan of a walk, from the cursor of the last one.
CallNext(t) ==
  /\ call[t].pc = "page"
  /\ Send(t, ClientOf[t], [call[t] EXCEPT !.n = @ + 1])
  /\ UNCHANGED walk

\* Mutant of Release: Scan gives the lock back once the header is read.
ReleaseEarly(t, pc) == pc # "items" \/ call[t].kind = "scan"

\* Is the lock given back?  Python's scan does so before it reads the keys.
Release(t, pc) == pc # "items" \/ (call[t].kind = "scan" /\ kind[ClientOf[t]] = "python")

\* The call goes on at pc.
Goto(t, new) ==
  LET c == ClientOf[t] IN
  /\ call' = [call EXCEPT ![t] = new]
  /\ lock' = IF lock[c] = t /\ Release(t, new.pc) THEN [lock EXCEPT ![c] = None] ELSE lock

\* Where a call is once its last line is read.
After(t, cursor) ==
  CASE call[t].kind = "line" -> "idle"
    [] call[t].kind = "scan" /\ cursor # 0 -> "page"
    [] OTHER -> "done"

\* A line is taken off the connection, whoever it was written for.
Take(t) ==
  LET c == ClientOf[t] IN
  /\ wire[c] # <<>>
  /\ wire' = [wire EXCEPT ![c] = Tail(@)]
  /\ mixed' = (mixed \/ Head(wire[c]).to # <<t, call[t].n>>)
  /\ UNCHANGED <<serverVars, conn, link, reqs, job, out, live, kind, changes>>

\* The first line: the answer, or the header.  Anything else is malformed.
ReadFirst(t) ==
  LET line == Head(wire[ClientOf[t]]) IN
  /\ call[t].pc = "first" /\ Take(t)
  /\ IF call[t].kind = "line"
     THEN Goto(t, [call[t] EXCEPT !.pc = "idle"])
     ELSE IF line.kind # "header"
     THEN Goto(t, [call[t] EXCEPT !.pc = "failed"])
     ELSE Goto(t, [call[t] EXCEPT !.left = line.val, !.cursor = line.next,
                                  !.pc = IF line.val = 0 THEN After(t, line.next) ELSE "items"])
  /\ UNCHANGED walk

\* readLines: the next of the lines announced.
ReadItem(t) ==
  LET line == Head(wire[ClientOf[t]]) IN
  /\ call[t].pc = "items" /\ Take(t)
  /\ Goto(t, [call[t] EXCEPT !.left = @ - 1,
                             !.pc = IF call[t].left = 1 THEN After(t, call[t].cursor) ELSE @])
  /\ walk' = [walk EXCEPT ![t].got = @ \cup {line.val},
                          ![t].twice = IF line.val \in walk[t].got THEN @ + 1 ELSE @]

\* A read or a write fails on a broken connection, and nothing more is read.
CallFails(t) ==
  /\ call[t].pc \in {"first", "items", "page"} /\ ~link[ClientOf[t]]
  /\ Goto(t, [Idle EXCEPT !.pc = "failed"])
  /\ walk' = [walk EXCEPT ![t] = NoWalk]
  /\ wire' = [wire EXCEPT ![ClientOf[t]] = <<>>]
  /\ UNCHANGED <<serverVars, mixed, conn, link, reqs, job, out, live, kind, changes>>

\* Close, which takes no lock.
Close(c) ==
  /\ link[c]
  /\ Break({c})
  /\ UNCHANGED <<serverVars, threadVars, conn, reqs, wire, job, out, live, walk, kind, changes>>

-----------------------------------------------------------------------------
HandlerStep(c) == ReadRequest(c) \/ CollectEnds(c) \/ WriteLine(c) \/ HandlerEnds(c)
ReadStep(t) == ReadFirst(t) \/ ReadItem(t) \/ CallFails(t)

Next ==
  \/ \E c \in Conns : Dial(c) \/ Accept(c) \/ Spawn(c) \/ HandlerStep(c) \/ Close(c)
  \/ StartReturns \/ Shutdown \/ ShutdownReturns \/ Exit
  \/ Cut \/ \E k \in Keys : Change(k)
  \/ \E t \in Threads : CallLine(t) \/ CallList(t) \/ CallNext(t) \/ ReadStep(t)

Spec == Init /\ [][Next]_vars

\* Goroutines and threads that can run are run.  Nothing is assumed of users:
\* they need not call, close or shut down; nor that Accept fails on an open
\* listener, but when it did, main goes on to end the process.
Fairness ==
  /\ \A c \in Conns : WF_vars(Accept(c)) /\ WF_vars(Spawn(c)) /\ WF_vars(HandlerStep(c))
  /\ WF_vars(~listening /\ StartReturns) /\ WF_vars(ShutdownReturns)
  /\ WF_vars(listening /\ Exit)
  /\ \A t \in Threads : WF_vars(ReadStep(t))

FairSpec == Spec /\ Fairness

-----------------------------------------------------------------------------
(* Properties *)

AllGo == \A c \in Conns : kind[c] = "go"

\* Threads that share a Client get the answers to their own calls: the line a
\* call reads was written for it, whatever calls run at the same time, fail
\* or are closed.
OwnReply == AllGo => ~mixed

Finished(t) == AllGo /\ call[t].pc = "done"

\* The keys a call asks for: those whose name the pattern of Keys means, or all.
Asked(t) == {k \in Keys : call[t].kind = "keys" => Matches(call[t].pattern, Name[k])}

Tracks(t) ==
  /\ Cardinality((walk[t].stable \cap Asked(t)) \ walk[t].got) <=
       (IF call[t].kind = "keys" THEN 0 ELSE walk[t].removed)
  /\ walk[t].got \subseteq walk[t].ever \cap Asked(t)
  /\ walk[t].twice <= walk[t].inserted

\* A walk misses no more of the keys that were there all the time than keys were
\* removed meanwhile, for a removal moves every later key back by one position.
\* (With no removal, "when the returned nextCursor is 0, iteration is complete".)
\* Keys misses none that its pattern means.  Either lists keys asked for that were
\* live at some time of the walk, and a walk lists a key a second time no more
\* often than keys were inserted meanwhile.  Excepted are walks one of whose
\* listings was cut: Keys and Scan ignore ForEach's error.
WalkTracks == \A t \in Threads : Finished(t) /\ ~walk[t].cut => Tracks(t)

\* When Shutdown has returned, no connection's handler is at work, but for the
\* one connection that Accept had returned and Start had not counted yet.
ShutdownWaits == shut = "returned" => Served \subseteq late

\* A call ends, with its answer or with an error.
CallEnds == AllGo => \A t \in Threads : Reading(t) ~> ~Reading(t)

\* Shutdown returns once the clients have closed their connections.
ShutdownEnds ==
  shut = "waiting" /\ (\A c \in Conns : ~link[c]) ~> shut = "returned" \/ exited

\* "Shutdown closes the listener and waits for all connections to finish."
ShutdownWaitsForAll == shut = "returned" => Accepted \cup Served = {}

\* "Thread-safe": also for the Python client.
EveryOwnReply == ~mixed

\* "When the returned nextCursor is 0, iteration is complete": whatever happens
\* to the index file meanwhile.
EveryWalkTracks == \A t \in Threads : Finished(t) => Tracks(t)

\* The database is not closed under a handler at work.
ExitWaits == [][exited' /\ ~exited => Served = {}]_vars
=============================================================================
