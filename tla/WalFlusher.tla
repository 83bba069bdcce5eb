----------------------------- MODULE WalFlusher -----------------------------
(***************************************************************************)
(* The write-ahead log's writer side: writeWAL, the walFlusher goroutine,   *)
(* the file hand-over at the end of Compact, and the stop requested by      *)
(* Close (pkg/brisedb/brise.go).                                            *)
(*                                                                          *)
(* A WAL line is the number it got when it entered walCh (1, 2, ...); the   *)
(* hand-over message of Compact carries no line and has number 0.  The file *)
(* is the sequence of lines written to it, `dirty' are the lines the kernel *)
(* holds only in its page cache and `durable' the lines a power loss leaves *)
(* on the disk.  What Compact does to the file's contents is in Store.      *)
(***************************************************************************)
EXTENDS Naturals, Sequences, FiniteSets

CONSTANTS
  Callers,    \* goroutines that call writeWAL (session operations)
  Compactor,  \* the goroutine that runs Compact
  MaxWrites,  \* bound: lines sent in one behaviour
  MaxCompacts,\* bound: Compact calls in one behaviour
  WalCap,     \* capacity of walCh (1024 in the code)
  MaxBatch    \* lines the flusher collects before it flushes (512)

ASSUME ConstantsOK ==
  /\ Compactor \notin Callers
  /\ MaxWrites \in Nat /\ MaxCompacts \in Nat
  /\ WalCap \in Nat \ {0}
  /\ MaxBatch \in Nat \ {0}

VARIABLES
  fsyncMode,   \* db.fsyncMode, set when the store is opened
  diskFails,   \* may write(2) and fsync(2) return an error in this behaviour?
  walCh,       \* the channel: sequence of messages
  sent,        \* lines sent so far
  compacts,    \* Compact calls so far
  pc,          \* control state of the callers and of the compactor
  cur,         \* the line a caller is logging
  loaded,      \* what a caller's db.walErr.Load() returned
  reply,       \* the one-slot done channel of a call
  acked,       \* lines whose writeWAL returned nil
  walErr,      \* db.walErr: "none" (never stored), "err", or "nil" (typed nil)
  fpc,         \* control state of the flusher
  batch,       \* messages the flusher has collected
  special,     \* a hand-over met while collecting: <<>> or <<message>>
  ferr,        \* result of flushBatch
  bwErr,       \* the bufio.Writer's sticky error
  file,        \* lines written to the file, in order
  dirty, durable, pendingSync,
  stopped,     \* stopCh is closed
  exiting      \* the flusher took the stopCh branch

callerVars == <<pc, cur, loaded, acked>>
chanVars == <<walCh, sent, compacts, reply, walErr>>
flushVars == <<fpc, batch, special, ferr, bwErr, exiting>>
diskVars == <<file, dirty, durable, pendingSync>>
config == <<fsyncMode, diskFails>>
vars == <<callerVars, chanVars, flushVars, diskVars, stopped, config>>

Procs == Callers \cup {Compactor}
Message == [from : Procs, id : Nat]
IsSpecial(m) == m.id = 0
Ids(msgs) == {msgs[i].id : i \in DOMAIN msgs}

Init ==
  /\ fsyncMode \in {"always", "everysec", "no"} /\ diskFails \in BOOLEAN
  /\ walCh = <<>> /\ sent = 0 /\ compacts = 0 /\ walErr = "none"
  /\ pc = [p \in Procs |-> "idle"]
  /\ cur = [c \in Callers |-> 0]
  /\ loaded = [c \in Callers |-> "none"]
  /\ reply = [p \in Procs |-> "none"]
  /\ acked = {}
  /\ fpc = "select" /\ batch = <<>> /\ special = <<>> /\ ferr = "ok"
  /\ bwErr = FALSE /\ exiting = FALSE
  /\ file = <<>> /\ dirty = {} /\ durable = {} /\ pendingSync = FALSE
  /\ stopped = FALSE

-----------------------------------------------------------------------------
(* writeWAL *)

\* A session operation calls writeWAL (at most MaxWrites lines in a behaviour).
Call(c) ==
  /\ pc[c] = "idle"
  /\ sent + Cardinality({d \in Callers : pc[d] \in {"check", "send"}}) < MaxWrites
  /\ pc' = [pc EXCEPT ![c] = IF fsyncMode = "always" THEN "send" ELSE "check"]
  /\ UNCHANGED <<cur, loaded, acked, chanVars, flushVars, diskVars, stopped, config>>

\* Fire and forget: look for the error of an earlier flush.
CheckErr(c) ==
  /\ pc[c] = "check"
  /\ loaded' = [loaded EXCEPT ![c] = walErr]
  /\ pc' = [pc EXCEPT ![c] = IF walErr = "none" THEN "send" ELSE "clear"]
  /\ UNCHANGED <<cur, acked, chanVars, flushVars, diskVars, stopped, config>>

\* Store a typed nil, then return the loaded error: a non-nil interface that
\* holds a nil *walError is dereferenced.
ClearErr(c) ==
  /\ pc[c] = "clear"
  /\ walErr' = "nil"
  /\ pc' = [pc EXCEPT ![c] = IF loaded[c] = "err" THEN "idle" ELSE "panic"]
  /\ UNCHANGED <<cur, loaded, acked, walCh, sent, compacts, reply, flushVars, diskVars,
                 stopped, config>>

\* The message of a call: its line, under the next number.
NewMessage(c) == [from |-> c, id |-> sent + 1]

\* The send on walCh; it blocks while the channel is full.
Send(c) ==
  /\ pc[c] = "send"
  /\ Len(walCh) < WalCap
  /\ sent' = sent + 1
  /\ walCh' = Append(walCh, NewMessage(c))
  /\ cur' = [cur EXCEPT ![c] = sent + 1]
  /\ IF fsyncMode = "always"
       THEN pc' = [pc EXCEPT ![c] = "await"] /\ UNCHANGED acked
       ELSE pc' = [pc EXCEPT ![c] = "idle"] /\ acked' = acked \cup {sent + 1}
  /\ UNCHANGED <<loaded, compacts, reply, walErr, flushVars, diskVars, stopped, config>>

\* FsyncAlways: the call returns what the flusher put in its done channel.
Return(c) ==
  /\ pc[c] = "await"
  /\ reply[c] # "none"
  /\ reply' = [reply EXCEPT ![c] = "none"]
  /\ pc' = [pc EXCEPT ![c] = "idle"]
  /\ acked' = IF reply[c] = "ok" THEN acked \cup {cur[c]} ELSE acked
  /\ UNCHANGED <<cur, loaded, walCh, sent, compacts, walErr, flushVars, diskVars, stopped, config>>

-----------------------------------------------------------------------------
(* The end of Compact: hand the reopened file to the flusher, wait for it. *)

CompactSend ==
  /\ pc[Compactor] = "idle"
  /\ compacts < MaxCompacts
  /\ compacts' = compacts + 1
  /\ Len(walCh) < WalCap
  /\ walCh' = Append(walCh, [from |-> Compactor, id |-> 0])
  /\ pc' = [pc EXCEPT ![Compactor] = "await"]
  /\ UNCHANGED <<cur, loaded, acked, sent, reply, walErr, flushVars, diskVars, stopped, config>>

CompactReturn ==
  /\ pc[Compactor] = "await"
  /\ reply[Compactor] # "none"
  /\ reply' = [reply EXCEPT ![Compactor] = "none"]
  /\ pc' = [pc EXCEPT ![Compactor] = "idle"]
  /\ UNCHANGED <<cur, loaded, acked, walCh, sent, compacts, walErr, flushVars, diskVars,
                 stopped, config>>

\* Close closes stopCh (and then waits for the flusher to exit).
Close ==
  /\ ~stopped
  /\ stopped' = TRUE
  /\ UNCHANGED <<callerVars, chanVars, flushVars, diskVars, config>>

-----------------------------------------------------------------------------
(* walFlusher *)

\* fsync: on success every dirty line is durable.  On failure Linux drops the
\* dirty marks, so a later fsync does not write those lines either.
DoSync(res) ==
  /\ res = "err" => diskFails
  /\ durable' = IF res = "ok" THEN durable \cup dirty ELSE durable
  /\ dirty' = {}

\* handleSpecial: flush and sync the old writer, answer Compact, start a new
\* bufio.Writer.  The flush writes nothing: its buffer is empty or in error.
HandleSpecial(m) ==
  /\ \/ /\ bwErr
        /\ reply' = [reply EXCEPT ![m.from] = "err"]
        /\ UNCHANGED <<dirty, durable, pendingSync>>
     \/ /\ ~bwErr /\ fsyncMode = "no"
        /\ reply' = [reply EXCEPT ![m.from] = "ok"]
        /\ UNCHANGED <<dirty, durable, pendingSync>>
     \/ /\ ~bwErr /\ fsyncMode # "no"
        /\ \E res \in {"ok", "err"} :
             /\ DoSync(res)
             /\ reply' = [reply EXCEPT ![m.from] = res]
        /\ pendingSync' = FALSE
  /\ bwErr' = FALSE
  /\ UNCHANGED file

\* The outer select receives a message.
FlusherReceive ==
  /\ fpc = "select"
  /\ walCh # <<>>
  /\ walCh' = Tail(walCh)
  /\ IF IsSpecial(Head(walCh))
       THEN HandleSpecial(Head(walCh)) /\ UNCHANGED <<fpc, batch>>
       ELSE /\ batch' = <<Head(walCh)>>
            /\ fpc' = "drain"
            /\ UNCHANGED <<reply, bwErr, diskVars>>
  /\ UNCHANGED <<callerVars, sent, compacts, walErr, special, ferr, exiting, stopped, config>>

\* The outer select takes the one-second ticker.
FlusherTick ==
  /\ fpc = "select"
  /\ IF pendingSync THEN \E res \in {"ok", "err"} : DoSync(res)
                    ELSE UNCHANGED <<dirty, durable>>
  /\ pendingSync' = FALSE
  /\ UNCHANGED <<callerVars, chanVars, flushVars, file, stopped, config>>

\* The inner loop: collect what is already queued, up to MaxBatch; a hand-over
\* message ends it.
FlusherDrain ==
  /\ fpc = "drain"
  /\ IF Len(batch) < MaxBatch /\ walCh # <<>>
       THEN /\ walCh' = Tail(walCh)
            /\ IF IsSpecial(Head(walCh))
                 THEN special' = <<Head(walCh)>> /\ fpc' = "flush" /\ UNCHANGED batch
                 ELSE batch' = Append(batch, Head(walCh)) /\ UNCHANGED <<special, fpc>>
       ELSE fpc' = "flush" /\ UNCHANGED <<walCh, special, batch>>
  /\ UNCHANGED <<callerVars, sent, compacts, reply, walErr, ferr, bwErr, exiting,
                 diskVars, stopped, config>>

\* Mutant of BatchLines: the loop writes its first message every time.
BatchLinesFirst(n) == [i \in 1..n |-> batch[1].id]

\* The lines flushBatch has written after n messages.
BatchLines(n) == [i \in 1..n |-> batch[i].id]

\* Mutant of SyncLater: a second batch before the tick takes the request back.
SyncLaterOnce == IF fsyncMode = "everysec" THEN ~pendingSync ELSE pendingSync

\* FsyncEverySec leaves the fsync of a flushed batch to the ticker.
SyncLater == IF fsyncMode = "everysec" THEN TRUE ELSE pendingSync

\* flushBatch, up to the fsync.  A failing write leaves a prefix of the batch in
\* the file; bufio remembers the error and refuses everything after it.
FlusherWrite ==
  /\ fpc = "flush"
  /\ \/ /\ ~bwErr
        /\ file' = file \o BatchLines(Len(batch))
        /\ dirty' = dirty \cup Ids(batch)
        /\ ferr' = "ok"
        /\ fpc' = IF fsyncMode = "always" THEN "sync" ELSE "signal"
        /\ pendingSync' = SyncLater
        /\ UNCHANGED bwErr
     \/ /\ ~bwErr /\ diskFails
        /\ \E n \in 0..(Len(batch) - 1) :
             /\ file' = file \o BatchLines(n)
             /\ dirty' = dirty \cup {batch[i].id : i \in 1..n}
        /\ bwErr' = TRUE /\ ferr' = "err" /\ fpc' = "signal"
        /\ UNCHANGED pendingSync
     \/ /\ bwErr
        /\ ferr' = "err" /\ fpc' = "signal"
        /\ UNCHANGED <<file, dirty, pendingSync, bwErr>>
  /\ UNCHANGED <<callerVars, chanVars, batch, special, exiting, durable, stopped, config>>

\* Mutant of FlusherSync: the result of fsync is ignored.
FlusherSyncUnchecked ==
  /\ fpc = "sync"
  /\ \E res \in {"ok", "err"} : DoSync(res) /\ ferr' = "ok"
  /\ pendingSync' = FALSE
  /\ fpc' = "signal"
  /\ UNCHANGED <<callerVars, chanVars, batch, special, bwErr, exiting, file, stopped, config>>

\* flushBatch, FsyncAlways: the fsync.
FlusherSync ==
  /\ fpc = "sync"
  /\ \E res \in {"ok", "err"} : DoSync(res) /\ ferr' = res
  /\ pendingSync' = FALSE
  /\ fpc' = "signal"
  /\ UNCHANGED <<callerVars, chanVars, batch, special, bwErr, exiting, file, stopped, config>>

\* Mutant of Answer: only a successful flush is reported.
AnswerSuccess(p) ==
  IF fsyncMode = "always" /\ ferr = "ok" /\ p \in {batch[i].from : i \in DOMAIN batch}
    THEN ferr ELSE reply[p]

\* What p finds in its done channel once the batch is flushed.
Answer(p) ==
  IF fsyncMode = "always" /\ p \in {batch[i].from : i \in DOMAIN batch}
    THEN ferr ELSE reply[p]

\* Mutant of AfterSignal: the flusher returns without the last fsync.
AfterSignalNoSync ==
  IF exiting THEN "exited" ELSE IF special # <<>> THEN "special" ELSE "select"

\* What the flusher does after a batch: end the shutdown, serve a hand-over met
\* on the way, or select again.
AfterSignal ==
  IF exiting THEN (IF ferr = "ok" THEN "final" ELSE "exited")
  ELSE IF special # <<>> THEN "special" ELSE "select"

\* signalBatch: answer the waiting callers, remember an error for the others.
FlusherSignal ==
  /\ fpc = "signal"
  /\ reply' = [p \in Procs |-> Answer(p)]
  /\ walErr' = IF ferr = "err" THEN "err" ELSE walErr
  /\ batch' = <<>>
  /\ fpc' = AfterSignal
  /\ UNCHANGED <<callerVars, walCh, sent, compacts, special, ferr, bwErr, exiting,
                 diskVars, stopped, config>>

\* The hand-over that ended the inner loop, after its batch was flushed.
FlusherSpecial ==
  /\ fpc = "special"
  /\ HandleSpecial(special[1])
  /\ special' = <<>>
  /\ fpc' = "select"
  /\ UNCHANGED <<callerVars, walCh, sent, compacts, walErr, batch, ferr, exiting, stopped, config>>

\* The outer select sees stopCh closed.
FlusherStop ==
  /\ fpc = "select"
  /\ stopped
  /\ exiting' = TRUE
  /\ fpc' = "stopdrain"
  /\ UNCHANGED <<callerVars, chanVars, batch, special, ferr, bwErr, diskVars, stopped, config>>

\* Shutdown: drain walCh completely, then flush what was collected.
FlusherStopDrain ==
  /\ fpc = "stopdrain"
  /\ IF walCh = <<>>
       THEN fpc' = "flush" /\ UNCHANGED <<walCh, batch, reply, bwErr, diskVars>>
       ELSE /\ walCh' = Tail(walCh)
            /\ IF IsSpecial(Head(walCh))
                 THEN HandleSpecial(Head(walCh)) /\ UNCHANGED batch
                 ELSE /\ batch' = Append(batch, Head(walCh))
                      /\ UNCHANGED <<reply, bwErr, diskVars>>
            /\ UNCHANGED fpc
  /\ UNCHANGED <<callerVars, sent, compacts, walErr, special, ferr, exiting, stopped, config>>

\* Shutdown: the last fsync, whatever the mode, its error ignored; then return.
FlusherFinalSync ==
  /\ fpc = "final"
  /\ \E res \in {"ok", "err"} : DoSync(res)
  /\ fpc' = "exited"
  /\ UNCHANGED <<callerVars, chanVars, batch, special, ferr, bwErr, exiting, file,
                 pendingSync, stopped, config>>

Flusher ==
  \/ FlusherReceive \/ FlusherTick \/ FlusherDrain \/ FlusherWrite \/ FlusherSync
  \/ FlusherSignal \/ FlusherSpecial
  \/ FlusherStop \/ FlusherStopDrain \/ FlusherFinalSync

Next ==
  \/ \E c \in Callers : Call(c) \/ CheckErr(c) \/ ClearErr(c) \/ Send(c) \/ Return(c)
  \/ CompactSend \/ CompactReturn \/ Close
  \/ FlusherReceive \/ FlusherTick \/ FlusherDrain \/ FlusherWrite \/ FlusherSync
  \/ FlusherSignal \/ FlusherSpecial
  \/ FlusherStop \/ FlusherStopDrain \/ FlusherFinalSync

Spec == Init /\ [][Next]_vars

\* The Go scheduler runs every runnable goroutine; select picks uniformly among
\* its ready cases, so a case that stays ready in round after round is taken.
Fairness ==
  /\ WF_vars(Flusher)
  /\ SF_vars(FlusherTick)
  /\ SF_vars(FlusherStop)
  /\ \A c \in Callers : WF_vars(CheckErr(c)) /\ WF_vars(ClearErr(c)) /\ WF_vars(Return(c))
  /\ \A c \in Callers : SF_vars(Send(c))
  /\ WF_vars(CompactReturn)

FairSpec == Spec /\ Fairness

-----------------------------------------------------------------------------
(* Properties *)

\* Every variable keeps its type.
TypeOK ==
  /\ walCh \in Seq(Message) /\ sent \in Nat /\ compacts \in Nat
  /\ pc \in [Procs -> {"idle", "check", "clear", "send", "await", "panic"}]
  /\ cur \in [Callers -> Nat]
  /\ loaded \in [Callers -> {"none", "err", "nil"}]
  /\ reply \in [Procs -> {"none", "ok", "err"}]
  /\ acked \in SUBSET Nat
  /\ walErr \in {"none", "err", "nil"}
  /\ fpc \in {"select", "drain", "flush", "sync", "signal", "special", "stopdrain",
              "final", "exited"}
  /\ batch \in Seq(Message) /\ special \in Seq(Message)
  /\ ferr \in {"ok", "err"} /\ bwErr \in BOOLEAN /\ exiting \in BOOLEAN
  /\ file \in Seq(Nat) /\ dirty \in SUBSET Nat /\ durable \in SUBSET Nat
  /\ pendingSync \in BOOLEAN /\ stopped \in BOOLEAN
  /\ fsyncMode \in {"always", "everysec", "no"} /\ diskFails \in BOOLEAN

\* FsyncAlways: a call that returned nil has its line on the disk, whatever
\* batch it travelled in and whatever write, fsync or hand-over failed before
\* (writeWAL: "blocks until the batch containing this entry has been fsynced").
AckedDurable == fsyncMode = "always" => acked \subseteq durable

\* The lines in the file, and the batch until flushBatch has written it.
Written == {file[i] : i \in DOMAIN file}
Unwritten == IF fpc \in {"sync", "signal"} THEN <<>> ELSE batch
Queued == Ids(walCh) \ {0}

\* Lines reach the file in the order they entered walCh, none twice: the file, then
\* the batch, then the channel are one rising sequence of numbers.  On a working
\* disk no line that was sent is missing either (flushBatch, the three receives).
LogOrder ==
  /\ \A i, j \in DOMAIN file : i < j => file[i] < file[j]
  /\ \A i, j \in DOMAIN Unwritten : i < j => Unwritten[i].id < Unwritten[j].id
  /\ \A i, j \in DOMAIN walCh :
       i < j /\ ~IsSpecial(walCh[i]) /\ ~IsSpecial(walCh[j]) => walCh[i].id < walCh[j].id
  /\ \A x \in Written, y \in Ids(Unwritten) : x < y
  /\ \A x \in Written \cup Ids(Unwritten), y \in Queued : x < y
  /\ ~diskFails => Written \cup Ids(Unwritten) \cup Queued = 1..sent

\* FsyncAlways: a call that waits for its done channel is answered, with an error
\* if need be, unless the flusher returns first (signalBatch answers every message
\* of a batch; a line sent after the last drain of a shutdown is not looked at).
CallsAnswered ==
  \A c \in Callers :
    pc[c] = "await" ~> pc[c] = "idle" \/ (fpc = "exited" /\ cur[c] \in Ids(walCh))

\* A line that was accepted on a working disk becomes durable without any further
\* write, under FsyncAlways by its own batch and under FsyncEverySec by the ticker
\* and pendingSync, unless the flusher has returned before it took the line.
LinesSynced ==
  \A n \in 1..MaxWrites :
    sent >= n /\ fsyncMode # "no" /\ ~diskFails
      ~> n \in durable \/ (fpc = "exited" /\ n \in Ids(walCh))

\* Once the flusher has returned on a working disk, every line it wrote is on the
\* disk, whatever the mode and whether Compact replaced its writer on the way
\* (the final flush and fsync of the stopCh branch).
ExitSynced == fpc = "exited" /\ ~diskFails => Written \subseteq durable

\* A session operation never dies in writeWAL: after a flush error was returned
\* once, it is cleared "so the next write has a chance" (brise.go:368).
NoPanic == \A c \in Callers : pc[c] # "panic"
=============================================================================
