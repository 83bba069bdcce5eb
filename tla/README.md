# brisedb in TLA+

TLA+ models of brisedb, a key-value and blob store in Go: what its concurrent
parts, its files and its recovery promise, checked with TLC on small instances
and, for most of them, proved with TLAPS for every size.

Paths are relative to `src/`. `PROJECT.json` holds the machine-readable side:
components, runs, mutants, the map from definitions to source lines, hazards and
theorems.

## 1. The system

| Part | State | Operations | Used by |
|---|---|---|---|
| WAL writer (`pkg/brisedb/brise.go`) | `walCh`, `walErr`, the flusher's batch, buffer and file | `writeWAL`, `walFlusher`, hand-over from `Compact`, `Close` | every write |
| Store (`brise.go`, `session.go`) | index, TTL cache, `wal.log` | SET, SET EX, blobs, DELETE, PERSIST, COMMIT, replicated writes, sweep, `Compact`, `Close`, `NewBriseDB` | all servers |
| Sharded mutex (`keyedmu.go`) | 64 `RWMutex` shards | `Lock`, `RLock`, `lockShards`, `LockAll` | store |
| Hash index (`hashindex.go`) | bucket table in memory and file, append-only entries | `Get`, `Set`, `Delete`, `ForEach`, `Compact`, open, close | store |
| Transactions (`session.go`) | a stack of frames per session | BEGIN, COMMIT, ROLLBACK, reads through the stack | TCP server |
| Volumes (`volume.go`, `volumepool.go`, `pkg/volumeserver`) | append-only files, groups of members, registry | write, stream, read, rotation, restart | store, blob server |
| Read cache (`lrucache.go`) | LRU list and byte count | get, set | volumes |
| Blob server (`pkg/blobserver`) | requests | GET with ranges, PUT, DELETE | users |
| Replication (`replication.go`, `pkg/server`, `pkg/client/replica.go`, `cmd/replica`) | a buffered channel per replica | register, snapshot, fan-out, apply | TCP server |
| Pub/sub (`pubsub.go`, `pkg/server`, clients) | subscriber channels | subscribe, unsubscribe, publish | TCP server |
| TCP server (`pkg/server`), clients (`pkg/client`, `clients/python`), programs (`cmd`) | connections, their two writers, the wait group; a mutex per client, reader threads with bounded queues | commands, SCAN and KEYS, shutdown | users |
| io_uring reader (`ioring*.go`) | – | called nowhere | – |

A write puts its payload into a volume, takes the key's shard lock, changes TTL
cache and index, unlocks, and queues a WAL line; the flusher batches the lines
into `wal.log`. A start opens the index and trusts it, unless its header counts
no entry: then the WAL is replayed over it.

What makes this hard: the index and the WAL are updated under different locks
and persisted by different rules; one number in a header chooses between them
at recovery; reads and scans of the index take no lock; `Compact` rewrites
files in place while the flusher runs; volume groups are written by several
writers and over a network; a replica is given a snapshot and a stream that
overlap; bounded buffers between server and clients fill, and what is then
dropped, blocked or counted differs from place to place.

## 2. Modules

| Module | Models | State and actions |
|---|---|---|
| `WalFlusher` | `writeWAL`, `walFlusher`, hand-over, `Close` | `walCh`, callers' `pc`, flusher's `fpc`, `batch`, `file`, `dirty`/`durable`. One action per blocking step of a caller, and per select case, flush, fsync, signal and special message of the flusher. A line is its sequence number. |
| `Store` | the shared store | `index`, `header`, `expiry`, `walCh`, `wal`, an operation record per session. `BeginSet`/`BeginDelete`/`BeginCommit`, then `ApplySet`/`ApplyDelete`/`ApplyFails` under the lock, `Log` and `Finish`; `Persist`; `EvictExpired`; `CompactIndex` to `CompactSwap`; `Flush`, `FlushFails`; `Crash`, `PowerLoss`, `WriteBack`, `Close`; `Open`, `ReplayLine`, `Serve`. |
| `KeyedMutex` | `keyedMutex` over `sync.RWMutex` (external, modelled from its use) | who holds and wants which shard; `Lock`, `RLock`, `lockShards`, `LockAll`, shard by shard. |
| `LockSpec` | what a lock promises | `Enter` a section that conflicts with nobody, `Leave`. |
| `HashIndex` | `hashIndex` | entries, tables in memory and file, one record per `Get`, scan and `Compact` with its `index.hash.tmp`; the writes of `Set` and `Delete` are append, publish, persist, and each may fail, an append half way. A scan that meets half an entry, or goes on in a file `Compact` has put in, is `astray`. |
| `IndexSpec` | what the index promises | an atomic map and the copy a crash goes back to; what `Compact` may change in it (`strays`). |
| `Transactions` | transaction stacks of sessions | frames with `store`, `deleted`, `expiry`; `Get`, `TTL`, `Count` as operators. |
| `VolumePool` | `VolumeManager`, `VolumePool`, remote writes | files as cells, `ends`, `registry`, in-flight `requests` and `replies`; `Write`, `BufferStream`, `PickDrive`, `LocalWrite`, `LocalWriteFails`, `RemoteWrite`, `ReplicaFails`, `Crash`, `Open`... |
| `Replication` | `replication.go`, the `fanout` calls of `session.go`, `handleReplicate`, `cmd/replica`, the Python `ReplicaConn` | the primary's `index` and one operation record per session; per replica a handler, its channel `ch`, the lines under way `out`, and the copy `db`. `BeginX`, index, log and fan-out steps of a session; `Dial`, `Collect`, the handler's stream, the client's reader and its user, whose `Apply` may fail with the program (`ApplyFails`) or unnoticed (`ApplyIgnored`); lost connections. |
| `PubSub` | `pubsub.go`, a subscribed connection's handler and forwarder, both clients' `PubSubConn` | `subs`, `subChannels`, `msgCh`, `wire`, `queue`. `Register` and confirmation, `PublishStart`/`PublishSend`/`PublishReturns`, the forwarder's steps, the client's reader, `Close`; `Break` of a connection. |
| `Calls` | `Server.Start` and `Shutdown`, the handler of calls, `Client` in Go and Python, `Session.Scan` and `Keys`, the end of `cmd/server` | connections from `Dial` to `HandlerEnds`, requests and lines on the wire, `Client.mu`, one record per call and per walk through the keys. `Cut`: `Compact` replaces the index file under a listing, whose error SCAN and KEYS ignore. |
| `Glob` | `matchGlob` | a recursive operator, compared with a definition by cases of what a pattern matches. |
| `LRUCache` | `lruCache` | the list and the byte count as a value; `get`, `set`, `evictLRU` as operators. |
| `Blobs` | GET, PUT and DELETE of the blob server, `parseRange`, `VolumePool.Read` through the cache | the keys' addresses, the cache, one record per request: lookup, then range, then read and fill; a PUT writes the volume, then the index, or fails. |
| `MC*` | – | small sets and symmetry for TLC |
| `*_proofs` | – | theorems and proofs |

How they fit: `Store` uses the WAL writer by what `WalFlusher` establishes
(lines reach the file in queue order; with `FsyncAlways` a caller waits), locks
by what `KeyedMutex` is proved to implement (atomic sections), the index by
what `HashIndex` is proved to implement (an atomic map). `Transactions` treats
the outermost COMMIT as atomic; its steps are in `Store`. Volume addresses are
version numbers in `Store`; that an address goes on naming its blob is
`VolumePool`'s subject, and `Blobs` relies on it. `Replication` takes the index
and the log of the primary as `Store` has them and leaves out recovery. `Calls`,
`PubSub` and `Replication` each model one kind of connection of the TCP server.

Abstractions. Keys are model values, payloads are numbers. Time is a counter;
an entry expires when the clock has passed its expiry, as `now.After` does. In
`Store` every key has its own lock: a shard shared by two keys only excludes
more. In `HashIndex` offsets count entries, and expired entries and tombstones
are both value 0. In `VolumePool` sizes count cells and a header is one cell.
Definitions whose comment says "Mutant of X" are variants of a definition with a
plausible bug; they are used only to see that the properties notice.

## 3. Runs

Bounds are constants named `Max...`; each cfg gives them. They are chosen so
that each run's subject happens, which the mutants confirm: each property of a
passing run is violated, under the same bounds, by a small bug. Deadlock
checking is off where the bounds, or a shutdown, let everybody stop.

### Passing

| Run | States | Checks |
|---|---|---|
| `Wal` | 35 thousand | the three fsync modes, on a working and on a failing disk, with a hand-over and with `Close` at any point. With `FsyncAlways` an acknowledged line is durable (`AckedDurable`); lines reach the file in queue order, none twice, none missing on a working disk (`LogOrder`); what the flusher wrote is fsynced when it exits (`ExitSynced`); a waiting writer gets its answer (`CallsAnswered`); an accepted line becomes durable (`LinesSynced`). |
| `StoreRecovery` | 292 thousand | `FsyncAlways`, sessions with keys of their own, `Compact`, a crash, a power loss (either may leave half a line) or a `Close` anywhere, also while sessions are at work, write-back of the index at any time: settled keys survive (`SettledSurvives`). |
| `StoreExpiry` | 681 thousand | one session with SET, SET EX, DELETE, COMMIT and replicated writes on two keys, the sweep, the clock, two crashes anywhere or shutdowns at rest: the sweep removes only what has expired (`EvictionSafe`), settled keys survive with their lifetimes (`SettledSurvives`). |
| `StoreProgress` | 26 thousand | a queue of one, `Compact` holding all locks, index and log writes that fail, wholly or in part: operations end (`OpsFinish`), and the WAL never gets ahead of the index (`LogBehindIndex`). Checked once also without `FsyncAlways`, where `writeWAL` returns the error of an earlier flush (37 thousand). |
| `Mutex` | 20 thousand | three goroutines, three keys, three shards: no waiting against the order (`OrderedWaiting`), atomic (`AtomicLocks`), starvation-free (`LocksGranted`), no deadlock. |
| `Index` | 654 thousand | a lock-free reader, both scans, writers, failing and half writes, two `Compact`s, a crash anywhere, inside `Compact` too, or a clean restart: the index implements an atomic map which reopens as it was persisted and in which `Compact` changes nothing but what a crash or a half write left astray (`AtomicMap`), a scan reports values that the keys had while it ran (`ScanRegular`), chains are ordered (`ChainOrder`), `Get` ends (`GetEnds`). |
| `Txn` | 590 thousand | two sessions, up to three frames: COMMIT does not change what the session sees (`CommitKeepsView`), a key for which `TTL` answers is one that `Get` finds (`TTLAgrees`), nothing but PERSIST leaves a transaction before its outermost COMMIT (`Isolated`). |
| `Pool` | 844 thousand | two writers, two drives, one remote server, a replication factor that a restart may change, streams, rotation, failing and short writes, timeouts and late requests, two crashes or restarts: addresses read back from the primary (`ReadBack`) and from every member (`AnyMember`), and what was readable at its address stays so (`AddressesStable`). |
| `Replica` | 759 thousand | two writers and the sweep of a primary, one replica of either kind that connects, loses its connection and starts again, index writes of the replica that fail, a channel and a queue that overflow: what a replica has, with what is on its way, is the primary's data (`ReplicaTracks`), and its copy is the primary's once nothing moves (`QuietInSync`), for all keys it was told of; handler and client never wait for each other (`NeverStuck`). |
| `PubSub` | 297 thousand | a subscriber of either kind and a publisher, two channels, a connection that closes or breaks, all buffers of one or two: what the user was told last about a channel is what the registry has (`ConfirmedIsRegistered`); messages arrive in order and once (`InOrder`), and a message that `Publish` counted is not dropped on a living connection (`CountedIsKept`); no subscriber holds up a publisher (`PublishEnds`), and the goroutines of a closed or broken subscription end, once its user has taken what was read (`CloseEnds`). |
| `Calls` | 181 thousand | two threads on one Go client, the keys changing and `Compact` running under SCAN and KEYS, `Accept` failing, requests too long for the scanner, broken and closed connections, shutdown at any point: replies reach their callers (`OwnReply`); a finished walk that no `Compact` cut misses only as many stable keys as were removed behind it, lists none that was never there, and repeats only as many as were inserted (`WalkTracks`); `Shutdown` returns after the handlers it counted (`ShutdownWaits`), and ends when the clients do (`ShutdownEnds`); every call ends (`CallEnds`). The run also evaluates `Glob!MatchGlobIsExact`: `matchGlob` agrees with the reference for all patterns and keys of up to three characters. |
| `Blobs` | 1.0 million | two requests for a key, overwriting, failing PUTs and deleting meanwhile, a cache of several sizes or none: an answer is whole and of the blob that was looked up (`AnswerWhole`), a range is exact (`RangeExact`); the byte count is the sum of the entries and within the limit, no blob is there twice, and evicting always makes room (`CacheCounts`); the cache holds the most recently used blobs in the order of use (`KeepsRecent`). |

Where the code keeps a promise only under a condition, the property says the
condition: `AnyMember` and `ReadBack` except what their comments list,
`CallsAnswered` and `LinesSynced` except lines sent after the flusher's last
drain, `Isolated` excepts PERSIST, `SettledSurvives` a WAL with a torn line and
an index that a power loss took back. `ReplicaTracks` and `QuietInSync` except
the keys of which a replica was not told (`lost`, whose members the comments
list), `NeverStuck` one wait of the Python constructor; `OwnReply`, `CallEnds`
and `WalkTracks` speak of the Go client, and `WalkTracks` of walks that were not
cut. `AtomicMap` and `ScanRegular` name the values that a crash may bring in:
of a write that was cut short before its bucket was saved (`Undone`), and in
`Compact` of an old `index.hash.tmp`; they say nothing of a file with half an
entry that is read sequentially, or of a scan that went on in a new file.
`LogOrder` is about the lines alone; that the hand-over waits for the batch
before it is not visible in it. What happens in the excepted cases is below.

### Disagreements between code and its documentation

Each was found by TLC with a property of a module under a variation of a run's
cfg (the property in the place of the others, `SPECIFICATION Spec` for those
that are not temporal), and contradicts the quoted line.

| Property, run and change | What happens | Contradicts |
|---|---|---|
| `NoPanic`, `Wal` with `MaxWrites = 3` | a typed nil in `walErr` is dereferenced by the second fire-and-forget writer after a failed flush | "clear so the next write has a chance" (`brise.go:368`) |
| `SettledSurvives`, `StoreRecovery` with `MayWrite <- SharedKey` | two SETs of a key are logged in the other order; replay restores the older | "Safest: zero data loss on crash" (`brise.go:24`) |
| `ReplaySucceeds`, `StoreRecovery` with `MaxCompacts = 0`, `PowerFails = FALSE` | a crash in the middle of a flush leaves half a line; the next `NewBriseDB` fails | "zero data loss on crash" (`brise.go:24`) |
| `ReplaySucceeds`, `StoreRecovery` with `MaxOps = 4`, `PowerFails = FALSE`, `QuietHalts = TRUE` | flusher and `Compact` write the same file; the log no longer parses | "then switch to newWAL atomically" (`brise.go:326`) |
| `SettledSurvives`, `StoreExpiry` with `MaxCompacts = 1`, `Kinds = {"set"}` (it holds with `QuietHalts = TRUE`) | a SET EX reaches the index and the process dies before its line is in the WAL; the index, which counts entries since `Compact`, is trusted; the key expires, a clean `Close` writes a count of 0, and the next start replays the WAL with the value that had been overwritten | "Only used when the hash index is empty" (`README.md:309`) |
| `SettledSurvives`, `StoreExpiry` with `BusyClose = TRUE` | `cmd/server` closes the store while a session is between index and log; the index, with its count, is trusted; then as in the row before | "zero data loss on crash" (`brise.go:24`) |
| `SettledSurvives`, `StoreRecovery` with `IndexFails = TRUE`, `MaxCompacts = 0`, `PowerFails = FALSE` | a DELETE that returned an error has deleted the key in the index and not in the log; a second DELETE finds nothing, logs nothing and succeeds; the replay brings the key back | the same line |
| `CommitWhole`, `StoreRecovery` with `MayWrite <- OneSession`, `Kinds = {"set", "commit"}` | a crash leaves part of a COMMIT | "writes to volumes + WAL atomically" (`README.md:114`) |
| `SettledSurvives`, `StoreExpiry` with `Kinds = {"set", "persist"}` | PERSIST is not logged: a replay brings the TTL back | "zero data loss on crash" (`brise.go:24`) |
| `EvictionSafe`, `StoreExpiry` with `Kinds = {"set", "blob"}`, `IndexFails = TRUE` | `SetBlob` puts its expiry in the TTL cache before an index write that fails; the sweep deletes the old, permanent value | "removes expired keys" (`brise.go:229`) |
| `ExpiredEvicted`, `StoreExpiry` with `SPECIFICATION FairSpec`, `Kinds = {"set"}` | a key that expired while the store was down never enters the TTL cache | "removes expired keys every second" (`brise.go:229`) |
| `ReplaySkipsExpired`, `StoreExpiry` | replay reads nanoseconds as seconds and skips nothing | "Expired SET entries are skipped." (`brise.go:258`) |
| `SettledSurvives` without the set that `PowerLoss` adds to `maybe`, `StoreRecovery` | an index whose header counts entries is trusted after a power loss and the fsynced WAL ignored | "zero data loss on crash" (`brise.go:24`) |
| `CallsAnswered` without its second case, `Wal` | a writer that sends after the drain of a shutdown waits for ever | "so callers are not left blocking" (`brise.go:488`) |
| `ScanRegular` without `Undone`, `Index` | the sequential scan reports an entry that a crash cut off and `Get` cannot find | "every live, non-expired entry" (`hashindex.go:413`) |
| `ScanSnapshot`, `Index` with `Threshold = 0` | the chain scan sees concurrent writes | "are not observed (consistent read snapshot)" (`hashindex.go:423`) |
| `SwapAlone`, `Index` | `Compact` swaps the file under a scan | "no concurrent reads or writes are in flight" (`hashindex.go:580`) |
| `CompactKeeps`, `Index` | `Compact` scans sequentially too and brings such an entry back; and half an entry in the file makes it drop or invent keys | "removing tombstones and stale versions" (`hashindex.go:516`) |
| `CompactKeeps`, `Index` with `Threshold = 0`, `MaxScans = 0`, `MaxWrites = 3` | `Compact` appends to the `index.hash.tmp` of a `Compact` that died; keys that are gone come back | the same line |
| `SizeIsLive`, `Index` | the entry count counts versions | "the number of live entries" (`hashindex.go:623`) |
| `GetSkipsExpired`, `Txn` | `Get` in a transaction returns an expired value | "Expired keys are treated as absent." (`session.go:136`) |
| `PersistKeepsValue`, `Txn` | PERSIST makes an expired key permanent | the same line |
| `Isolated` without its exception, `Txn` | PERSIST inside a transaction survives ROLLBACK | "discards all changes" (`README.md:118`) |
| `AnyMember` without its exceptions, `Pool` | writes reach a replica in another order; after a failed replica write the offsets differ for good; after the replication factor is lowered, a stream goes into a replicated group's volume on one member only | "identical on all members" (`volumepool.go:102`) |
| `ReadBack` without its exception, `Pool` | after a short stream or failed write `v.end` is behind the file and later addresses are too low | "next-write byte offset" (`volume.go:47`) |
| `ReplicaTracks` without what a full channel adds to `lost`, `Replica` | a replica whose channel was full goes on, connected, without the entry | "will be removed when the next write to its conn fails" (`replication.go:39`) |
| `ReplicaTracks` without what `SetBlobStream` and PERSIST add to `lost`, `Replica` | neither is fanned out | "stream changes to read-only replicas in real time" (`README.md:19`) |
| `QuietInSync` without what a new snapshot leaves in `lost`, `Replica` | a replica that starts again keeps keys that were deleted while it was away; two sessions that fan out in the other order leave the older value | the same line |
| `NeverStuck` without its exception, `Replica` | the Python constructor waits for ever when the snapshot exceeds its queue | "Block until the snapshot has been fully applied" (`client.py:387`) |
| `IterationEnds`, `PubSub` | `close()` leaves the file object of the reader thread, which keeps the socket open: the iteration does not end | "until the connection is closed" (`client.py:240`) |
| `ShutdownWaitsForAll`, `Calls` | a connection that `Accept` has returned is not counted yet when `Shutdown` waits | "waits for all connections to finish" (`pkg/server/server.go:49`) |
| `EveryWalkTracks`, `Calls` | `Compact` closes the file under the scan of a SCAN, which ignores the error: the walk ends with cursor 0 and has missed keys | "When the returned nextCursor is 0, iteration is complete." (`session.go:553`) |
| `EveryOwnReply`, `Calls` with `Kinds <- OnlyPython` | the Python `scan` reads its items without the lock; another thread's reply is mixed in | "Thread-safe client" (`client.py:14`), "Must be called while self._lock is held" (`client.py:172`) |
| `ExitWaits`, `Calls` | `main` returns from `Start`, closes the database and exits while handlers work | "waits for all connections to finish" (`pkg/server/server.go:49`) |
| `RangeInside`, `Blobs` | a suffix range of an empty blob gives an empty part from 0 to -1 | "clamped to [0, total)" (`pkg/blobserver/server.go:308`) |

### Bounds

Two sessions, writers or callers and two or three keys give every pairwise
conflict; one `Compact` and one or two crashes give every order of one of them
with an operation. Queue capacities of 1 and 2 (1024 in the code) make the
queue full and non-empty; a batch of 2 (512) is reached. Two keys share a slot in
`Index`, and `forEachThreshold` is 1 there so that both scans are taken; three
writes with a threshold of 2 were checked once for safety (13 million states).
Volumes of 3 cells rotate after one or two blobs. `NsPerSec` exceeds every time
of a run, as a nanosecond clock does. The channels, wires and queues of
`Replica`, `PubSub` and `Calls` hold one or two lines: each fills while the next
one is full. Two publishers (8.2 million states, safety), two subscribers and
two connections of callers were checked once and change nothing: connections
meet only in the registry and in the wait group. Blobs of up to two bytes, the
seven ranges of `MCBlobs` (none, the first byte, over the end, inverted, from an
offset, and two suffixes) and caches of up to two bytes give every
way of clamping and evicting; all other ranges are the theorem's (section 4). One key is enough, for each overwriting gives it a new address, and
the cache knows blobs by their addresses.

### Fairness

- The Go scheduler runs every runnable goroutine: weak fairness of each step.
- `select` picks at random among ready cases, and a blocked channel sender is
  served in FIFO order: strong fairness of the tick, of the stop case and of
  sends.
- `sync.RWMutex` lets a waiting writer in before later readers, and its waiters
  are not starved: strong fairness of acquiring a lock.
- `EvictExpired` runs every second and needs all locks: strong fairness.
- In `PubSub` and `Calls`: weak fairness of handlers, forwarders, readers'
  threads, publishers and of `Accept`. A closed socket is noticed by both ends.

Nothing is assumed of clients, clocks, disks or crashes.

## 4. Proofs

All theorems hold for any sets of processes and keys, any capacities and any
bound. They use only the named `ASSUME` of each module, which gives the
constants their types; where a theorem needs more, it says so. `HashIndex` also
assumes that the cardinality of a set of keys is a natural number, which is true
of finite sets and not known to the provers.

A module with proofs has a type invariant, `TypeOK`, which also bounds indices
and positions. No run lists it: it is the theorem `TypeCorrect` of the module
(`MutexTyped` and `PubSubTyped` in `Server_proofs`, which is about both
`KeyedMutex` and `PubSub`).

| Theorem | Argument |
|---|---|
| `WalFlusher_proofs!TypeCorrect` | `TypeOK` needs `Tagged`: hand-over messages, and only they, come from `Compact`, so a batch holds lines only. |
| `WalFlusher_proofs!AckedIsDurable` | `SyncInv`: with `FsyncAlways` each caller has one message on its way and waits for it (`OneEach`); a batch being fsynced is in the page cache, one being signalled without error is durable, and so is a line with a positive answer (`Answers`). |
| `WalFlusher_proofs!LinesStayInOrder`, `ExitLeavesAllSynced` | `LogInv`: no number is above `sent`, the batch is empty outside a flush, and on a working disk there is no error and every line of the file is durable or dirty, which is what makes the last fsync cover everything. |
| `Store_proofs!TypeCorrect` | with `SwapOnce`: at most one hand-over is queued, and only while `Compact` waits. |
| `Store_proofs!EvictionIsSafe` | assumes that index writes do not fail (section 3 has the counterexample otherwise). `CacheSound`: a cached expiry of a live key is the expiry in its index entry. It is stronger than `EvictionSafe`, and unlike it does not depend on the clock, which makes it inductive. |
| `Store_proofs!SettledStateSurvives`, `LogStaysBehind` | see below. |
| `Server_proofs!MutexTyped`, `WaitingIsOrdered` | `IInv`: what a process holds lies below what it still wants, and conflicting holders exclude each other. |
| `Server_proofs!LocksAreAtomic` | from `IInv`: taking the last shard is `Enter`, the first unlock is `Leave`, all else stutters. |
| `Server_proofs!ToldIsTrue` | `Word`: what the user will have been told about a channel once the line about to be written, the wire and the queue are read is what the handler has in `subChannels`; `Registry`: this is what `subs` has. |
| `Server_proofs!InPublishedOrder` | `Order`: queue, wire, forwarder and channel, one after the other, are in order; `Spaced`: all of it is later than what the user got, and earlier than the message a publisher is still to send to the connection. The forwarder being the only one to take from the channel, and the reader from the wire, is what keeps it. |
| `Server_proofs!NothingCountedIsLost`, `PubSubTyped` | `Kept`: what was counted is among the lines on the way. They are dropped only with the connection. |
| `HashIndex_proofs!ChainsInOrder` | `IndexInv`: every linked entry points to the newest older one of its slot, bucket heads and `cur` are the newest visible ones, the table in the file is a prefix of that in memory and its `sav` what a crash goes back to, the same for the file `Compact` builds; a walking reader's position still has the entry it is due below it. |
| `HashIndex_proofs!IndexIsAtomic` | refinement of `IndexSpec`: loading the bucket is `Read`, `Publish` is `Put`, `PersistBucket` is `Save`, the rename in `Compact` is `Rewrite` and its reopening `Adopt`, the end of the process is `Crash`, all else stutters. `CopyInv`: what the scan of `Compact` found for a key is its value or `Misread`, and the newest entry in the new file is what was found or, where nothing was, what lay in an old `index.hash.tmp` (`Copied`). |
| `HashIndex_proofs!TypeCorrect` | `ScanSound`: a scan's limit, or the rest of its chain, lies inside the file, until the scan is astray. |
| `HashIndex_proofs!ScansAreRegular` | `Reporting`: what a scan has reported, and what it will report from where it is, are values of its time, and so is what the map holds now. It has one form per strategy: for the sequential scan, the last entry of a key before the position (`SmallRight`); for the chain scan, the slots behind it (`Behind`) and the chain it is in (`Within`). The last entry of a key in the data region is its newest one or one that a crash cut off (`LastIsNewest`); an astray scan is excepted. |
| `Transactions_proofs!TypeCorrect`, `TransactionsAreIsolated` | `Typed` with tidy frames: a key is not both set and deleted in a frame, and has an expiry only where it is set. |
| `Transactions_proofs!CommitKeepsWhatIsRead` | the innermost frame that mentions a key decides what is read (`Innermost`); merging two frames, or the last into the store, keeps that decision. |
| `Transactions_proofs!TTLAgreesWithGet`, `CountAgreesWithGet` | the sets that `TTL` and `Count` collect over the stack are described by the same innermost frame. |
| `VolumePool_proofs!WritesReadBack` | `PoolInv`: files only grow, `ends` is the file's size in volumes without a short write (`EndsAgree`; what a failed write or a crash leaves of a blob is `CrashPart`, `FailParts`), and a blob is whole at its address from the primary's write on, while replicas are awaited (`Pending`) and after (`Whole`). |
| `VolumePool_proofs!MembersReadBack` | see below. |
| `VolumePool_proofs!AddressesStayGood` | files only grow (`Grown`). |
| `VolumePool_proofs!TypeCorrect` | `Managed`: every drive keeps the volume it started with, so it has a current one after every start, and the manager's next id is above all its files. `Passed`: what is written and answered has the size and number of a request. |
| `Replication_proofs!TypeCorrect` | with the number of queued lines bounded by those under way. |
| `Replication_proofs!SnapshotAndStreamMeet`, `QuietReplicaInSync` | `IInv`: the owner of a key has still to fan out what the index holds (`OwnerPends`); for a key that the snapshot has not visited, the channel, if it mentions the key, ends with the primary's value (`Known`). This is what registering before the snapshot buys, and it is why an entry may come twice but none is missed. |
| `Replication_proofs!HandlerAndClientMove` | `SomeoneMoves` is `NeverStuck` said with the guards of the steps (`CanStep`) in the place of `ENABLED`; the run checks that these guards enable a step. `WaitShape`: the unread lines before +READY are on the connection, the queue keeps its capacity, and a snapshot in progress has keys to visit. Assumes that no capacity is 0 and that there is a key. |
| `Blobs_proofs!AnswersAreWhole`, `RangesAreExact` | `BlobsInv`: the cache holds only whole blobs under their own address, and a request holds the address and the part that its lookup gave; addresses are never used twice. |
| `Blobs_proofs!CacheKeepsRecent`, `TypeCorrect` | `get` and `set` move what is used to the front of both the list and the history, and eviction only shortens the list at its end. |
| `Blobs_proofs!CacheCountsTruly` | `Counted`: `curBytes` is the sum of the sizes in the list, whose keys are distinct. What a sum over a sequence becomes when an element is added, moved or cut off is shown by a least counterexample, from the well-foundedness of `<` on the naturals. As the sum of nothing is 0, some number of evictions makes room for any blob that fits: the loop in `set` ends. |

**Recovery (`SettledStateSurvives`).** The setting is `FsyncAlways`, an index that
accepts its writes, one writing session per key and no PERSIST; section 3 has a
counterexample for the absence of each of the last three. Once a line is torn,
by `Compact` or a crash in the middle of a flush, nothing is promised (`Usable`,
`TornKept`): section 3 shows that the store does not start then. The history variable
`maybe` holds, per key, the entries that a client may find: what it was last
told, and what operations under way are writing. `SettledSurvives` says that the
index holds one of them whenever the store is up. By itself this says nothing of
the time between crash and recovery, when the index may be discarded, so the
invariant has to say what a replay *would* give. `Settled` is that: an operation
logs what it applies (`OpsInv`) and waits for its one line in the queue
(`SentInv`); what replaying the WAL as it is now would make of a key
(`Rebuilt`) is an entry that clients may find, and shows the same as the index
unless an update of the key is not logged yet (`ImageInv`); lines queued and
still to be queued show what the index shows (`LinesInv`); while `Compact`
rewrites the log in place, the index file it has written before has everything
(`CompactInv`); during a replay every key is at the last line read (`Reached`).
After a death in the middle of an operation a trusted index may be ahead of the
WAL for good, so the theorem is about one crash, shutdown or power loss at any
point, or any number of them with no operation under way and no power loss
(`Calm`); the second and third row on `SettledSurvives` in section 3 show that two
are one too many.

**The log behind the index (`LogStaysBehind`).** Set, Delete and the others change
the index first and log after. `LogBehindIndex` says what that gives and is
inductive once it also speaks of the lines that are still with the operations
(`Behind`), whether they reach the file, are lost in a failed flush
(`FlushFailsBehind`) or are never queued, as `writeWAL` returns an old error: one that has changed the index logs only what the index holds, and one that
has not yet will give its key a version no older than the one the index has. The theorem is about
the time until the process first ends, since a replay ignores the index's
errors; about keys with one writing session each, as two sessions log in any
order; without COMMIT, which logs the DELETE of a key that the index does not
hold; and without replicated writes where index writes fail, as
`ApplyReplicationEntry` logs whatever the index answers.

**Groups (`MembersReadBack`).** `MemberInv` says why a replica that appends at the
end of its own file puts a blob at the primary's offset. Only one process ever
writes to a group: a restart never reuses one (`Fresh`, `Saved`; the next id is above
every saved group and every local file), and in one process the replication
factor is fixed, so either all groups it writes have replicas or none has, and
streams, which go past the pool, are used in the second case only (`Session`).
Within that process a replica's file is as long as the primary's, or shorter by
the one request on its way to it (`Aligned`), unless the group is in `apart` or
`short`. From that, what a replica has answered is at the primary's address
(`Answered`) and stays there (`Alike`). That the next id is above all others is the
existence of a greatest element, taken from the well-foundedness of `<` on the
naturals.

Only model-checked: the properties of `Calls`. Out of the prover's
reach are liveness (`CallsAnswered`, `LinesSynced`,
`OpsFinish`, `LocksGranted`, `GetEnds`, `PublishEnds`, `CloseEnds`, `CallEnds`,
`ShutdownEnds`), the `ENABLED` of `NeverStuck`, and `Glob`, whose
recursion needs an induction over strings.

## 5. Not modelled

- `HashIndex`: growth of the bucket table in `Compact`, a failing reopen there, an
  `index.hash.tmp` with half a header, which makes every later `Compact` fail.
- `Store`: a power loss keeps the order in which the file system commits renames
  and truncations, and a `wal.log` that `Compact` rewrote is on the disk as a whole
  or not at all. An entry that was published in memory and not persisted counts as
  written; that a crash loses it is in `HashIndex`. When a flush fails without
  `FsyncAlways`, which later caller gets the error is in `WalFlusher`; in `Store`
  any may.
- `VolumePool`: `EnsureVolume`, old or damaged registry files, remote servers
  added or removed between starts, partial writes on a remote server.
- `Transactions`: blob operations (they bypass the stack), failing commits
  (in `Store`), the sweep.
- `Replication`: recovery of either side (the replica's copy is kept as it is).
- `Calls`: the commands differ in text only and are one kind of call; values with
  line breaks, which the line protocol does not delimit; `cursor + count` is far
  below 2^63.
- `Blobs`: malformed `Range` headers, which are answered 416; the JSON listings
  (their SCAN takes negative cursors, which the TCP server refuses); HEAD and
  the TTL header, which are answered from the lookup alone.
- Commands and HTTP as text, configuration, the programs' flags, the command
  line client, logging.
- `ioring*.go`: no caller.

## 6. Possible extensions

The safety of `Calls` as theorems; `Store` over the detailed
`WalFlusher` in one module; replicas of replicas.
