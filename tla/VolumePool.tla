------------------------------ MODULE VolumePool ------------------------------
(***************************************************************************)
(* Blob storage: the local VolumeManager (volume.go) and the VolumePool     *)
(* over it (volumepool.go), which spreads every blob of a volume group over *)
(* the local manager and remote volume servers.  Several writers run at     *)
(* once; requests to remote servers can time out before or after they are   *)
(* carried out; the master process can crash and start again.               *)
(*                                                                          *)
(* A volume file is a sequence of cells: a blob of size n is a header cell  *)
(* with n followed by n payload cells with the blob's number.               *)
(***************************************************************************)
EXTENDS Integers, Sequences, FiniteSets

CONSTANTS
  Writers, Local,
  Remotes,              \* the remote servers, a sequence
  Factors,              \* replication factors the process may be started with
  NumDrives, Sizes,
  MaxVolumeSize,        \* in cells
  Streams,              \* is WriteStream in play?
  ShortStreams,         \* may a stream end before or after its announced size?
  DiskFails,            \* may a local write stop half way?
  Timeouts,             \* may a request to a remote server fail?
  MaxBlobs, MaxCrashes  \* bounds

None == -1
Members == {Local} \cup {Remotes[i] : i \in DOMAIN Remotes}
Ids == 0 .. (NumDrives + 2 * MaxBlobs)
Drives == 1 .. NumDrives

ASSUME PoolConstants ==
  /\ Remotes \in Seq({Remotes[i] : i \in DOMAIN Remotes})
  /\ Local \notin {Remotes[i] : i \in DOMAIN Remotes}
  /\ Factors \subseteq Nat \ {0} /\ NumDrives \in Nat \ {0} /\ MaxVolumeSize \in Nat \ {0}
  /\ Sizes \subseteq Nat \ {0} /\ MaxBlobs \in Nat /\ MaxCrashes \in Nat
  /\ \A flag \in {Streams, ShortStreams, DiskFails, Timeouts} : flag \in BOOLEAN

VARIABLES
  up,         \* is the master process running?
  files,      \* per member and volume id, the cells of the file
  exists,     \* per member, the ids of its volume files
  ends,       \* v.end of every open volume
  drive,      \* the drive of every local volume
  vm,         \* the local manager: nextID, driveIdx and driveCurrent
  registry,   \* per group id its members, <<>> for none
  savedReg,   \* vol-registry.json
  nextID, activeGroup,
  replicationFactor,
  w,          \* per writer: pc, blob, size, vol (group or volume), addr, wait
  requests,   \* writes on their way to remote servers
  replies,    \* writes carried out there, not yet known to the writer
  acked,      \* the addresses returned, with the blob written
  nblobs, ncrashes,
  short,      \* history: open volumes in which a local write failed half way
  apart       \* history: groups whose members may differ (see AnyMember)

vars == <<up, files, exists, ends, drive, vm, registry, savedReg, nextID, activeGroup,
          replicationFactor, w, requests, replies, acked, nblobs, ncrashes, short, apart>>

disk == <<files, exists, ends, drive>>
pool == <<registry, savedReg, nextID, activeGroup>>
history == <<short, apart>>

Task(pc, blob, size, vol, off, wait) ==
  [pc |-> pc, blob |-> blob, size |-> size, vol |-> vol, off |-> off, wait |-> wait]
Idle == Task("idle", 0, 0, None, 0, {})

\* The first start on empty drives: one empty volume per drive.
Init ==
  /\ up = TRUE
  /\ files = [m \in Members |-> [i \in Ids |-> <<>>]]
  /\ exists = [m \in Members |-> IF m = Local THEN 0 .. (NumDrives - 1) ELSE {0}]
  /\ ends = [m \in Members |-> [i \in Ids |-> 0]]
  /\ drive = [i \in Ids |-> IF i < NumDrives THEN i + 1 ELSE 1]
  /\ vm = [nextID |-> NumDrives, driveIdx |-> 0, current |-> [d \in Drives |-> d - 1]]
  /\ registry = [i \in Ids |-> IF i < NumDrives THEN <<Local>> ELSE <<>>]
  /\ savedReg = [i \in Ids |-> <<>>]
  /\ nextID = NumDrives /\ activeGroup = None
  /\ replicationFactor \in Factors
  /\ w = [p \in Writers |-> Idle]
  /\ requests = {} /\ replies = {} /\ acked = {}
  /\ nblobs = 0 /\ ncrashes = 0
  /\ short = {} /\ apart = {}

-----------------------------------------------------------------------------
(* Volumes *)

Cells(blob, size) == <<<<"hdr", size>>>> \o [i \in 1 .. size |-> <<"data", blob>>]

\* Mutant of Extended: without O_APPEND the write starts at the head of the file.
ExtendedFromStart(f, cells) == cells \o SubSeq(f, Len(cells) + 1, Len(f))

Extended(f, cells) == f \o cells

\* volume.write at member m: the cells go to the end of the file (O_APPEND), the
\* address comes from v.end.
Append1(m, vol, blob, size) ==
  /\ files' = [files EXCEPT ![m][vol] = Extended(@, Cells(blob, size))]
  /\ ends' = [ends EXCEPT ![m][vol] = @ + 1 + size]
  /\ exists' = [exists EXCEPT ![m] = @ \cup {vol}]

\* volume.write or writeStream that returns an error: n cells are written, one more
\* than the blob's if the stream is too long; v.end stays.
AppendPart(m, vol, blob, size, n) ==
  /\ files' = [files EXCEPT ![m][vol] = Extended(@, SubSeq(Cells(blob, size) \o <<<<"data", blob>>>>, 1, n))]
  /\ exists' = [exists EXCEPT ![m] = @ \cup {vol}]
  /\ UNCHANGED ends

\* volume.read at member m: the blob whose cells are there, None on an error or
\* a size that does not match, 0 for a payload that is no single blob's.
ReadAt(m, a) ==
  LET f == files[m][a.vol] IN
  IF a.vol \notin exists[m] \/ a.off + 1 + a.size > Len(f) THEN None
  ELSE IF f[a.off + 1] # <<"hdr", a.size>> THEN None
  ELSE LET cells == {f[i] : i \in (a.off + 2) .. (a.off + 1 + a.size)} IN
       IF cells = {<<"data", a.blob>>} THEN a.blob ELSE 0

\* The members Read tries for an address, in order.
ReadFrom(a) == IF registry[a.vol] = <<>> THEN <<Local>> ELSE registry[a.vol]

-----------------------------------------------------------------------------
(* Writers *)

Min2(x, y) == IF x < y THEN x ELSE y

\* getOrCreateGroup reuses the active group while its local volume has room.
HasRoom ==
  /\ activeGroup # None
  /\ activeGroup \in exists[Local]
  /\ ends[Local][activeGroup] < MaxVolumeSize

GroupMembers == SubSeq(<<Local>> \o Remotes, 1, Min2(replicationFactor, 1 + Len(Remotes)))

\* getOrCreateGroup, which saves the registry before the group is used.
getOrCreateGroup(g) ==
  \/ HasRoom /\ g = activeGroup /\ UNCHANGED pool
  \/ /\ ~HasRoom /\ g = nextID
     /\ nextID' = nextID + 1
     /\ registry' = [registry EXCEPT ![g] = GroupMembers]
     /\ activeGroup' = g
     /\ savedReg' = registry'

\* The registry cannot be saved: Write returns the error, the group stays active.
GroupUnsaved(p) ==
  /\ up /\ DiskFails /\ w[p].pc = "idle" /\ nblobs < MaxBlobs /\ ~HasRoom
  /\ nblobs' = nblobs + 1
  /\ nextID' = nextID + 1
  /\ registry' = [registry EXCEPT ![nextID] = GroupMembers]
  /\ activeGroup' = nextID
  /\ UNCHANGED <<up, disk, vm, savedReg, replicationFactor, w, requests, replies, acked, ncrashes, history>>

\* WriteStream into a group with replicas calls getOrCreateGroup for itself, and again
\* in the Write that follows if the stream can be read: the group made here has no
\* volume by then, and stays empty.  (While there is room it changes nothing.)
BufferStream(p) ==
  /\ up /\ Streams /\ w[p].pc = "idle" /\ nblobs < MaxBlobs /\ ~HasRoom
  /\ Len(GroupMembers) > 1
  /\ nblobs' = nblobs + 1
  /\ getOrCreateGroup(nextID)
  /\ UNCHANGED <<up, disk, vm, replicationFactor, w, requests, replies, acked, ncrashes, history>>

\* VolumePool.Write, and WriteStream into a group of one local member or, once
\* the stream is buffered, as a Write.
Write(p) ==
  /\ up /\ w[p].pc = "idle" /\ nblobs < MaxBlobs
  /\ nblobs' = nblobs + 1
  /\ \E size \in Sizes, g \in Ids, stream \in IF Streams THEN BOOLEAN ELSE {FALSE} :
       /\ getOrCreateGroup(g)
       /\ w' = [w EXCEPT ![p] =
                  Task(IF stream /\ Len(GroupMembers) = 1 THEN "pick" ELSE "primary",
                       nblobs + 1, size, g, 0, {})]
  /\ UNCHANGED <<up, disk, vm, replicationFactor, requests, replies, acked, ncrashes, history>>

\* VolumeManager.WriteStream chooses the drive in turn and rotates a full volume.
PickDrive(p) ==
  LET d == (vm.driveIdx % NumDrives) + 1
      v == vm.current[d]
      full == ends[Local][v] >= MaxVolumeSize
      id == IF full THEN vm.nextID ELSE v
  IN
  /\ up /\ w[p].pc = "pick" /\ id \in Ids
  /\ vm' = [nextID |-> IF full THEN id + 1 ELSE vm.nextID, driveIdx |-> vm.driveIdx + 1,
            current |-> [vm.current EXCEPT ![d] = id]]
  /\ exists' = [exists EXCEPT ![Local] = @ \cup {id}]
  /\ drive' = IF full THEN [drive EXCEPT ![id] = d] ELSE drive
  /\ w' = [w EXCEPT ![p] = Task("stream", w[p].blob, w[p].size, id, 0, {})]
  /\ UNCHANGED <<up, files, ends, pool, replicationFactor, requests, replies, acked, nblobs, ncrashes,
                 history>>

AddressAt(p, off) == [vol |-> w[p].vol, off |-> off, size |-> w[p].size, blob |-> w[p].blob]
Address(p) == AddressAt(p, w[p].off)

\* WriteToVolume makes the volume known to the manager.
Know(vol) == [vm EXCEPT !.nextID = IF vol >= @ THEN vol + 1 ELSE @]

Replicas(g) == {registry[g][i] : i \in 2 .. Len(registry[g])}

\* The answer of a write that is complete, with what may be expected of it (see
\* ReadBack and AnyMember).
Acknowledge(p, a) ==
  LET whole == a.vol \notin short
      alike == a.vol \notin apart /\ (w[p].pc = "stream" => Replicas(a.vol) = {})
  IN
  /\ acked' = acked \cup {[addr |-> a, whole |-> whole, alike |-> whole /\ alike]}
  /\ w' = [w EXCEPT ![p] = Idle]

\* The local write; with replicas, one request to each of them follows.
LocalWrite(p) ==
  LET vol == w[p].vol
      a == AddressAt(p, ends[Local][vol])
      targets == IF w[p].pc = "primary" THEN Replicas(vol) ELSE {}
  IN
  /\ up /\ w[p].pc \in {"primary", "stream"}
  /\ Append1(Local, vol, w[p].blob, w[p].size)
  /\ vm' = Know(vol)
  /\ requests' = requests \cup {[to |-> m, addr |-> a] : m \in targets}
  /\ IF targets = {}
       THEN Acknowledge(p, a)
       ELSE /\ w' = [w EXCEPT ![p] = Task("replicas", a.blob, a.size, vol, a.off, targets)]
            /\ UNCHANGED acked
  /\ apart' = apart \cup {g \in {vol} : \E r \in requests \cup replies : r.addr.vol = g}
  /\ UNCHANGED <<up, drive, pool, replicationFactor, replies, nblobs, ncrashes, short>>

\* The local write fails half way, or the stream is too short or too long.
LocalWriteFails(p) ==
  /\ up /\ \/ DiskFails /\ w[p].pc \in {"primary", "stream"}
           \/ ShortStreams /\ w[p].pc = "stream"
  /\ \E n \in 0 .. w[p].size \cup {m \in {2 + w[p].size} : ShortStreams /\ w[p].pc = "stream"} :
       /\ AppendPart(Local, w[p].vol, w[p].blob, w[p].size, n)
       /\ short' = IF n = 0 THEN short ELSE short \cup {w[p].vol}
  /\ vm' = Know(w[p].vol)
  /\ w' = [w EXCEPT ![p] = Idle]
  /\ UNCHANGED <<up, drive, pool, replicationFactor, requests, replies, acked, nblobs, ncrashes, apart>>

\* The remote volume server carries out a write, at the end of its own file.
RemoteWrite(r) ==
  /\ r \in requests
  /\ requests' = requests \ {r}
  /\ Append1(r.to, r.addr.vol, r.addr.blob, r.addr.size)
  /\ replies' = replies \cup {r}
  /\ UNCHANGED <<up, drive, vm, pool, replicationFactor, w, acked, nblobs, ncrashes, history>>

\* Mutant of Result: the offset of the replica that answered last.
ResultOfReplica(p, m) == AddressAt(p, ends[m][w[p].vol] - 1 - w[p].size)

\* Write returns the primary's offset.
Result(p, m) == Address(p)

\* A replica's success reaches the writer; the last one completes the write.
ReplicaDone(p, m) ==
  LET r == [to |-> m, addr |-> Address(p)] IN
  /\ up /\ w[p].pc = "replicas" /\ m \in w[p].wait /\ r \in replies
  /\ replies' = replies \ {r}
  /\ IF w[p].wait = {m}
       THEN Acknowledge(p, Result(p, m))
       ELSE /\ w' = [w EXCEPT ![p].wait = @ \ {m}]
            /\ UNCHANGED acked
  /\ UNCHANGED <<up, disk, vm, pool, replicationFactor, requests, nblobs, ncrashes, history>>

\* A request to a replica fails: before it is carried out (it may still be, later,
\* if it was only slow) or after.  Write returns at the first error.
ReplicaFails(p, m) ==
  /\ up /\ Timeouts /\ w[p].pc = "replicas" /\ m \in w[p].wait
  /\ w' = [w EXCEPT ![p] = Idle]
  /\ replies' = {r \in replies : r.addr.blob # w[p].blob}
  /\ apart' = apart \cup {w[p].vol}
  /\ UNCHANGED <<up, disk, vm, pool, replicationFactor, requests, acked, nblobs, ncrashes, short>>

-----------------------------------------------------------------------------
(* Crash and start *)

\* The master dies; a local write under way leaves any part of its cells.
Crash ==
  /\ up /\ ncrashes < MaxCrashes
  /\ up' = FALSE /\ ncrashes' = ncrashes + 1
  /\ \/ UNCHANGED <<files, exists, ends>>
     \/ \E p \in Writers : /\ w[p].pc \in {"primary", "stream"}
                           /\ \E n \in 0 .. (1 + w[p].size) :
                                AppendPart(Local, w[p].vol, w[p].blob, w[p].size, n)
  /\ w' = [p \in Writers |-> Idle]
  /\ replies' = {}
  /\ UNCHANGED <<drive, vm, pool, replicationFactor, requests, acked, nblobs, history>>

\* Close saves the registry; writers still at work find their files closed.
Close ==
  /\ up /\ ncrashes < MaxCrashes
  /\ up' = FALSE /\ ncrashes' = ncrashes + 1
  /\ savedReg' = registry
  /\ w' = [p \in Writers |-> Idle]
  /\ replies' = {}
  /\ UNCHANGED <<disk, vm, registry, nextID, activeGroup, replicationFactor, requests, acked, nblobs,
                 history>>

MaxId(S) == IF S = {} THEN None ELSE CHOOSE i \in S : \A j \in S : j <= i

FirstFree(reg) == MaxId(exists[Local] \cup {i \in Ids : reg[i] # <<>>}) + 1

EndOnOpen(f) == Len(f)

\* Mutant of ActiveOnOpen: the newest group is written to again.
ActiveOnOpenLast(reg) == MaxId({i \in Ids : reg[i] # <<>>})

ActiveOnOpen(reg) == None

\* newVolumeManager opens every volume it finds, newVolumePool reads the registry
\* and adds the local volumes it does not know.  The operator may have changed the
\* replication factor.
Open ==
  LET mine(d) == {i \in exists[Local] : drive[i] = d}
      reg == [i \in Ids |-> IF savedReg[i] = <<>> /\ i \in exists[Local] THEN <<Local>>
                            ELSE savedReg[i]]
  IN
  /\ ~up /\ up' = TRUE
  /\ ends' = [ends EXCEPT ![Local] = [i \in Ids |-> EndOnOpen(files[Local][i])]]
  /\ vm' = [nextID |-> MaxId(exists[Local]) + 1, driveIdx |-> 0,
            current |-> [d \in Drives |-> MaxId(mine(d))]]
  /\ registry' = reg
  /\ nextID' = FirstFree(reg)
  /\ activeGroup' = ActiveOnOpen(reg)
  /\ replicationFactor' \in Factors
  /\ short' = {}
  /\ UNCHANGED <<files, exists, drive, savedReg, w, requests, replies, acked, nblobs, ncrashes, apart>>

Next ==
  \/ \E p \in Writers :
       \/ Write(p) \/ BufferStream(p) \/ GroupUnsaved(p) \/ PickDrive(p) \/ LocalWrite(p) \/ LocalWriteFails(p)
       \/ \E m \in Members : ReplicaDone(p, m) \/ ReplicaFails(p, m)
  \/ \E r \in requests : RemoteWrite(r)
  \/ Crash \/ Close \/ Open

Spec == Init /\ [][Next]_vars

-----------------------------------------------------------------------------
(* Properties *)

Addr == [vol : Ids, off : Nat, size : Sizes, blob : 1 .. MaxBlobs]

\* Every variable keeps its type; v.end is never past the end of the file, and the
\* next volume id and the next group id are fresh.
TypeOK ==
  /\ up \in BOOLEAN
  /\ \A m \in Members, i \in Ids : /\ files[m][i] # <<>> => i \in exists[m]
                                   /\ ends[m][i] \in 0 .. Len(files[m][i])
  /\ exists \in [Members -> SUBSET Ids]
  /\ drive \in [Ids -> Drives]
  /\ vm.nextID \in Nat /\ vm.driveIdx \in Nat /\ vm.current \in [Drives -> exists[Local]]
  /\ up => \A i \in exists[Local] : i < vm.nextID
  /\ nextID \in Nat /\ \A i \in Ids : registry[i] # <<>> => i < nextID
  /\ activeGroup \in Nat \cup {None}
  /\ replicationFactor \in Factors
  /\ acked \subseteq [addr : Addr, whole : BOOLEAN, alike : BOOLEAN]
  /\ \A r \in requests \cup replies : r.addr \in Addr /\ r.to \in Members
  /\ short \subseteq Ids /\ apart \subseteq Ids

\* An address that Write returned reads back, from the primary, the blob that was
\* written, through rotation, other writers, replicas that fail, crashes and
\* restarts: "On read: seek to Offset, verify size header, return payload."
\* Excepted are addresses from a volume in which a write failed half way, or a
\* stream had another size than announced, since it was opened: its v.end is behind the file.
ReadBack == up => \A x \in acked : x.whole => ReadAt(ReadFrom(x.addr)[1], x.addr) = x.addr.blob

\* ReadBack from every member of the group: "a NeedleAddr read against any member
\* returns the correct data".  That takes more: no request to a replica of the
\* group has failed, no write of the group has started while another one was still
\* on its way to the replicas, and the blob is no stream that went into the volume
\* of an older, replicated group because the replication factor has been lowered.
\* A crash between the members does no harm: the next process starts a new group.
AnyMember ==
  up => \A x \in acked : x.alike =>
          \A i \in DOMAIN ReadFrom(x.addr) : ReadAt(ReadFrom(x.addr)[i], x.addr) = x.addr.blob

\* A blob that can be read at an address stays there: "volumes are append-only,
\* addresses are never invalidated", whatever writes fail and whenever the process
\* restarts.
AddressesStable ==
  [][\A x \in acked, m \in Members :
       ReadAt(m, x.addr) = x.addr.blob => ReadAt(m, x.addr)' = x.addr.blob]_vars
=============================================================================
