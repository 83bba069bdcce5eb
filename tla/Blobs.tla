------------------------------- MODULE Blobs --------------------------------
(***************************************************************************)
(* The HTTP API for blobs (blobserver/server.go) over the session's blob    *)
(* operations (session.go), with VolumePool.Read going through the cache    *)
(* (volumepool.go, LRUCache).  Requests run at the same time: a GET looks   *)
(* up the key's address first and reads the blob later, when the key may    *)
(* have another blob or none; two GETs may both miss the cache and fill it. *)
(*                                                                          *)
(* A blob's address is its number; its bytes are pairs of that number and   *)
(* their position, so that bytes of different blobs differ.                 *)
(***************************************************************************)
EXTENDS LRUCache

CONSTANTS
  Keys, Requests,
  None,           \* no blob; not a number
  Sizes,          \* sizes of blobs
  Ranges,         \* Range headers
  CacheSizes,     \* capacities the cache may have, 0 for no cache
  MaxPuts         \* bound: blobs written

VARIABLES
  index,    \* the address of each key's blob, or None
  blobs,    \* the sizes of the blobs written, by address
  cache, maxBytes,
  req,      \* what each request is doing
  answer,   \* the answer to a GET, if the last step gave one
  recent    \* history: addresses by their last use of the cache, the latest first

vars == <<index, blobs, cache, maxBytes, req, answer, recent>>

NoRange == [kind |-> "none", from |-> 0, to |-> 0]
RangeHeaders ==
  [kind : {"span", "from", "suffix"}, from : Nat, to : Nat]

ASSUME BlobsConstants ==
  /\ Sizes \subseteq Nat /\ CacheSizes \subseteq Nat /\ MaxPuts \in Nat /\ None \notin Nat
  /\ \A r \in Ranges : r = NoRange \/ r \in RangeHeaders

Request(pc, key, addr, range, start, length) ==
  [pc |-> pc, key |-> key, addr |-> addr, range |-> range, start |-> start, length |-> length]
Idle == Request("idle", None, None, NoRange, 0, 0)

NoAnswer == [status |-> 0, addr |-> None, size |-> 0, range |-> NoRange,
             first |-> 0, last |-> 0, body |-> <<>>]

Data(a) == [i \in 1..blobs[a] |-> <<a, i>>]

Init ==
  /\ index = [k \in Keys |-> None]
  /\ blobs = <<>>
  /\ cache = EmptyCache /\ maxBytes \in CacheSizes
  /\ req = [p \in Requests |-> Idle]
  /\ answer = NoAnswer
  /\ recent = <<>>

-----------------------------------------------------------------------------
(* PUT and DELETE *)

\* putBlob: SetBlob or SetBlobStream writes the volume first.
PutWrite(p) ==
  \E k \in Keys, size \in Sizes :
    /\ req[p].pc = "idle" /\ Len(blobs) < MaxPuts
    /\ blobs' = Append(blobs, size)
    /\ req' = [req EXCEPT ![p] = Request("put", k, Len(blobs) + 1, NoRange, 0, 0)]
    /\ answer' = NoAnswer
    /\ UNCHANGED <<index, cache, maxBytes, recent>>

\* The index, under the key's lock; 201.
PutIndex(p) ==
  LET k == req[p].key IN
  /\ req[p].pc = "put"
  /\ index' = [index EXCEPT ![k] = req[p].addr]
  /\ req' = [req EXCEPT ![p] = Idle]
  /\ answer' = NoAnswer
  /\ UNCHANGED <<blobs, cache, maxBytes, recent>>

\* The body ends early, or the volume or the index fails; the address written
\* to is nobody's.
PutFails(p) ==
  /\ req[p].pc = "put"
  /\ req' = [req EXCEPT ![p] = Idle]
  /\ answer' = NoAnswer
  /\ UNCHANGED <<index, blobs, cache, maxBytes, recent>>

\* deleteBlob, or the key expires.
Delete(k) ==
  /\ index[k] # None
  /\ index' = [index EXCEPT ![k] = None]
  /\ answer' = NoAnswer
  /\ UNCHANGED <<blobs, cache, maxBytes, req, recent>>

-----------------------------------------------------------------------------
(* GET and HEAD *)

Unsatisfiable == [ok |-> FALSE, start |-> 0, length |-> 0]
Part(start, length) == [ok |-> TRUE, start |-> start, length |-> length]

\* Mutant of parseRange: the end is exclusive.
parseRangeExclusive(r, total) ==
  CASE r.kind = "suffix" /\ r.to > 0 ->
         LET start == IF total - r.to < 0 THEN 0 ELSE total - r.to IN Part(start, total - start)
    [] r.kind = "from" /\ r.from < total -> Part(r.from, -1)
    [] r.kind = "span" /\ r.from < total /\ r.to >= r.from ->
         LET end == IF r.to >= total THEN total - 1 ELSE r.to IN Part(r.from, end - r.from)
    [] OTHER -> Unsatisfiable

\* parseRange of a well-formed header; length -1 means to the end.
parseRange(r, total) ==
  CASE r.kind = "suffix" /\ r.to > 0 ->
         LET start == IF total - r.to < 0 THEN 0 ELSE total - r.to IN Part(start, total - start)
    [] r.kind = "from" /\ r.from < total -> Part(r.from, -1)
    [] r.kind = "span" /\ r.from < total /\ r.to >= r.from ->
         LET end == IF r.to >= total THEN total - 1 ELSE r.to IN Part(r.from, end - r.from + 1)
    [] OTHER -> Unsatisfiable

\* What a GET reads of a blob with total bytes.
PartOf(range, total) ==
  IF range = NoRange THEN Part(0, -1) ELSE parseRange(range, total)

\* Mutant of Slice: the part is taken from the blob's beginning.
SliceFromZero(data, start, length) ==
  LET n == Len(data)
      end == IF start + length > n \/ length < 0 THEN n ELSE start + length
  IN IF start >= n THEN <<>> ELSE SubSeq(data, 1, end - start)

\* ReadBlobAt's slice of the data.
Slice(data, start, length) ==
  LET n == Len(data)
      end == IF start + length > n \/ length < 0 THEN n ELSE start + length
  IN IF start >= n THEN <<>> ELSE SubSeq(data, start + 1, end)

\* The answer to request r: its status and body.
Answered(r, status, body) ==
  [status |-> status, addr |-> r.addr, size |-> IF r.addr = None THEN 0 ELSE blobs[r.addr],
   range |-> r.range, first |-> r.start, last |-> r.start + Len(body) - 1, body |-> body]

\* getBlob up to the first read of data.  (HEAD is answered from the lookup alone.)
GetMeta(p) ==
  \E k \in Keys, range \in Ranges :
    LET a == index[k]
        r == Request("idle", None, a, range, 0, 0)
        part == PartOf(range, blobs[a])
    IN
    /\ req[p].pc = "idle"
    /\ IF a # None /\ part.ok
       THEN /\ req' = [req EXCEPT ![p] = Request("lookup", None, a, range,
                                                 part.start, part.length)]
            /\ answer' = NoAnswer
       ELSE /\ answer' = Answered(r, IF a = None THEN 404 ELSE 416, <<>>)
            /\ UNCHANGED req
    /\ UNCHANGED <<index, blobs, cache, maxBytes, recent>>

Used(a) ==
  LET Before == {i \in DOMAIN recent : recent[i] = a}
  IN  <<a>> \o (IF Before = {} THEN recent ELSE RemoveAt(recent, CHOOSE i \in Before : TRUE))

Reply(p, data) ==
  LET r == req[p] IN
  /\ answer' = Answered(r, IF r.range = NoRange THEN 200 ELSE 206, Slice(data, r.start, r.length))
  /\ req' = [req EXCEPT ![p] = Idle]

\* VolumePool.Read looks into the cache.
Lookup(p) ==
  LET a == req[p].addr IN
  /\ req[p].pc = "lookup"
  /\ IF maxBytes > 0 /\ a \in Items(cache)
     THEN /\ Reply(p, Value(cache, a))
          /\ cache' = get(cache, a)
          /\ recent' = Used(a)
     ELSE /\ req' = [req EXCEPT ![p].pc = "load"]
          /\ answer' = NoAnswer
          /\ UNCHANGED <<cache, recent>>
  /\ UNCHANGED <<index, blobs, maxBytes>>

\* It reads a member of the volume group and fills the cache.
Load(p) ==
  LET a == req[p].addr IN
  /\ req[p].pc = "load"
  /\ Reply(p, Data(a))
  /\ IF maxBytes > 0
     THEN /\ set(cache, a, Data(a), maxBytes, cache')
          /\ recent' = IF blobs[a] <= maxBytes THEN Used(a) ELSE recent
     ELSE UNCHANGED <<cache, recent>>
  /\ UNCHANGED <<index, blobs, maxBytes>>

\* No member can be read; 500.
LoadFails(p) ==
  /\ req[p].pc = "load"
  /\ answer' = Answered(req[p], 500, <<>>)
  /\ req' = [req EXCEPT ![p] = Idle]
  /\ UNCHANGED <<index, blobs, cache, maxBytes, recent>>

-----------------------------------------------------------------------------
Next ==
  \/ \E p \in Requests :
       PutWrite(p) \/ PutIndex(p) \/ PutFails(p) \/ GetMeta(p) \/ Lookup(p) \/ Load(p) \/ LoadFails(p)
  \/ \E k \in Keys : Delete(k)

Spec == Init /\ [][Next]_vars

-----------------------------------------------------------------------------
(* Properties *)

Addresses == 1..Len(blobs)
Entries == [key : Addresses, value : Seq(Addresses \X Nat)]

Statuses == {0, 200, 206, 404, 416, 500}  \* 0: no answer

\* Every variable has its type (for cache.curBytes see CacheCounts).
TypeOK ==
  /\ blobs \in Seq(Sizes) /\ Len(blobs) <= MaxPuts
  /\ index \in [Keys -> Addresses \cup {None}]
  /\ cache.list \in Seq(Entries) /\ maxBytes \in CacheSizes
  /\ req \in [Requests -> [pc : {"idle", "put", "lookup", "load"}, key : Keys \cup {None},
                           addr : Addresses \cup {None}, range : Ranges \cup {NoRange},
                           start : Nat, length : Int]]
  /\ answer.status \in Statuses
  /\ recent \in Seq(Addresses)

\* The cache counts its bytes truly, however requests interleave, and never more
\* than it may ("byte-bounded"); it holds no blob twice; and the loop that makes
\* room for a blob that fits ends.  Were curBytes too high, it would not, with the
\* cache's lock held.
CacheCounts ==
  /\ cache.curBytes = Bytes(cache.list) /\ cache.curBytes <= maxBytes
  /\ \A i, j \in DOMAIN cache.list : cache.list[i].key = cache.list[j].key => i = j
  /\ \A size \in 0..maxBytes : Rounds(cache, size, maxBytes) # {}

\* What stays in the cache is what was used last: a blob used after one that is
\* in the cache is in the cache, and the list has the order of use.
KeepsRecent ==
  /\ Len(cache.list) <= Len(recent)
  /\ \A i \in DOMAIN cache.list : cache.list[i].key = recent[i]

\* An answer has bytes of one blob only, the one that was the key's when the
\* request looked it up and whose size the headers give, though the key
\* changes and blobs come and go in the cache meanwhile ("cached entries are
\* always valid").
AnswerWhole ==
  \A i \in DOMAIN answer.body : answer.body[i] = <<answer.addr, answer.first + i>>

\* The positions a request asks for, of a blob with total bytes.
Wanted(r, total) ==
  {i \in 0..(total - 1) :
     CASE r.kind = "none"   -> TRUE
       [] r.kind = "span"   -> r.from <= i /\ i <= r.to
       [] r.kind = "from"   -> r.from <= i
       [] r.kind = "suffix" -> i >= total - r.to}

\* A Range request gets exactly the bytes asked for that the blob has, with a
\* Content-Range that says which; it is refused if there are none.
\* (An empty blob is no exception but for suffix ranges.)
RangeExact ==
  LET want == Wanted(answer.range, answer.size) IN
  /\ answer.status \in {200, 206} =>
       want = {answer.first + i - 1 : i \in DOMAIN answer.body}
  /\ answer.status = 206 /\ answer.size > 0 =>
       answer.first <= answer.last /\ want = answer.first..answer.last
  /\ answer.status = 416 => want = {}

\* parseRange: "(start, length) clamped to [0, total)".
RangeInside == answer.status = 206 => answer.first < answer.size
=============================================================================
