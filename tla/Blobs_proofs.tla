---------------------------- MODULE Blobs_proofs ----------------------------
(* Proofs about Blobs: an answer's bytes are those of the blob looked up        *)
(* (AnswerWhole) and exactly those the Range header asks for (RangeExact), for  *)
(* every size of blob and of cache, every range and any number of requests.     *)
EXTENDS Blobs, TLAPS

-----------------------------------------------------------------------------
(* Lists of entries *)
\* The part of a list from one position to another.
LEMMA SeqPart ==
  ASSUME NEW S, NEW q \in Seq(S), NEW m \in 1..(Len(q) + 1), NEW n \in (m - 1)..Len(q)
  PROVE  /\ SubSeq(q, m, n) \in Seq(S) /\ Len(SubSeq(q, m, n)) = n - m + 1
         /\ \A i \in 1..(n - m + 1) : SubSeq(q, m, n)[i] = q[m + i - 1]
OBVIOUS

\* One list after another.
LEMMA SeqJoin ==
  ASSUME NEW S, NEW p \in Seq(S), NEW q \in Seq(S)
  PROVE  /\ p \o q \in Seq(S) /\ Len(p \o q) = Len(p) + Len(q)
         /\ \A i \in 1..(Len(p) + Len(q)) :
              (p \o q)[i] = IF i <= Len(p) THEN p[i] ELSE q[i - Len(p)]
OBVIOUS

LEMMA RemoveAtStays ==
  ASSUME NEW S, NEW s \in Seq(S), NEW i \in DOMAIN s
  PROVE  RemoveAt(s, i) \in Seq(S)
<1>1. i \in Int /\ Len(s) \in Nat /\ i <= Len(s) /\ 1 <= i
  OBVIOUS
<1>2. SubSeq(s, 1, i - 1) \in Seq(S)
  <2>1. \A j \in 1..(i - 1) : s[j] \in S
    BY <1>1
  <2> QED
    BY <1>1, <2>1, SeqPart
<1>3. SubSeq(s, i + 1, Len(s)) \in Seq(S)
  <2>1. \A j \in (i + 1)..Len(s) : s[j] \in S
    BY <1>1
  <2> QED
    BY <1>1, <2>1, SeqPart
<1> QED
  BY <1>2, <1>3 DEF RemoveAt

LEMMA PushStays ==
  ASSUME NEW S, NEW s \in Seq(S), NEW e \in S
  PROVE  <<e>> \o s \in Seq(S)
  OBVIOUS

\* The entries a cache may hold, given the sizes of the blobs.
TrueEntries == {Entry(a, Data(a)) : a \in Addresses}

LEMMA Found ==
  ASSUME NEW c, c.list \in Seq(TrueEntries), NEW a, a \in Items(c)
  PROVE  /\ Position(c, a) \in DOMAIN c.list
         /\ c.list[Position(c, a)] = Entry(a, Data(a))
         /\ a \in Addresses
<1>1. \E i \in DOMAIN c.list : c.list[i].key = a
  BY Zenon DEF Items
<1>2. Position(c, a) \in DOMAIN c.list /\ c.list[Position(c, a)].key = a
  BY <1>1, Zenon DEF Position
<1>3. c.list[Position(c, a)] \in TrueEntries
  BY <1>2
<1>4. PICK b \in Addresses : c.list[Position(c, a)] = Entry(b, Data(b))
  BY <1>3, Zenon DEF TrueEntries
<1>5. b = a
  BY <1>2, <1>4 DEF Entry
<1> QED
  BY <1>2, <1>4, <1>5, Zenon

LEMMA ValueIsData ==
  ASSUME NEW c, c.list \in Seq(TrueEntries), NEW a, a \in Items(c)
  PROVE  Value(c, a) = Data(a)
<1>1. c.list[Position(c, a)] = Entry(a, Data(a))
  BY Found, Zenon
<1> QED
  BY <1>1 DEF Value, Entry

LEMMA GetStays ==
  ASSUME NEW c, c = [list |-> c.list, curBytes |-> c.curBytes],
         c.list \in Seq(TrueEntries), NEW a
  PROVE  /\ get(c, a) = [list |-> get(c, a).list, curBytes |-> get(c, a).curBytes]
         /\ get(c, a).list \in Seq(TrueEntries)
<1>1. CASE a \notin Items(c)
  BY <1>1, Zenon DEF get
<1>2. CASE a \in Items(c)
  <2> DEFINE i == Position(c, a)
             l == MoveToFront(c.list, i)
  <2>1. i \in DOMAIN c.list
    BY <1>2, Found, Zenon
  <2>2. c.list[i] \in TrueEntries
    BY <2>1
  <2>3. RemoveAt(c.list, i) \in Seq(TrueEntries)
    BY <2>1, RemoveAtStays, Zenon
  <2>4. l \in Seq(TrueEntries)
    BY <2>2, <2>3, PushStays, Zenon DEF MoveToFront
  <2> HIDE DEF l
  <2>5. get(c, a) = [c EXCEPT !.list = l]
    BY <1>2, Zenon DEF get, l
  <2>6. get(c, a) = [list |-> l, curBytes |-> c.curBytes]
    BY <2>5, Zenon
  <2> QED
    BY <2>4, <2>6
<1> QED
  BY <1>1, <1>2, Zenon

LEMMA SetStays ==
  ASSUME NEW c, c = [list |-> c.list, curBytes |-> c.curBytes],
         c.list \in Seq(TrueEntries), NEW a \in Addresses, NEW m, NEW new,
         set(c, a, Data(a), m, new)
  PROVE  /\ new = [list |-> new.list, curBytes |-> new.curBytes]
         /\ new.list \in Seq(TrueEntries)
<1>0. Entry(a, Data(a)) \in TrueEntries
  BY Zenon DEF TrueEntries
<1>1. CASE new = c
  BY <1>1, Zenon
<1>2. CASE a \in Items(c) /\ new = Refresh(c, Position(c, a), Data(a))
  <2> DEFINE i == Position(c, a)
  <2>1. i \in DOMAIN c.list /\ c.list[i] = Entry(a, Data(a))
    BY <1>2, Found, Zenon
  <2>2. [c.list[i] EXCEPT !.value = Data(a)] = Entry(a, Data(a))
    BY <2>1 DEF Entry
  <2>3. RemoveAt(c.list, i) \in Seq(TrueEntries)
    BY <2>1, RemoveAtStays, Zenon
  <2>4. <<Entry(a, Data(a))>> \o RemoveAt(c.list, i) \in Seq(TrueEntries)
    BY <1>0, <2>3, PushStays, Zenon
  <2> QED
    BY <1>2, <2>2, <2>4, Zenon DEF Refresh
<1>3. ASSUME NEW n \in Rounds(c, Len(Data(a)), m), new = PushFront(evictLRU(c, n), a, Data(a))
      PROVE  /\ new = [list |-> new.list, curBytes |-> new.curBytes]
             /\ new.list \in Seq(TrueEntries)
  <2> DEFINE l == SubSeq(c.list, 1, Len(c.list) - n)
  <2>1. n \in 0..Len(c.list) /\ Len(c.list) \in Nat
    BY <1>3 DEF Rounds
  <2>2. \A j \in 1..(Len(c.list) - n) : c.list[j] \in TrueEntries
    BY <2>1
  <2>3. l \in Seq(TrueEntries)
    BY <2>1, <2>2, SeqPart
  <2>4. <<Entry(a, Data(a))>> \o l \in Seq(TrueEntries)
    BY <1>0, <2>3, PushStays, Zenon
  <2> QED
    BY <1>3, <2>4, Zenon DEF PushFront, evictLRU
<1> QED
  BY <1>1, <1>2, <1>3, Zenon DEF set

-----------------------------------------------------------------------------
(* Parts of blobs *)

\* The length of a slice of n bytes.
SliceLen(n, start, length) ==
  IF start >= n THEN 0
  ELSE IF start + length > n \/ length < 0 THEN n - start ELSE length

\* The bytes of the blob at address a, by position.
BytesOf(a) == {a} \X Nat

LEMMA SliceIs ==
  ASSUME NEW a, NEW n \in Nat, NEW start \in Nat, NEW length \in Int,
         NEW data \in Seq(BytesOf(a)), Len(data) = n, \A i \in 1..n : data[i] = <<a, i>>,
         NEW b, b = Slice(data, start, length)
  PROVE  /\ DOMAIN b = 1..SliceLen(n, start, length) /\ Len(b) = SliceLen(n, start, length)
         /\ SliceLen(n, start, length) \in Nat
         /\ \A i \in DOMAIN b : b[i] = <<a, start + i>>
<1> DEFINE end == IF start + length > n \/ length < 0 THEN n ELSE start + length
<1>2. CASE start >= n
  BY <1>2 DEF Slice, SliceLen
<1>3. CASE start < n
  <2>1. end \in Int /\ start <= end /\ end <= n /\ end - start = SliceLen(n, start, length)
    BY <1>3 DEF SliceLen
  <2>2. b = SubSeq(data, start + 1, end)
    BY <1>3 DEF Slice
  <2> DEFINE first == start + 1
  <2> HIDE DEF end
  <2>3. \A i \in first..end : data[i] = <<a, i>> /\ data[i] \in BytesOf(a)
    BY <2>1
  <2>4. /\ b \in Seq(BytesOf(a))
        /\ Len(b) = IF first <= end THEN end - first + 1 ELSE 0
        /\ \A i \in 1..(end - first + 1) : b[i] = data[first + i - 1]
    <3>1. first \in Int /\ end \in Int /\ b = SubSeq(data, first, end)
      BY <2>1, <2>2
    <3> HIDE DEF first
    <3> QED
      BY <2>3, <3>1, SeqPart, SMTT(30)
  <2>5. Len(b) = end - start /\ DOMAIN b = 1..(end - start)
    BY <2>1, <2>4
  <2>6. ASSUME NEW i \in 1..(end - start) PROVE b[i] = <<a, start + i>>
    <3>1. b[i] = data[start + i]
      BY <2>1, <2>4
    <3> QED
      BY <2>1, <2>3, <3>1
  <2>7. SliceLen(n, start, length) \in Nat
    BY <2>1
  <2> QED
    BY <2>1, <2>5, <2>6, <2>7, Zenon
<1> QED
  BY <1>2, <1>3

\* The positions in a part that starts at start and has n bytes.
Positions(start, n) == {start + i - 1 : i \in 1..n}

LEMMA PositionsAre ==
  ASSUME NEW start \in Nat, NEW n \in Nat
  PROVE  Positions(start, n) = start..(start + n - 1)
<1>1. ASSUME NEW x \in start..(start + n - 1) PROVE x \in Positions(start, n)
  <2>1. x - start + 1 \in 1..n /\ x = start + (x - start + 1) - 1
    OBVIOUS
  <2> QED
    BY <2>1, Zenon DEF Positions
<1>2. ASSUME NEW x \in Positions(start, n) PROVE x \in start..(start + n - 1)
  <2>1. PICK i \in 1..n : x = start + i - 1
    BY Zenon DEF Positions
  <2> QED
    BY <2>1
<1> QED
  BY <1>1, <1>2, Zenon

\* parseRange and Slice together give the bytes asked for; a range is refused
\* only if it asks for none.
LEMMA PartIsWanted ==
  ASSUME NEW r, r = NoRange \/ r \in RangeHeaders, NEW total \in Nat
  PROVE  LET part == PartOf(r, total)
             n == SliceLen(total, part.start, part.length)
         IN /\ part.ok \in BOOLEAN /\ part.start \in Nat /\ part.length \in Int
            /\ part.ok => Wanted(r, total) = part.start..(part.start + n - 1)
            /\ part.ok /\ r # NoRange /\ total > 0 => n > 0
            /\ ~part.ok => r # NoRange /\ Wanted(r, total) = {}
<1> DEFINE part == PartOf(r, total)
           n == SliceLen(total, part.start, part.length)
<1>1. CASE r = NoRange
  <2>1. part = Part(0, -1)
    BY <1>1, Zenon DEF PartOf
  <2>2. part.ok = TRUE /\ part.start = 0 /\ part.length = -1
    BY <2>1 DEF Part
  <2>3. n = total
    BY <2>2 DEF SliceLen
  <2>4. Wanted(r, total) = 0..(total - 1)
    BY <1>1, Zenon DEF Wanted, NoRange
  <2>a. part.ok /\ part.start \in Nat /\ part.length \in Int
    BY <2>2
  <2>b. Wanted(r, total) = part.start..(part.start + n - 1)
    BY <2>2, <2>3, <2>4, SMTT(30)
  <2>c. r # NoRange /\ total > 0 => n > 0
    BY <1>1, <2>2, <2>3, <2>4, Zenon
  <2> HIDE DEF part, n
  <2>d. part.ok \in BOOLEAN
    BY <2>2, Zenon
  <2> QED
    BY <2>a, <2>b, <2>c, <2>d, Zenon DEF part, n
<1>2. CASE r # NoRange /\ r.kind = "suffix"
  <2>0. r.to \in Nat /\ part = parseRange(r, total)
    BY <1>2, Zenon DEF RangeHeaders, PartOf
  <2>1. Wanted(r, total) = {i \in 0..(total - 1) : i >= total - r.to}
    BY <1>2, Zenon DEF Wanted
  <2>2. CASE r.to = 0
    <3>1. part = Unsatisfiable
      BY <1>2, <2>0, <2>2, SMTT(30) DEF parseRange
    <3> QED
      BY <1>2, <2>1, <2>2, <3>1, SMTT(30) DEF Unsatisfiable
  <2>3. CASE r.to > 0
    <3> DEFINE start == IF total - r.to < 0 THEN 0 ELSE total - r.to
    <3>1. part = Part(start, total - start)
      BY <1>2, <2>0, <2>3, Zenon DEF parseRange
    <3>2. part.ok = TRUE /\ part.start = start /\ part.length = total - start
      BY <3>1 DEF Part
    <3>3. start \in Nat /\ start <= total /\ (total > 0 => start < total)
      BY <2>0, <2>3, SMTT(30)
    <3>4. n = total - start
      BY <3>2, <3>3 DEF SliceLen
    <3>5. Wanted(r, total) = start..(total - 1)
      BY <2>0, <2>1, <2>3, SMTT(30)
    <3>a. part.ok /\ part.start \in Nat /\ part.length \in Int
      BY <3>2, <3>3
    <3>b. Wanted(r, total) = part.start..(part.start + n - 1)
      BY <3>2, <3>3, <3>4, <3>5, SMTT(30)
    <3>c. r # NoRange /\ total > 0 => n > 0
      BY <1>2, <3>2, <3>3, <3>4, <3>5, SMTT(30)
    <3> HIDE DEF part, n
    <3>d. part.ok \in BOOLEAN
      BY <3>2, Zenon
    <3> QED
      BY <3>a, <3>b, <3>c, <3>d, Zenon DEF part, n
  <2> QED
    BY <2>0, <2>2, <2>3
<1>3. CASE r # NoRange /\ r.kind = "from"
  <2>0. r.from \in Nat /\ part = parseRange(r, total)
    BY <1>3, Zenon DEF RangeHeaders, PartOf
  <2>1. Wanted(r, total) = {i \in 0..(total - 1) : r.from <= i}
    BY <1>3, Zenon DEF Wanted
  <2>2. CASE r.from >= total
    <3>1. part = Unsatisfiable
      BY <1>3, <2>0, <2>2, SMTT(30) DEF parseRange
    <3> QED
      BY <1>3, <2>0, <2>1, <2>2, <3>1, SMTT(30) DEF Unsatisfiable
  <2>3. CASE r.from < total
    <3>1. part = Part(r.from, -1)
      BY <1>3, <2>0, <2>3, Zenon DEF parseRange
    <3>2. part.ok = TRUE /\ part.start = r.from /\ part.length = -1
      BY <3>1 DEF Part
    <3>3. n = total - r.from
      BY <2>0, <2>3, <3>2, SMTT(30) DEF SliceLen
    <3>4. Wanted(r, total) = (r.from)..(total - 1)
      BY <2>0, <2>1
    <3>a. part.ok /\ part.start \in Nat /\ part.length \in Int
      BY <3>2, <2>0
    <3>b. Wanted(r, total) = part.start..(part.start + n - 1)
      BY <2>0, <2>3, <3>2, <3>3, <3>4, SMTT(30)
    <3>c. r # NoRange /\ total > 0 => n > 0
      BY <1>3, <2>0, <2>3, <3>2, <3>3, <3>4, SMTT(30)
    <3> HIDE DEF part, n
    <3>d. part.ok \in BOOLEAN
      BY <3>2, Zenon
    <3> QED
      BY <3>a, <3>b, <3>c, <3>d, Zenon DEF part, n
  <2> QED
    BY <2>0, <2>2, <2>3
<1>4. CASE r # NoRange /\ r.kind = "span"
  <2>0. r.from \in Nat /\ r.to \in Nat /\ part = parseRange(r, total)
    BY <1>4, Zenon DEF RangeHeaders, PartOf
  <2>1. Wanted(r, total) = {i \in 0..(total - 1) : r.from <= i /\ i <= r.to}
    BY <1>4, Zenon DEF Wanted
  <2>2. CASE ~(r.from < total /\ r.to >= r.from)
    <3>1. part = Unsatisfiable
      BY <1>4, <2>0, <2>2, Zenon DEF parseRange
    <3>2. Wanted(r, total) = {}
      BY <2>0, <2>1, <2>2, SMTT(30)
    <3> QED
      BY <1>4, <3>1, <3>2 DEF Unsatisfiable
  <2>3. CASE r.from < total /\ r.to >= r.from
    <3> DEFINE end == IF r.to >= total THEN total - 1 ELSE r.to
    <3>1. part = Part(r.from, end - r.from + 1)
      BY <1>4, <2>0, <2>3, Zenon DEF parseRange
    <3>2. part.ok = TRUE /\ part.start = r.from /\ part.length = end - r.from + 1
      BY <3>1 DEF Part
    <3>3. end \in Nat /\ r.from <= end /\ end < total
      BY <2>0, <2>3
    <3>4. n = end - r.from + 1
      BY <2>0, <2>3, <3>2, <3>3, SMTT(30) DEF SliceLen
    <3>5. Wanted(r, total) = (r.from)..end
      BY <2>0, <2>1, <2>3
    <3>a. part.ok /\ part.start \in Nat /\ part.length \in Int
      BY <3>2, <3>3, <2>0
    <3>b. Wanted(r, total) = part.start..(part.start + n - 1)
      BY <2>0, <3>2, <3>3, <3>4, <3>5, SMTT(30)
    <3>c. r # NoRange /\ total > 0 => n > 0
      BY <1>4, <2>0, <3>2, <3>3, <3>4, <3>5, SMTT(30)
    <3> HIDE DEF part, n
    <3>d. part.ok \in BOOLEAN
      BY <3>2, Zenon
    <3> QED
      BY <3>a, <3>b, <3>c, <3>d, Zenon DEF part, n
  <2> QED
    BY <2>2, <2>3, Zenon
<1>5. r # NoRange => r.kind \in {"span", "from", "suffix"}
  BY Zenon DEF RangeHeaders
<1> QED
  BY <1>1, <1>2, <1>3, <1>4, <1>5, Zenon

-----------------------------------------------------------------------------
(* Answers *)

\* A request holds the address of a blob written, and the part parseRange gave
\* for the blob's size; sizes never change, so the part stays right.
Right(r, bl) ==
  /\ r \in [pc : {"idle", "put", "lookup", "load"}, key : Keys \cup {None},
            addr : 1..Len(bl) \cup {None}, range : Ranges \cup {NoRange},
            start : Nat, length : Int]
  /\ r.pc # "idle" => r.addr \in 1..Len(bl)
  /\ r.pc \in {"lookup", "load"} =>
       LET part == PartOf(r.range, bl[r.addr])
       IN  part.ok /\ r.start = part.start /\ r.length = part.length

RequestsRight ==
  /\ blobs \in Seq(Nat)
  /\ index \in [Keys -> Addresses \cup {None}]
  /\ req = [p \in Requests |-> req[p]] /\ \A p \in Requests : Right(req[p], blobs)

\* Every cached entry holds the data of the blob at its address.
CacheTrue ==
  /\ cache = [list |-> cache.list, curBytes |-> cache.curBytes]
  /\ cache.list \in Seq(TrueEntries)

LEMMA EmptyAnswer ==
  ASSUME answer'.body = <<>>, answer'.status \in {0, 404, 416, 500},
         answer'.status = 416 => Wanted(answer'.range, answer'.size) = {}
  PROVE  AnswerWhole' /\ RangeExact'
<1>1. AnswerWhole'
  BY DEF AnswerWhole
<1>2. RangeExact'
  BY DEF RangeExact
<1> QED
  BY <1>1, <1>2, Zenon

LEMMA ReplyRight ==
  ASSUME RequestsRight, NEW p \in Requests, req[p].pc \in {"lookup", "load"},
         Reply(p, Data(req[p].addr))
  PROVE  AnswerWhole' /\ RangeExact'
<1> DEFINE r == req[p]
           total == blobs[r.addr]
           part == PartOf(r.range, total)
           n == SliceLen(total, r.start, r.length)
           body == Slice(Data(r.addr), r.start, r.length)
<1>1. /\ r.addr \in Addresses /\ total \in Nat /\ r.addr # None
      /\ r.start \in Nat /\ r.length \in Int /\ (r.range = NoRange \/ r.range \in RangeHeaders)
  <2>1. /\ r \in [pc : {"idle", "put", "lookup", "load"}, key : Keys \cup {None},
                  addr : 1..Len(blobs) \cup {None}, range : Ranges \cup {NoRange},
                  start : Nat, length : Int]
        /\ r.addr \in 1..Len(blobs)
    BY Zenon DEF RequestsRight, Right
  <2>2. total \in Nat /\ r.addr \in Nat /\ r.addr \in Addresses
    BY <2>1 DEF RequestsRight, Addresses
  <2> QED
    BY <2>1, <2>2, BlobsConstants, Zenon
<1>2. part.ok /\ r.start = part.start /\ r.length = part.length
  BY Zenon DEF RequestsRight, Right
<1>3. /\ answer'.status = IF r.range = NoRange THEN 200 ELSE 206
      /\ answer'.addr = r.addr /\ answer'.size = total /\ answer'.range = r.range
      /\ answer'.first = r.start /\ answer'.body = body /\ answer'.last = r.start + Len(body) - 1
  BY <1>1, Zenon DEF Reply, Answered
<1>4. /\ DOMAIN body = 1..n /\ Len(body) = n /\ n \in Nat
      /\ \A i \in DOMAIN body : body[i] = <<r.addr, r.start + i>>
  <2> HIDE DEF r, total
  <2>1. \A i \in 1..total : <<r.addr, i>> \in BytesOf(r.addr)
    BY <1>1 DEF BytesOf
  <2>2. Data(r.addr) = [i \in 1..total |-> <<r.addr, i>>]
    BY Zenon DEF Data, total
  <2>3. /\ Data(r.addr) \in Seq(BytesOf(r.addr)) /\ Len(Data(r.addr)) = total
        /\ \A i \in 1..total : Data(r.addr)[i] = <<r.addr, i>>
    BY <1>1, <2>1, <2>2
  <2> QED
    BY <1>1, <2>3, SliceIs
<1>5. /\ Wanted(r.range, total) = r.start..(r.start + n - 1)
      /\ r.range # NoRange /\ total > 0 => n > 0
  BY <1>1, <1>2, PartIsWanted, Zenon
<1> HIDE DEF r, total, part, n, body
<1>6. AnswerWhole'
  BY <1>3, <1>4, Zenon DEF AnswerWhole
<1>7. {answer'.first + i - 1 : i \in DOMAIN answer'.body} = r.start..(r.start + n - 1)
  <2>1. Positions(r.start, n) = r.start..(r.start + n - 1)
    BY <1>1, <1>4, PositionsAre, Zenon
  <2>2. answer'.first = r.start /\ DOMAIN answer'.body = 1..n
    BY <1>3, <1>4, Zenon
  <2>3. {answer'.first + i - 1 : i \in DOMAIN answer'.body} = Positions(r.start, n)
    BY <2>2, Zenon DEF Positions
  <2> QED
    BY <2>1, <2>3, Zenon
<1>8. answer'.status = 206 /\ total > 0 => r.start <= r.start + n - 1
  <2>1. answer'.status = 206 => r.range # NoRange
    BY <1>3
  <2>2. answer'.status = 206 /\ total > 0 => n > 0
    BY <1>5, <2>1, Zenon
  <2> QED
    BY <1>1, <1>4, <2>2
<1>9. RangeExact'
  <2>1. answer'.status # 416
    BY <1>3
  <2>2. Wanted(answer'.range, answer'.size) = r.start..(r.start + n - 1)
    BY <1>3, <1>5, Zenon
  <2>3. answer'.last = r.start + n - 1 /\ answer'.first = r.start /\ answer'.size = total
    BY <1>3, <1>4, Zenon
  <2> DEFINE want == Wanted(answer'.range, answer'.size)
             got == {answer'.first + i - 1 : i \in DOMAIN answer'.body}
  <2>4. want = got /\ want = answer'.first..answer'.last
    BY <1>7, <2>2, <2>3, Zenon
  <2>5. answer'.status = 206 /\ answer'.size > 0 => answer'.first <= answer'.last
    BY <1>8, <2>3, Zenon
  <2> QED
    BY <2>1, <2>4, <2>5, Zenon DEF RangeExact
<1> QED
  BY <1>6, <1>9, Zenon

LEMMA AnswersRight ==
  ASSUME RequestsRight, CacheTrue, Next
  PROVE  AnswerWhole' /\ RangeExact'
<1>0. ASSUME answer' = NoAnswer PROVE AnswerWhole' /\ RangeExact'
  BY <1>0, EmptyAnswer DEF NoAnswer
<1>1. ASSUME NEW p \in Requests, PutWrite(p) \/ PutIndex(p) \/ PutFails(p) PROVE AnswerWhole' /\ RangeExact'
  BY <1>0, <1>1, Zenon DEF PutWrite, PutIndex, PutFails
<1>2. ASSUME NEW k \in Keys, Delete(k) PROVE AnswerWhole' /\ RangeExact'
  BY <1>0, <1>2, Zenon DEF Delete
<1>3. ASSUME NEW p \in Requests, GetMeta(p) PROVE AnswerWhole' /\ RangeExact'
  <2>1. PICK k \in Keys, range \in Ranges :
          LET a == index[k]
              r == Request("idle", None, a, range, 0, 0)
              part == PartOf(range, blobs[a])
          IN IF a # None /\ part.ok THEN answer' = NoAnswer
             ELSE answer' = Answered(r, IF a = None THEN 404 ELSE 416, <<>>)
    BY <1>3 DEF GetMeta
  <2> DEFINE a == index[k]
             r == Request("idle", None, a, range, 0, 0)
             part == PartOf(range, blobs[a])
  <2>2. CASE a # None /\ part.ok
    BY <1>0, <2>1, <2>2, Zenon
  <2>3. CASE a = None
    <3>1. answer' = Answered(r, 404, <<>>)
      BY <2>1, <2>3, Zenon
    <3>2. answer'.status = 404 /\ answer'.body = <<>>
      BY <3>1, Zenon DEF Answered
    <3> QED
      BY <3>2, EmptyAnswer
  <2>4. CASE a # None /\ ~part.ok
    <3>1. answer' = Answered(r, 416, <<>>)
      BY <2>1, <2>4, Zenon
    <3>2. r.addr = a /\ r.range = range
      BY Zenon DEF Request
    <3>3. /\ answer'.status = 416 /\ answer'.body = <<>>
          /\ answer'.range = range /\ answer'.size = blobs[a]
      BY <2>4, <3>1, <3>2, Zenon DEF Answered
    <3>4. blobs[a] \in Nat
      BY <2>4 DEF RequestsRight, Addresses
    <3>5. range = NoRange \/ range \in RangeHeaders
      BY BlobsConstants, Zenon
    <3>6. Wanted(range, blobs[a]) = {}
      BY <2>4, <3>4, <3>5, PartIsWanted, Zenon
    <3>7. answer'.status \in {0, 404, 416, 500} /\ Wanted(answer'.range, answer'.size) = {}
      BY <3>3, <3>6, Zenon
    <3> QED
      BY <3>3, <3>7, EmptyAnswer, Zenon
  <2> QED
    BY <2>2, <2>3, <2>4, Zenon
<1>4. ASSUME NEW p \in Requests, Lookup(p) PROVE AnswerWhole' /\ RangeExact'
  <2> DEFINE a == req[p].addr
  <2>1. CASE a \in Items(cache) /\ Reply(p, Value(cache, a))
    <3>1. Value(cache, a) = Data(a)
      BY <2>1, ValueIsData, Zenon DEF CacheTrue
    <3> QED
      BY <1>4, <2>1, <3>1, ReplyRight, Zenon DEF Lookup
  <2>2. CASE answer' = NoAnswer
    BY <1>0, <2>2, Zenon
  <2> QED
    BY <1>4, <2>1, <2>2, Zenon DEF Lookup
<1>5. ASSUME NEW p \in Requests, Load(p) PROVE AnswerWhole' /\ RangeExact'
  BY <1>5, ReplyRight, Zenon DEF Load
<1>6. ASSUME NEW p \in Requests, LoadFails(p) PROVE AnswerWhole' /\ RangeExact'
  <2>1. answer'.status = 500 /\ answer'.body = <<>>
    BY <1>6, Zenon DEF LoadFails, Answered
  <2> QED
    BY <2>1, EmptyAnswer
<1> QED
  BY <1>1, <1>2, <1>3, <1>4, <1>5, <1>6, Zenon DEF Next

-----------------------------------------------------------------------------
(* Requests and the cache *)

LEMMA Unwritten ==
  ASSUME RequestsRight, CacheTrue, blobs' = blobs
  PROVE  Addresses' = Addresses /\ TrueEntries' = TrueEntries
  BY Zenon DEF Addresses, TrueEntries, Data

\* A new blob leaves the others as they are.
LEMMA Written ==
  ASSUME RequestsRight, NEW size \in Nat, blobs' = Append(blobs, size)
  PROVE  /\ blobs' \in Seq(Nat) /\ Addresses' = Addresses \cup {Len(blobs) + 1}
         /\ \A a \in Addresses : blobs'[a] = blobs[a]
         /\ TrueEntries \subseteq TrueEntries'
<1>1. /\ blobs' \in Seq(Nat) /\ Addresses' = Addresses \cup {Len(blobs) + 1}
      /\ \A a \in Addresses : blobs'[a] = blobs[a]
  BY DEF RequestsRight, Addresses
<1>2. ASSUME NEW a \in Addresses PROVE Entry(a, Data(a)) \in TrueEntries'
  <2>1. Data(a)' = Data(a)
    BY <1>1, Zenon DEF Data
  <2>2. a \in Addresses'
    BY <1>1, Zenon
  <2>3. Entry(a, Data(a)') \in TrueEntries'
    BY <2>2, Zenon DEF TrueEntries, Entry
  <2> QED
    BY <2>1, <2>3, Zenon
<1>3. TrueEntries \subseteq TrueEntries'
  BY <1>2, Zenon DEF TrueEntries
<1> QED
  BY <1>1, <1>3, Zenon

LEMMA CacheStaysTrue ==
  ASSUME RequestsRight, CacheTrue, Next
  PROVE  CacheTrue'
<1>1. ASSUME UNCHANGED <<blobs, cache>> PROVE CacheTrue'
  BY <1>1, Unwritten, Zenon DEF CacheTrue
<1>2. ASSUME NEW p \in Requests, PutWrite(p) PROVE CacheTrue'
  <2>1. PICK size \in Sizes : blobs' = Append(blobs, size) /\ cache' = cache
    BY <1>2, Zenon DEF PutWrite
  <2>2. TrueEntries \subseteq TrueEntries'
    BY <2>1, BlobsConstants, Written, Zenon
  <2>3. \A i \in DOMAIN cache.list : cache.list[i] \in TrueEntries'
    BY <2>2 DEF CacheTrue
  <2>4. cache.list \in Seq(TrueEntries')
    BY <2>3, SMTT(30) DEF CacheTrue
  <2> QED
    BY <2>1, <2>4, Zenon DEF CacheTrue
<1>3. ASSUME NEW p \in Requests, PutIndex(p) \/ PutFails(p) \/ GetMeta(p) \/ LoadFails(p) PROVE CacheTrue'
  BY <1>1, <1>3, Zenon DEF PutIndex, PutFails, GetMeta, LoadFails
<1>4. ASSUME NEW k \in Keys, Delete(k) PROVE CacheTrue'
  BY <1>1, <1>4, Zenon DEF Delete
<1>5. ASSUME NEW p \in Requests, Lookup(p) PROVE CacheTrue'
  <2>1. CASE cache' = get(cache, req[p].addr) /\ blobs' = blobs
    <3>1. /\ cache' = [list |-> cache'.list, curBytes |-> cache'.curBytes]
          /\ cache'.list \in Seq(TrueEntries)
      BY <2>1, GetStays, Zenon DEF CacheTrue
    <3> QED
      BY <2>1, <3>1, Unwritten, Zenon DEF CacheTrue
  <2> QED
    BY <1>1, <1>5, <2>1, Zenon DEF Lookup
<1>6. ASSUME NEW p \in Requests, Load(p) PROVE CacheTrue'
  <2>1. CASE set(cache, req[p].addr, Data(req[p].addr), maxBytes, cache') /\ blobs' = blobs
    <3>1. req[p].addr \in Addresses
      BY <1>6, Zenon DEF Load, RequestsRight, Right, Addresses
    <3>2. /\ cache' = [list |-> cache'.list, curBytes |-> cache'.curBytes]
          /\ cache'.list \in Seq(TrueEntries)
      BY <2>1, <3>1, SetStays, Zenon DEF CacheTrue
    <3> QED
      BY <2>1, <3>2, Unwritten, Zenon DEF CacheTrue
  <2> QED
    BY <1>1, <1>6, <2>1, Zenon DEF Load
<1> QED
  BY <1>2, <1>3, <1>4, <1>5, <1>6, Zenon DEF Next

LEMMA IdleRight ==
  ASSUME NEW bl \in Seq(Nat)
  PROVE  Right(Idle, bl)
  BY DEF Right, Idle, Request

LEMMA StaysRight ==
  ASSUME NEW bl \in Seq(Nat), NEW size \in Nat, NEW r, Right(r, bl)
  PROVE  Right(r, Append(bl, size))
<1>1. /\ 1..Len(bl) \subseteq 1..Len(Append(bl, size))
      /\ \A a \in 1..Len(bl) : Append(bl, size)[a] = bl[a]
  OBVIOUS
<1> DEFINE new == Append(bl, size)
<1> HIDE DEF new
<1> QED
  BY <1>1, Zenon DEF Right, new

\* One request changes, to a right one.
LEMMA OneChanges ==
  ASSUME RequestsRight, blobs' = blobs, index' \in [Keys -> Addresses \cup {None}],
         NEW p \in Requests, NEW r, Right(r, blobs), req' = [req EXCEPT ![p] = r]
  PROVE  RequestsRight'
<1>1. Addresses' = Addresses
  BY Zenon DEF Addresses
<1>2. req' = [q \in Requests |-> req'[q]] /\ \A q \in Requests : req'[q] = IF q = p THEN r ELSE req[q]
  BY Zenon DEF RequestsRight
<1>3. \A q \in Requests : Right(req'[q], blobs)
  BY <1>2, Zenon DEF RequestsRight
<1> QED
  BY <1>1, <1>2, <1>3, Zenon DEF RequestsRight

LEMMA RequestsStayRight ==
  ASSUME RequestsRight, CacheTrue, Next
  PROVE  RequestsRight'
<1>0. /\ blobs \in Seq(Nat) /\ index \in [Keys -> Addresses \cup {None}]
      /\ Right(Idle, blobs)
  BY IdleRight, Zenon DEF RequestsRight
<1>1. ASSUME NEW p \in Requests, PutWrite(p) PROVE RequestsRight'
  <2>1. PICK k \in Keys, size \in Sizes :
          /\ blobs' = Append(blobs, size) /\ index' = index
          /\ req' = [req EXCEPT ![p] = Request("put", k, Len(blobs) + 1, NoRange, 0, 0)]
    BY <1>1, Zenon DEF PutWrite
  <2> DEFINE r == Request("put", k, Len(blobs) + 1, NoRange, 0, 0)
  <2>2. size \in Nat
    BY BlobsConstants, Zenon
  <2>3. blobs' \in Seq(Nat) /\ Addresses' = Addresses \cup {Len(blobs) + 1}
    BY <2>1, <2>2, Written, Zenon
  <2>4. Len(blobs) + 1 \in 1..Len(blobs')
    BY <1>0, <2>1
  <2>5. Right(r, blobs')
    BY <2>4 DEF Right, Request
  <2> HIDE DEF r
  <2>6. \A q \in Requests : Right(req[q], blobs')
    BY <1>0, <2>1, <2>2, StaysRight, Zenon DEF RequestsRight
  <2>7. req' = [q \in Requests |-> req'[q]] /\ \A q \in Requests : req'[q] = IF q = p THEN r ELSE req[q]
    BY <2>1, Zenon DEF RequestsRight, r
  <2>8. index' \in [Keys -> Addresses' \cup {None}]
    BY <1>0, <2>1, <2>3, Zenon
  <2> QED
    BY <2>3, <2>5, <2>6, <2>7, <2>8, Zenon DEF RequestsRight
<1>2. ASSUME NEW p \in Requests, PutIndex(p) PROVE RequestsRight'
  <2>1. req[p].addr \in Addresses
    BY <1>2, Zenon DEF PutIndex, RequestsRight, Right, Addresses
  <2>2. index' \in [Keys -> Addresses \cup {None}]
    BY <1>0, <1>2, <2>1, Zenon DEF PutIndex
  <2> QED
    BY <1>0, <1>2, <2>2, OneChanges, Zenon DEF PutIndex
<1>3. ASSUME NEW k \in Keys, Delete(k) PROVE RequestsRight'
  <2>1. index' \in [Keys -> Addresses \cup {None}] /\ blobs' = blobs /\ req' = req
    BY <1>0, <1>3, Zenon DEF Delete
  <2> QED
    BY <2>1, Zenon DEF RequestsRight, Addresses
<1>4. ASSUME NEW p \in Requests, GetMeta(p) PROVE RequestsRight'
  <2>1. PICK k \in Keys, range \in Ranges :
          LET a == index[k]
              part == PartOf(range, blobs[a])
          IN IF a # None /\ part.ok
             THEN req' = [req EXCEPT ![p] = Request("lookup", None, a, range,
                                                    part.start, part.length)]
             ELSE req' = req
    BY <1>4, Zenon DEF GetMeta
  <2>2. index' = index /\ blobs' = blobs
    BY <1>4, Zenon DEF GetMeta
  <2> DEFINE a == index[k]
             part == PartOf(range, blobs[a])
  <2>3. CASE req' = req
    BY <2>2, <2>3, Zenon DEF RequestsRight, Addresses
  <2>4. CASE a # None /\ part.ok
    <3> DEFINE r == Request("lookup", None, a, range, part.start, part.length)
    <3>2. a \in 1..Len(blobs) /\ blobs[a] \in Nat
      BY <1>0, <2>4 DEF Addresses
    <3>3. part.start \in Nat /\ part.length \in Int
      BY <3>2, BlobsConstants, PartIsWanted, Zenon
    <3> HIDE DEF part, a
    <3>4. Right(r, blobs)
      BY <2>4, <3>2, <3>3, Zenon DEF Right, Request, part
    <3> HIDE DEF r
    <3>5. req' = [req EXCEPT ![p] = r]
      BY <2>1, <2>4, Zenon DEF a, part, r
    <3> QED
      BY <1>0, <2>2, <3>4, <3>5, OneChanges, ZenonT(30)
  <2> QED
    BY <2>1, <2>3, <2>4, Zenon
<1>5. ASSUME NEW p \in Requests, Lookup(p) PROVE RequestsRight'
  <2>1. index' = index /\ blobs' = blobs
    BY <1>5, Zenon DEF Lookup
  <2>2. CASE req' = [req EXCEPT ![p] = Idle]
    BY <1>0, <2>1, <2>2, OneChanges, Zenon
  <2>3. CASE req' = [req EXCEPT ![p].pc = "load"]
    <3> DEFINE r == [req[p] EXCEPT !.pc = "load"]
    <3>1. Right(req[p], blobs) /\ req[p].pc = "lookup"
      BY <1>5, Zenon DEF Lookup, RequestsRight
    <3>2. Right(r, blobs)
      BY <3>1, Zenon DEF Right
    <3> HIDE DEF r
    <3>3. req' = [req EXCEPT ![p] = r]
      BY <2>3, Zenon DEF r
    <3> QED
      BY <1>0, <2>1, <3>2, <3>3, OneChanges, Zenon
  <2> QED
    BY <1>5, <2>2, <2>3, Zenon DEF Lookup, Reply
<1>6. ASSUME NEW p \in Requests, Load(p) \/ LoadFails(p) \/ PutFails(p) PROVE RequestsRight'
  <2>1. index' = index /\ blobs' = blobs /\ req' = [req EXCEPT ![p] = Idle]
    BY <1>6, Zenon DEF Load, LoadFails, PutFails, Reply
  <2> QED
    BY <1>0, <2>1, OneChanges, Zenon
<1> QED
  BY <1>1, <1>2, <1>3, <1>4, <1>5, <1>6, Zenon DEF Next

-----------------------------------------------------------------------------
BlobsInv == RequestsRight /\ CacheTrue /\ AnswerWhole /\ RangeExact

\* The inductive invariant: requests hold the address and the part their lookup
\* gave (getBlob), the cache holds true data (LRUCache.get and set), answers are right.
THEOREM BlobsInvHolds == Spec => []BlobsInv
<1>1. Init => BlobsInv
  <2> SUFFICES ASSUME Init PROVE BlobsInv
    BY Zenon
  <2>1. blobs \in Seq(Nat) /\ Addresses = {}
    BY DEF Init, Addresses
  <2>2. RequestsRight
    BY <2>1, IdleRight, Zenon DEF Init, RequestsRight
  <2>3. CacheTrue
    BY DEF Init, CacheTrue, EmptyCache
  <2>4. AnswerWhole /\ RangeExact
    BY DEF Init, AnswerWhole, RangeExact, NoAnswer
  <2> QED
    BY <2>2, <2>3, <2>4, Zenon DEF BlobsInv
<1>2. BlobsInv /\ [Next]_vars => BlobsInv'
  <2> SUFFICES ASSUME BlobsInv, [Next]_vars PROVE BlobsInv'
    BY Zenon
  <2>1. CASE Next
    BY <2>1, AnswersRight, CacheStaysTrue, RequestsStayRight, Zenon DEF BlobsInv
  <2>2. CASE UNCHANGED vars
    <3>1. RequestsRight'
      BY <2>2, Zenon DEF BlobsInv, vars, RequestsRight, Addresses
    <3>2. CacheTrue'
      BY <2>2, Unwritten, Zenon DEF BlobsInv, vars, CacheTrue
    <3>3. AnswerWhole' /\ RangeExact'
      BY <2>2 DEF BlobsInv, vars, AnswerWhole, RangeExact
    <3> QED
      BY <3>1, <3>2, <3>3, Zenon DEF BlobsInv
  <2> QED
    BY <2>1, <2>2, Zenon
<1> QED
  BY <1>1, <1>2, PTL DEF Spec

\* An answer has the bytes of one blob, the one looked up (getBlob, ReadBlobAt,
\* VolumePool.Read), whatever puts, deletes and evictions do meanwhile.
THEOREM AnswersAreWhole == Spec => []AnswerWhole
  BY BlobsInvHolds, PTL DEF BlobsInv

\* A Range request gets exactly the bytes asked for (parseRange, ReadBlobAt).
THEOREM RangesAreExact == Spec => []RangeExact
  BY BlobsInvHolds, PTL DEF BlobsInv

-----------------------------------------------------------------------------
(* The order of use *)

LEMMA RemoveAtIs ==
  ASSUME NEW S, NEW q \in Seq(S), NEW i \in DOMAIN q
  PROVE  /\ RemoveAt(q, i) \in Seq(S) /\ Len(RemoveAt(q, i)) = Len(q) - 1 /\ Len(q) \in Nat \ {0}
         /\ \A j \in 1..(Len(q) - 1) : RemoveAt(q, i)[j] = IF j < i THEN q[j] ELSE q[j + 1]
<1> DEFINE p == SubSeq(q, 1, i - 1)
           r == SubSeq(q, i + 1, Len(q))
<1>1. i \in 1..Len(q) /\ Len(q) \in Nat \ {0} OBVIOUS
<1>2. p \in Seq(S) /\ Len(p) = i - 1 /\ \A j \in 1..(i - 1) : p[j] = q[j]
  BY <1>1, SeqPart
<1>3. r \in Seq(S) /\ Len(r) = Len(q) - i /\ \A j \in 1..(Len(q) - i) : r[j] = q[i + j]
  BY <1>1, SeqPart
<1> HIDE DEF p, r
<1>4. /\ p \o r \in Seq(S) /\ Len(p \o r) = Len(q) - 1
      /\ \A j \in 1..(Len(q) - 1) : (p \o r)[j] = IF j < i THEN q[j] ELSE q[j + 1]
  <2>0. /\ p \o r \in Seq(S) /\ Len(p \o r) = Len(p) + Len(r)
        /\ \A j \in 1..(Len(p) + Len(r)) :
             (p \o r)[j] = IF j <= Len(p) THEN p[j] ELSE r[j - Len(p)]
    BY <1>2, <1>3, SeqJoin, Zenon
  <2>a. Len(p) + Len(r) = Len(q) - 1 BY <1>1, <1>2, <1>3
  <2>1. p \o r \in Seq(S) /\ Len(p \o r) = Len(q) - 1 BY <2>0, <2>a, Zenon
  <2>2. ASSUME NEW j \in 1..(Len(q) - 1), j < i PROVE (p \o r)[j] = q[j]
    <3>1. j <= Len(p) /\ j \in 1..(i - 1) BY <1>1, <1>2, <2>2
    <3> QED BY <1>2, <2>0, <2>a, <3>1, Zenon
  <2>3. ASSUME NEW j \in 1..(Len(q) - 1), ~(j < i) PROVE (p \o r)[j] = q[j + 1]
    <3>1. j - (i - 1) \in 1..(Len(q) - i) BY <1>1, <2>3
    <3>a. ~(j <= Len(p)) BY <1>1, <1>2, <2>3
    <3>2. (p \o r)[j] = r[j - (i - 1)] BY <1>2, <2>0, <2>a, <3>a, Zenon
    <3>3. r[j - (i - 1)] = q[i + (j - (i - 1))] BY <1>3, <3>1, Zenon
    <3>4. i + (j - (i - 1)) = j + 1 BY <1>1
    <3> QED BY <3>2, <3>3, <3>4
  <2> QED BY <2>1, <2>2, <2>3, Zenon
<1> QED BY <1>1, <1>4, Zenon DEF RemoveAt, p, r

LEMMA PushIs ==
  ASSUME NEW S, NEW q \in Seq(S), NEW e \in S
  PROVE  /\ <<e>> \o q \in Seq(S) /\ Len(<<e>> \o q) = Len(q) + 1 /\ (<<e>> \o q)[1] = e
         /\ Len(q) \in Nat
         /\ \A j \in 1..Len(q) : (<<e>> \o q)[j + 1] = q[j]
OBVIOUS

\* The addresses of list l are, in order, the first ones of q.
Leads(l, q) == Len(l) <= Len(q) /\ \A i \in DOMAIN l : l[i].key = q[i]

Distinct(q) == \A i, j \in DOMAIN q : q[i] = q[j] => i = j

\* Pushing the same address on both.
LEMMA PushLeads ==
  ASSUME NEW S, NEW T, NEW l \in Seq(S), NEW q \in Seq(T), Leads(l, q), NEW e \in S, e.key \in T
  PROVE  Leads(<<e>> \o l, <<e.key>> \o q)
<1> DEFINE m == <<e>> \o l
           r == <<e.key>> \o q
<1>1. /\ m \in Seq(S) /\ Len(m) = Len(l) + 1 /\ m[1] = e /\ Len(l) \in Nat
      /\ \A j \in 1..Len(l) : m[j + 1] = l[j]
  BY PushIs
<1>2. /\ r \in Seq(T) /\ Len(r) = Len(q) + 1 /\ r[1] = e.key /\ Len(q) \in Nat
      /\ \A j \in 1..Len(q) : r[j + 1] = q[j]
  BY PushIs
<1> HIDE DEF m, r
<1>3. Len(l) <= Len(q) /\ \A j \in 1..Len(l) : l[j].key = q[j] BY DEF Leads
<1>4. ASSUME NEW i \in DOMAIN m PROVE m[i].key = r[i]
  <2>1. i \in 1..(Len(l) + 1) BY <1>1
  <2>2. CASE i = 1 BY <1>1, <1>2, <2>2
  <2>3. CASE i # 1
    <3>1. PICK j \in 1..Len(l) : i = j + 1
      <4>1. i - 1 \in 1..Len(l) /\ i = (i - 1) + 1 BY <1>1, <2>1, <2>3
      <4> QED BY <4>1, Zenon
    <3>2. j \in 1..Len(q) BY <1>1, <1>2, <1>3
    <3>3. m[i] = l[j] /\ r[i] = q[j] BY <1>1, <1>2, <3>1, <3>2, Zenon
    <3> QED BY <1>3, <3>3, Zenon
  <2> QED BY <2>2, <2>3, Zenon
<1>5. Len(m) <= Len(r) BY <1>1, <1>2, <1>3
<1> QED BY <1>4, <1>5, Zenon DEF Leads, m, r

\* Taking out what is at the same place in both.
LEMMA RemoveLeads ==
  ASSUME NEW S, NEW T, NEW l \in Seq(S), NEW q \in Seq(T), Leads(l, q), NEW i \in DOMAIN l
  PROVE  i \in DOMAIN q /\ Leads(RemoveAt(l, i), RemoveAt(q, i))
<1> DEFINE m == RemoveAt(l, i)
           r == RemoveAt(q, i)
<1>0. i \in DOMAIN q BY DEF Leads
<1>1. /\ m \in Seq(S) /\ Len(m) = Len(l) - 1 /\ Len(l) \in Nat \ {0}
      /\ \A j \in 1..(Len(l) - 1) : m[j] = IF j < i THEN l[j] ELSE l[j + 1]
  BY RemoveAtIs
<1>2. /\ r \in Seq(T) /\ Len(r) = Len(q) - 1 /\ Len(q) \in Nat \ {0}
      /\ \A j \in 1..(Len(q) - 1) : r[j] = IF j < i THEN q[j] ELSE q[j + 1]
  BY <1>0, RemoveAtIs
<1> HIDE DEF m, r
<1>3. Len(l) <= Len(q) /\ \A j \in 1..Len(l) : l[j].key = q[j] BY DEF Leads
<1>4. ASSUME NEW j \in DOMAIN m PROVE m[j].key = r[j]
  <2>1. j \in 1..(Len(l) - 1) /\ j \in 1..(Len(q) - 1) /\ j \in 1..Len(l) /\ j + 1 \in 1..Len(l)
    BY <1>1, <1>2, <1>3
  <2>2. CASE j < i
    <3>1. m[j] = l[j] /\ r[j] = q[j] BY <1>1, <1>2, <2>1, <2>2
    <3> QED BY <1>3, <2>1, <3>1
  <2>3. CASE ~(j < i)
    <3>1. m[j] = l[j + 1] /\ r[j] = q[j + 1] BY <1>1, <1>2, <2>1, <2>3
    <3> QED BY <1>3, <2>1, <3>1
  <2> QED BY <2>2, <2>3, Zenon
<1>5. Len(m) <= Len(r) BY <1>1, <1>2, <1>3
<1> QED BY <1>0, <1>4, <1>5, Zenon DEF Leads, m, r

\* A shorter list, and taking out of q what is not in the list.
LEMMA CutLeads ==
  ASSUME NEW S, NEW T, NEW l \in Seq(S), NEW q \in Seq(T), Leads(l, q), NEW n \in 0..Len(l)
  PROVE  /\ SubSeq(l, 1, n) \in Seq(S) /\ Leads(SubSeq(l, 1, n), q)
         /\ \A i \in DOMAIN q : i \notin DOMAIN l => Leads(SubSeq(l, 1, n), RemoveAt(q, i))
<1> DEFINE m == SubSeq(l, 1, n)
<1>1. m \in Seq(S) /\ Len(m) = n /\ \A j \in 1..n : m[j] = l[j] BY SeqPart
<1> HIDE DEF m
<1>2. Len(l) \in Nat /\ Len(q) \in Nat /\ Len(l) <= Len(q) /\ \A j \in 1..Len(l) : l[j].key = q[j] BY DEF Leads
<1>3. Leads(m, q) BY <1>1, <1>2 DEF Leads
<1>4. ASSUME NEW i \in DOMAIN q, i \notin DOMAIN l PROVE Leads(m, RemoveAt(q, i))
  <2> DEFINE r == RemoveAt(q, i)
  <2>1. /\ r \in Seq(T) /\ Len(r) = Len(q) - 1
        /\ \A j \in 1..(Len(q) - 1) : r[j] = IF j < i THEN q[j] ELSE q[j + 1]
    BY RemoveAtIs
  <2> HIDE DEF r
  <2>2. i \in 1..Len(q) /\ i > Len(l) BY <1>2, <1>4
  <2>3. \A j \in 1..n : j \in 1..(Len(q) - 1) /\ j < i /\ j \in 1..Len(l) BY <1>2, <2>2
  <2>4. \A j \in 1..n : m[j].key = r[j] BY <1>1, <1>2, <2>1, <2>3, Zenon
  <2>5. Len(m) <= Len(r) /\ DOMAIN m = 1..n BY <1>1, <1>2, <2>1, <2>2
  <2> QED BY <2>4, <2>5, Zenon DEF Leads, r
<1> QED BY <1>1, <1>3, <1>4, Zenon DEF m


\* An address moves to the front, or is new there.
LEMMA PushDistinct ==
  ASSUME NEW T, NEW q \in Seq(T), Distinct(q), NEW a \in T, \A i \in DOMAIN q : q[i] # a
  PROVE  <<a>> \o q \in Seq(T) /\ Distinct(<<a>> \o q)
<1> DEFINE r == <<a>> \o q
<1>1. /\ r \in Seq(T) /\ Len(r) = Len(q) + 1 /\ r[1] = a /\ Len(q) \in Nat
      /\ \A j \in 1..Len(q) : r[j + 1] = q[j]
  BY PushIs
<1> HIDE DEF r
<1>2. ASSUME NEW i \in DOMAIN r PROVE i = 1 \/ \E j \in DOMAIN q : i = j + 1 /\ r[i] = q[j]
  <2>1. i \in 1..(Len(q) + 1) BY <1>1
  <2>2. CASE i # 1
    <3>1. i - 1 \in 1..Len(q) /\ i = (i - 1) + 1 BY <1>1, <2>1, <2>2
    <3>2. i - 1 \in DOMAIN q BY <3>1
    <3> QED BY <1>1, <3>1, <3>2, Zenon
  <2> QED BY <2>2, Zenon
<1>3. Distinct(r)
  <2> SUFFICES ASSUME NEW i \in DOMAIN r, NEW j \in DOMAIN r, r[i] = r[j] PROVE i = j BY Zenon DEF Distinct
  <2>1. ASSUME NEW k \in DOMAIN r, k # 1 PROVE r[k] # a BY <1>2, <2>1, Zenon
  <2>2. CASE i = 1 BY <1>1, <2>1, <2>2, Zenon
  <2>3. CASE j = 1 BY <1>1, <2>1, <2>3, Zenon
  <2>4. CASE i # 1 /\ j # 1
    <3>1. PICK m \in DOMAIN q : i = m + 1 /\ r[i] = q[m] BY <1>2, <2>4, Zenon
    <3>2. PICK n \in DOMAIN q : j = n + 1 /\ r[j] = q[n] BY <1>2, <2>4, Zenon
    <3>3. m = n BY <3>1, <3>2, Zenon DEF Distinct
    <3> QED BY <3>1, <3>2, <3>3, Zenon
  <2> QED BY <2>2, <2>3, <2>4, Zenon
<1> QED BY <1>1, <1>3, Zenon DEF r

LEMMA RemoveDistinct ==
  ASSUME NEW T, NEW q \in Seq(T), Distinct(q), NEW i \in DOMAIN q
  PROVE  RemoveAt(q, i) \in Seq(T) /\ Distinct(RemoveAt(q, i)) /\ \A j \in DOMAIN RemoveAt(q, i) : RemoveAt(q, i)[j] # q[i]
<1> DEFINE r == RemoveAt(q, i)
           from(j) == IF j < i THEN j ELSE j + 1
<1>1. /\ r \in Seq(T) /\ Len(r) = Len(q) - 1 /\ Len(q) \in Nat \ {0}
      /\ \A j \in 1..(Len(q) - 1) : r[j] = IF j < i THEN q[j] ELSE q[j + 1]
  BY RemoveAtIs
<1> HIDE DEF r
<1>2. i \in 1..Len(q) OBVIOUS
<1>3. ASSUME NEW j \in DOMAIN r PROVE from(j) \in DOMAIN q /\ from(j) # i /\ r[j] = q[from(j)]
  <2>1. j \in 1..(Len(q) - 1) BY <1>1
  <2>2. from(j) \in 1..Len(q) /\ from(j) # i BY <1>1, <1>2, <2>1
  <2>3. r[j] = q[from(j)] BY <1>1, <2>1, Zenon
  <2>4. DOMAIN q = 1..Len(q) OBVIOUS
  <2> QED BY <2>2, <2>3, <2>4, Zenon
<1>4. \A j, k \in DOMAIN r : from(j) = from(k) => j = k BY <1>1, <1>2
<1> HIDE DEF from
<1>5. Distinct(r)
  <2> SUFFICES ASSUME NEW j \in DOMAIN r, NEW k \in DOMAIN r, r[j] = r[k] PROVE j = k BY Zenon DEF Distinct
  <2>1. from(j) = from(k) BY <1>3, Zenon DEF Distinct
  <2> QED BY <1>4, <2>1, Zenon
<1>6. \A j \in DOMAIN r : r[j] # q[i] BY <1>3, Zenon DEF Distinct
<1> QED BY <1>1, <1>5, <1>6, Zenon DEF r

\* What the history of uses is after a use of a.
LEMMA UsedIs ==
  ASSUME NEW T, recent \in Seq(T), Distinct(recent), NEW a \in T
  PROVE  /\ Used(a) \in Seq(T) /\ Distinct(Used(a))
         /\ \/ (\A i \in DOMAIN recent : recent[i] # a) /\ Used(a) = <<a>> \o recent
            \/ \E i \in DOMAIN recent : recent[i] = a /\ Used(a) = <<a>> \o RemoveAt(recent, i)
<1> DEFINE Before == {i \in DOMAIN recent : recent[i] = a}
<1>1. CASE Before = {}
  <2>1. \A i \in DOMAIN recent : recent[i] # a BY <1>1, Zenon
  <2>2. Used(a) = <<a>> \o recent BY <1>1, Zenon DEF Used
  <2>3. <<a>> \o recent \in Seq(T) /\ Distinct(<<a>> \o recent) BY <2>1, PushDistinct, Zenon
  <2> QED BY <2>1, <2>2, <2>3, Zenon
<1>2. CASE Before # {}
  <2>1. PICK i \in DOMAIN recent : recent[i] = a /\ Used(a) = <<a>> \o RemoveAt(recent, i)
    <3> DEFINE j == CHOOSE i \in Before : TRUE
    <3>1. j \in Before BY <1>2, Zenon
    <3>2. Used(a) = <<a>> \o RemoveAt(recent, j) BY <1>2, Zenon DEF Used
    <3> HIDE DEF j
    <3> QED BY <3>1, <3>2, Zenon
  <2> DEFINE r == RemoveAt(recent, i)
  <2>2. r \in Seq(T) /\ Distinct(r) /\ \A j \in DOMAIN r : r[j] # recent[i] BY RemoveDistinct, Zenon
  <2> HIDE DEF r
  <2>3. <<a>> \o r \in Seq(T) /\ Distinct(<<a>> \o r) BY <2>1, <2>2, PushDistinct, Zenon
  <2> QED BY <2>1, <2>3, Zenon DEF r
<1> QED BY <1>1, <1>2, Zenon

Recency ==
  recent \in Seq(Nat) /\ Distinct(recent) /\ Leads(cache.list, recent) /\ maxBytes \in Nat

\* The entry of a blob that is in the cache moves to the front.
LEMMA MovedUp ==
  ASSUME Recency, cache.list \in Seq(TrueEntries), NEW a \in Nat, a \in Items(cache), NEW e \in TrueEntries,
         e.key = a
  PROVE  Leads(<<e>> \o RemoveAt(cache.list, Position(cache, a)), Used(a))
<1> DEFINE i == Position(cache, a)
           l == cache.list
<1>1. i \in DOMAIN l /\ l[i] = Entry(a, Data(a)) BY Found, Zenon
<1>2. l[i].key = a BY <1>1 DEF Entry
<1>3. i \in DOMAIN recent /\ Leads(RemoveAt(l, i), RemoveAt(recent, i)) BY <1>1, RemoveLeads, Zenon DEF Recency
<1>4. recent[i] = a BY <1>1, <1>2, Zenon DEF Recency, Leads
<1>5. Used(a) = <<a>> \o RemoveAt(recent, i)
  <2>1. PICK j \in DOMAIN recent : recent[j] = a /\ Used(a) = <<a>> \o RemoveAt(recent, j)
    BY <1>3, <1>4, UsedIs, Zenon DEF Recency
  <2>2. j = i BY <1>3, <1>4, <2>1, Zenon DEF Recency, Distinct
  <2> QED BY <2>1, <2>2, Zenon
<1>6. RemoveAt(l, i) \in Seq(TrueEntries) /\ RemoveAt(recent, i) \in Seq(Nat)
  BY <1>1, <1>3, RemoveAtStays, Zenon DEF Recency
<1> HIDE DEF i, l
<1>7. Leads(<<e>> \o RemoveAt(l, i), <<e.key>> \o RemoveAt(recent, i)) BY <1>3, <1>6, PushLeads, Zenon
<1> QED BY <1>5, <1>7, Zenon DEF i, l

\* A blob that is not in the cache comes to the front, after n evictions.
LEMMA BroughtIn ==
  ASSUME Recency, cache.list \in Seq(TrueEntries), NEW a \in Nat, a \notin Items(cache), NEW e \in TrueEntries,
         e.key = a, NEW n \in 0..Len(cache.list)
  PROVE  Leads(<<e>> \o SubSeq(cache.list, 1, n), Used(a))
<1> DEFINE l == cache.list
           m == SubSeq(l, 1, n)
<1>1. /\ m \in Seq(TrueEntries) /\ Leads(m, recent)
      /\ \A i \in DOMAIN recent : i \notin DOMAIN l => Leads(m, RemoveAt(recent, i))
  BY CutLeads, Zenon DEF Recency
<1>2. \A i \in DOMAIN l : l[i].key # a BY Zenon DEF Items
<1>3. \A i \in DOMAIN recent : recent[i] = a => i \notin DOMAIN l BY <1>2, Zenon DEF Recency, Leads
<1> HIDE DEF m
<1>4. CASE Used(a) = <<a>> \o recent BY <1>1, <1>4, PushLeads, Zenon DEF Recency, m
<1>5. ASSUME NEW i \in DOMAIN recent, recent[i] = a, Used(a) = <<a>> \o RemoveAt(recent, i)
      PROVE  Leads(<<e>> \o m, Used(a))
  <2>1. RemoveAt(recent, i) \in Seq(Nat) BY RemoveAtStays, Zenon DEF Recency
  <2>2. Leads(m, RemoveAt(recent, i)) BY <1>1, <1>3, <1>5, Zenon
  <2> QED BY <1>1, <1>5, <2>1, <2>2, PushLeads, Zenon
<1> QED BY <1>4, <1>5, UsedIs, Zenon DEF Recency, m

LEMMA RecencyKept ==
  ASSUME RequestsRight, CacheTrue, Recency, [Next]_vars
  PROVE  Recency'
<1>a. maxBytes' = maxBytes
  BY Zenon DEF Next, vars, PutWrite, PutIndex, PutFails, GetMeta, LoadFails, Delete, Lookup, Load
<1>0. ASSUME UNCHANGED <<cache, recent>> PROVE Recency' BY <1>0, <1>a, Zenon DEF Recency
<1>1. \A a \in Addresses : a \in Nat BY DEF Addresses, RequestsRight
<1>2. ASSUME NEW a \in Addresses, recent' = Used(a), Leads(cache'.list, Used(a)) PROVE Recency'
  <2>1. Used(a) \in Seq(Nat) /\ Distinct(Used(a)) BY <1>1, UsedIs, Zenon DEF Recency
  <2> QED BY <1>a, <1>2, <2>1, Zenon DEF Recency
<1>3. CASE UNCHANGED vars BY <1>0, <1>3, Zenon DEF vars
<1>4. ASSUME NEW p \in Requests, PutWrite(p) \/ PutIndex(p) \/ PutFails(p) \/ GetMeta(p) \/ LoadFails(p) PROVE Recency'
  BY <1>0, <1>4, Zenon DEF PutWrite, PutIndex, PutFails, GetMeta, LoadFails
<1>5. ASSUME NEW k \in Keys, Delete(k) PROVE Recency' BY <1>0, <1>5, Zenon DEF Delete
<1>6. ASSUME NEW p \in Requests, Lookup(p) PROVE Recency'
  <2> DEFINE a == req[p].addr
             i == Position(cache, a)
  <2>1. CASE a \in Items(cache) /\ cache' = get(cache, a) /\ recent' = Used(a)
    <3>1. a \in Addresses /\ cache.list[i] = Entry(a, Data(a)) BY <2>1, Found, Zenon DEF CacheTrue
    <3>2. Entry(a, Data(a)) \in TrueEntries /\ Entry(a, Data(a)).key = a BY <3>1, Zenon DEF TrueEntries, Entry
    <3>3. cache'.list = <<cache.list[i]>> \o RemoveAt(cache.list, i)
      BY <2>1, Zenon DEF get, MoveToFront, CacheTrue
    <3>4. Leads(<<Entry(a, Data(a))>> \o RemoveAt(cache.list, i), Used(a))
      BY <1>1, <2>1, <3>1, <3>2, MovedUp, Zenon DEF CacheTrue
    <3> QED BY <1>2, <2>1, <3>1, <3>3, <3>4, Zenon
  <2> QED BY <1>0, <1>6, <2>1, Zenon DEF Lookup
<1>7. ASSUME NEW p \in Requests, Load(p) PROVE Recency'
  <2> DEFINE a == req[p].addr
             i == Position(cache, a)
             e == Entry(a, Data(a))
  <2>1. a \in Addresses BY <1>7, Zenon DEF Load, RequestsRight, Right, Addresses
  <2>2. e \in TrueEntries /\ e.key = a /\ a \in Nat BY <1>1, <2>1, Zenon DEF TrueEntries, Entry
  <2>3. Len(Data(a)) = blobs[a]
    <3>1. blobs[a] \in Nat BY <2>1 DEF RequestsRight, Addresses
    <3>2. \A n \in Nat : Len([j \in 1..n |-> <<a, j>>]) = n OBVIOUS
    <3> QED BY <3>1, <3>2, Zenon DEF Data
  <2>4. CASE UNCHANGED <<cache, recent>> BY <1>0, <2>4, Zenon
  <2>5. CASE ~UNCHANGED <<cache, recent>>
    <3>1. /\ set(cache, a, Data(a), maxBytes, cache')
          /\ recent' = IF blobs[a] <= maxBytes THEN Used(a) ELSE recent
      BY <1>7, <2>5, Zenon DEF Load
    <3>2. blobs[a] <= maxBytes <=> ~(Len(Data(a)) > maxBytes)
      <4>1. blobs[a] \in Nat BY <2>1 DEF RequestsRight, Addresses
      <4>2. maxBytes \in Nat BY Zenon DEF Recency
      <4> QED BY <2>3, <4>1, <4>2
    <3>3. ~(Len(Data(a)) > maxBytes) /\ recent' = Used(a) BY <2>5, <3>1, <3>2, Zenon DEF set
    <3>4. CASE a \in Items(cache)
      <4>1. cache' = Refresh(cache, i, Data(a)) BY <3>1, <3>3, <3>4, Zenon DEF set
      <4>2. cache.list[i] = e BY <3>4, Found, Zenon DEF CacheTrue
      <4>3. [cache.list[i] EXCEPT !.value = Data(a)] = e BY <4>2 DEF Entry
      <4>4. cache'.list = <<e>> \o RemoveAt(cache.list, i) BY <4>1, <4>3, Zenon DEF Refresh
      <4> HIDE DEF e
      <4>5. Leads(<<e>> \o RemoveAt(cache.list, i), Used(a)) BY <2>2, <3>4, MovedUp, Zenon DEF CacheTrue
      <4> QED BY <1>2, <2>1, <3>3, <4>4, <4>5, Zenon
    <3>5. CASE a \notin Items(cache)
      <4>1. PICK n \in Rounds(cache, Len(Data(a)), maxBytes) : cache' = PushFront(evictLRU(cache, n), a, Data(a))
        BY <3>1, <3>3, <3>5, Zenon DEF set
      <4>2. n \in 0..Len(cache.list) BY Zenon DEF Rounds
      <4>3. Len(cache.list) - n \in 0..Len(cache.list) BY <4>2 DEF CacheTrue
      <4>4. cache'.list = <<e>> \o SubSeq(cache.list, 1, Len(cache.list) - n)
        BY <4>1, Zenon DEF PushFront, evictLRU
      <4> HIDE DEF e
      <4>5. Leads(<<e>> \o SubSeq(cache.list, 1, Len(cache.list) - n), Used(a))
        BY <2>2, <3>5, <4>3, BroughtIn, Zenon DEF CacheTrue
      <4> QED BY <1>2, <2>1, <3>3, <4>4, <4>5, Zenon
    <3> QED BY <3>4, <3>5, Zenon
  <2> QED BY <2>4, <2>5, Zenon
<1> QED BY <1>3, <1>4, <1>5, <1>6, <1>7, Zenon DEF Next

\* KeepsRecent, for any sizes of blobs and of the cache and any interleaving of
\* requests: LRUCache.get and set keep the list in the order of use, and what
\* evictLRU throws out was used before everything that stays.
THEOREM CacheKeepsRecent == Spec => []KeepsRecent
<1>1. Init => Recency BY BlobsConstants DEF Init, Recency, EmptyCache, Distinct, Leads
<1>2. BlobsInv /\ Recency /\ [Next]_vars => Recency' BY RecencyKept, Zenon DEF BlobsInv
<1>3. Recency => KeepsRecent BY Zenon DEF Recency, Leads, KeepsRecent
<1> QED BY <1>1, <1>2, <1>3, BlobsInvHolds, PTL DEF Spec


-----------------------------------------------------------------------------
(* Types *)

\* What is left of TypeOK: what BlobsInv and Recency do not say.
Typed ==
  /\ blobs \in Seq(Sizes) /\ Len(blobs) <= MaxPuts /\ maxBytes \in CacheSizes
  /\ answer.status \in Statuses
  /\ recent \in Seq(Addresses)

LEMMA TypedKept ==
  ASSUME RequestsRight, CacheTrue, Recency, Typed, [Next]_vars
  PROVE  Typed'
<1>a. maxBytes' = maxBytes /\ maxBytes \in CacheSizes
  BY Zenon DEF Next, vars, PutWrite, PutIndex, PutFails, GetMeta, LoadFails, Delete, Lookup, Load, Typed
<1>1. answer'.status \in Statuses
  <2>1. CASE UNCHANGED vars BY <2>1, Zenon DEF vars, Typed
  <2>a. 0 \in Statuses /\ 200 \in Statuses /\ 206 \in Statuses /\ 404 \in Statuses /\ 416 \in Statuses
        /\ 500 \in Statuses
    BY DEF Statuses
  <2>2. CASE answer' = NoAnswer BY <2>a, <2>2, Zenon DEF NoAnswer
  <2>3. ASSUME NEW r, NEW s \in Statuses, NEW b, answer' = Answered(r, s, b)
        PROVE  answer'.status \in Statuses
    BY <2>3, Zenon DEF Answered
  <2>4. ASSUME NEW p \in Requests, NEW d, Reply(p, d) PROVE answer'.status \in Statuses
    <3> DEFINE s == IF req[p].range = NoRange THEN 200 ELSE 206
    <3>1. answer' = Answered(req[p], s, Slice(d, req[p].start, req[p].length)) BY <2>4, Zenon DEF Reply
    <3>2. s \in Statuses BY <2>a, Zenon
    <3> HIDE DEF s
    <3> QED BY <2>3, <3>1, <3>2, Zenon
  <2>5. ASSUME NEW p \in Requests, GetMeta(p) PROVE answer'.status \in Statuses
    <3>1. PICK k \in Keys, range \in Ranges :
            LET r == Request("idle", None, index[k], range, 0, 0) IN
            IF index[k] # None /\ PartOf(range, blobs[index[k]]).ok THEN answer' = NoAnswer
            ELSE answer' = Answered(r, IF index[k] = None THEN 404 ELSE 416, <<>>)
      BY <2>5 DEF GetMeta
    <3>2. (IF index[k] = None THEN 404 ELSE 416) \in Statuses BY <2>a, Zenon
    <3>3. CASE answer' = Answered(Request("idle", None, index[k], range, 0, 0),
                                  IF index[k] = None THEN 404 ELSE 416, <<>>)
      BY <3>2, <3>3, Zenon DEF Answered
    <3> QED BY <2>2, <3>1, <3>3, Zenon
  <2>6. ASSUME NEW p \in Requests, LoadFails(p) PROVE answer'.status \in Statuses
    <3>1. answer' = Answered(req[p], 500, <<>>) BY <2>6, Zenon DEF LoadFails
    <3> QED BY <2>a, <3>1, Zenon DEF Answered
  <2> QED BY <2>1, <2>2, <2>4, <2>5, <2>6, Zenon DEF Next, PutWrite, PutIndex, PutFails, Delete, Lookup, Load
<1>2. CASE \E p \in Requests : PutWrite(p)
  <2>1. PICK size \in Sizes : blobs' = Append(blobs, size) /\ Len(blobs) < MaxPuts /\ recent' = recent
    BY <1>2, Zenon DEF PutWrite
  <2>2. blobs' \in Seq(Sizes) /\ Len(blobs') <= MaxPuts BY <2>1, BlobsConstants DEF Typed
  <2>3. Addresses \subseteq Addresses' BY <2>1, BlobsConstants, Written, Zenon
  <2>4. recent \in Seq(Addresses') BY <2>3 DEF Typed
  <2> QED BY <1>a, <1>1, <2>1, <2>2, <2>4, Zenon DEF Typed
<1>3. CASE ~\E p \in Requests : PutWrite(p)
  <2>1. blobs' = blobs /\ Addresses' = Addresses
    BY <1>3, Zenon DEF Addresses, Next, vars, PutIndex, PutFails, GetMeta, LoadFails, Delete, Lookup, Load
  <2>2. recent' = recent \/ \E p \in Requests : req[p].pc \in {"lookup", "load"} /\ recent' = Used(req[p].addr)
    BY <1>3, Zenon DEF Next, vars, PutIndex, PutFails, GetMeta, LoadFails, Delete, Lookup, Load
  <2>3. ASSUME NEW p \in Requests, req[p].pc \in {"lookup", "load"}, recent' = Used(req[p].addr)
        PROVE  recent' \in Seq(Addresses)
    <3>1. req[p].addr \in Addresses BY <2>3, Zenon DEF RequestsRight, Right, Addresses
    <3> QED BY <2>3, <3>1, UsedIs, Zenon DEF Recency, Typed
  <2>4. recent' \in Seq(Addresses) BY <2>2, <2>3, Zenon DEF Typed
  <2> QED BY <1>a, <1>1, <2>1, <2>4, Zenon DEF Typed
<1> QED BY <1>2, <1>3, Zenon

\* Every variable keeps its type: addresses in the index, in requests, in the cache
\* and in its history are those of blobs that were written.
THEOREM TypeCorrect == Spec => []TypeOK
<1>1. Init => Recency /\ Typed
  <2> SUFFICES ASSUME Init PROVE Recency /\ Typed BY Zenon
  <2>1. blobs = <<>> /\ recent = <<>> /\ cache = EmptyCache /\ maxBytes \in CacheSizes /\ answer = NoAnswer
    BY Zenon DEF Init
  <2>2. answer.status \in Statuses BY <2>1 DEF NoAnswer, Statuses
  <2> QED BY <2>1, <2>2, BlobsConstants DEF Recency, Typed, EmptyCache, Distinct, Leads
<1>2. BlobsInv /\ Recency /\ Typed /\ [Next]_vars => Recency' /\ Typed'
  BY RecencyKept, TypedKept, Zenon DEF BlobsInv
<1>3. BlobsInv /\ Recency /\ Typed => TypeOK
  <2> SUFFICES ASSUME BlobsInv, Recency, Typed PROVE TypeOK BY Zenon
  <2>1. TrueEntries \subseteq Entries
    <3>1. ASSUME NEW a \in Addresses PROVE Data(a) \in Seq(Addresses \X Nat)
      <4>1. blobs[a] \in Nat BY DEF BlobsInv, RequestsRight, Addresses
      <4>2. \A i \in 1..blobs[a] : <<a, i>> \in Addresses \X Nat BY <4>1
      <4>3. \A n \in Nat : (\A i \in 1..n : <<a, i>> \in Addresses \X Nat)
                             => [i \in 1..n |-> <<a, i>>] \in Seq(Addresses \X Nat)
        OBVIOUS
      <4> QED BY <4>1, <4>2, <4>3, Zenon DEF Data
    <3>2. ASSUME NEW a \in Addresses PROVE Entry(a, Data(a)) \in Entries
      BY <3>1, Zenon DEF Entries, Entry
    <3> QED BY <3>2, Zenon DEF TrueEntries
  <2>2. cache.list \in Seq(Entries)
    <3>1. \A i \in DOMAIN cache.list : cache.list[i] \in Entries BY <2>1 DEF BlobsInv, CacheTrue
    <3> QED BY <3>1 DEF BlobsInv, CacheTrue
  <2>3. recent \in Seq(Addresses) BY Zenon DEF Typed
  <2>4. req \in [Requests -> [pc : {"idle", "put", "lookup", "load"}, key : Keys \cup {None},
                           addr : Addresses \cup {None}, range : Ranges \cup {NoRange},
                           start : Nat, length : Int]]
    BY Zenon DEF BlobsInv, RequestsRight, Right, Addresses
  <2> QED BY <2>2, <2>3, <2>4, Zenon DEF TypeOK, Typed, BlobsInv, RequestsRight
<1> QED BY <1>1, <1>2, <1>3, BlobsInvHolds, PTL DEF Spec

-----------------------------------------------------------------------------
(* The bytes the cache counts *)
LOCAL INSTANCE WellFoundedInduction

LEMMA LeastOf ==
  ASSUME NEW T \in SUBSET Nat, T # {}
  PROVE  \E x \in T : \A y \in T : x <= y
<1> DEFINE R == OpToRel(<, Nat)
<1>1. IsWellFoundedOn(R, Nat) BY NatLessThanWellFounded, Zenon
<1>2. \A x, y \in Nat : <<x, y>> \in R <=> x < y BY Zenon DEF OpToRel
<1> HIDE DEF R
<1>3. PICK x \in T : \A y \in T : ~(<<y, x>> \in R) BY <1>1, WFMin, Zenon
<1>4. ASSUME NEW y \in T PROVE x <= y
  <2>1. x \in Nat /\ y \in Nat /\ ~(y < x) BY <1>2, <1>3, Zenon
  <2> QED BY <2>1
<1> QED BY <1>4, Zenon

\* f sums the first n of the weights w up to n = N.
Sums(f, w, N) ==
  f \in [0..N -> Nat] /\ f[0] = 0 /\ \A n \in 1..N : f[n] = f[n - 1] + w[n]

LEMMA SumsExist ==
  ASSUME NEW N \in Nat, NEW w \in [1..N -> Nat]
  PROVE  \E f : Sums(f, w, N)
<1> DEFINE T == {n \in 0..N : ~\E f : Sums(f, w, n)}
<1>1. ASSUME T # {} PROVE FALSE
  <2>1. T \in SUBSET Nat OBVIOUS
  <2>2. PICK m \in T : \A y \in T : m <= y
    <3> HIDE DEF T
    <3> QED BY <1>1, <2>1, LeastOf, Zenon
  <2>3. m \in 0..N /\ ~\E f : Sums(f, w, m) BY <2>2, Zenon
  <2>4. CASE m = 0
    <3>1. Sums([n \in 0..0 |-> 0], w, 0) BY DEF Sums
    <3> QED BY <2>3, <2>4, <3>1, Zenon
  <2>5. CASE m # 0
    <3>1. m - 1 \in 0..N /\ ~(m <= m - 1) /\ m \in 1..N BY <2>3, <2>5
    <3>2. PICK g : Sums(g, w, m - 1) BY <2>2, <3>1, Zenon
    <3> DEFINE f == [n \in 0..m |-> IF n = m THEN g[m - 1] + w[m] ELSE g[n]]
    <3>3. g \in [0..(m - 1) -> Nat] /\ g[0] = 0 /\ \A n \in 1..(m - 1) : g[n] = g[n - 1] + w[n]
      BY <3>2, Zenon DEF Sums
    <3>4. w[m] \in Nat BY <3>1, Zenon
    <3>5. f \in [0..m -> Nat] BY <3>1, <3>3, <3>4
    <3>6. f[0] = 0 BY <3>1, <3>3
    <3>7. ASSUME NEW n \in 1..m PROVE f[n] = f[n - 1] + w[n]
      <4>1. n - 1 \in 0..m /\ n - 1 # m /\ n \in 0..m BY <3>1
      <4>2. f[n - 1] = g[n - 1] BY <4>1, Zenon
      <4>3. CASE n = m BY <4>1, <4>2, <4>3, Zenon
      <4>4. CASE n # m
        <5>1. n \in 1..(m - 1) BY <3>1, <4>4
        <5>2. f[n] = g[n] BY <4>1, <4>4, Zenon
        <5> QED BY <3>3, <4>2, <5>1, <5>2, Zenon
      <4> QED BY <4>3, <4>4, Zenon
    <3> HIDE DEF f
    <3> QED BY <2>3, <3>5, <3>6, <3>7, Zenon DEF Sums
  <2> QED BY <2>4, <2>5, Zenon
<1>2. N \in 0..N OBVIOUS
<1> QED BY <1>1, <1>2, Zenon

\* The K weights after a in v are those after b in w.
Match(f, v, M, a, g, w, N, b, K) ==
  /\ M \in Nat /\ v \in [1..M -> Nat] /\ Sums(f, v, M) /\ a \in Nat /\ a + K <= M
  /\ N \in Nat /\ w \in [1..N -> Nat] /\ Sums(g, w, N) /\ b \in Nat /\ b + K <= N
  /\ K \in Nat /\ \A i \in 1..K : v[a + i] = w[b + i]

\* Equal weights, equal sums, wherever they stand.
LEMMA SumsMatch ==
  ASSUME NEW f, NEW v, NEW M, NEW a, NEW g, NEW w, NEW N, NEW b, NEW K, Match(f, v, M, a, g, w, N, b, K)
  PROVE  f[a + K] + g[b] = g[b + K] + f[a]
<1>0. /\ M \in Nat /\ v \in [1..M -> Nat] /\ Sums(f, v, M) /\ a \in Nat /\ a + K <= M
      /\ N \in Nat /\ w \in [1..N -> Nat] /\ Sums(g, w, N) /\ b \in Nat /\ b + K <= N
      /\ K \in Nat /\ \A i \in 1..K : v[a + i] = w[b + i]
  BY Zenon DEF Match
<1> DEFINE T == {k \in 0..K : f[a + k] + g[b] # g[b + k] + f[a]}
<1>1. ASSUME T # {} PROVE FALSE
  <2>1. T \in SUBSET Nat BY <1>0
  <2>2. PICK m \in T : \A y \in T : m <= y
    <3> HIDE DEF T
    <3> QED BY <1>1, <2>1, LeastOf, Zenon
  <2>3. m \in 0..K /\ f[a + m] + g[b] # g[b + m] + f[a] BY <2>2, Zenon
  <2>0. f \in [0..M -> Nat] /\ g \in [0..N -> Nat] BY <1>0, Zenon DEF Sums
  <2>4. CASE m = 0
    <3>1. a + 0 = a /\ b + 0 = b /\ a \in 0..M /\ b \in 0..N BY <1>0
    <3>2. f[a] \in Nat /\ g[b] \in Nat BY <2>0, <3>1, Zenon
    <3>3. f[a] + g[b] = g[b] + f[a] BY <3>2
    <3> QED BY <2>3, <2>4, <3>1, <3>3, Zenon
  <2>5. CASE m # 0
    <3>1. m - 1 \in 0..K /\ ~(m <= m - 1) /\ m \in 1..K BY <1>0, <2>3, <2>5
    <3>2. f[a + (m - 1)] + g[b] = g[b + (m - 1)] + f[a] BY <2>2, <3>1, Zenon
    <3>3. /\ a + m \in 1..M /\ b + m \in 1..N /\ (a + m) - 1 = a + (m - 1) /\ (b + m) - 1 = b + (m - 1)
          /\ a + (m - 1) \in 0..M /\ b + (m - 1) \in 0..N /\ a \in 0..M /\ b \in 0..N
      BY <1>0, <3>1
    <3>4. f[a + m] = f[a + (m - 1)] + v[a + m] /\ g[b + m] = g[b + (m - 1)] + w[b + m]
      BY <1>0, <3>3, Zenon DEF Sums
    <3>5. v[a + m] = w[b + m] /\ v[a + m] \in Nat BY <1>0, <3>1, <3>3, Zenon
    <3>6. f[a + (m - 1)] \in Nat /\ g[b + (m - 1)] \in Nat /\ f[a] \in Nat /\ g[b] \in Nat
      BY <2>0, <3>3, Zenon
    <3>7. f[a + m] + g[b] = g[b + m] + f[a]
      <4> DEFINE x == f[a + (m - 1)]
                 y == g[b + (m - 1)]
                 z == v[a + m]
                 p == f[a]
                 q == g[b]
      <4>1. f[a + m] = x + z /\ g[b + m] = y + z BY <3>4, <3>5, Zenon
      <4>2. x \in Nat /\ y \in Nat /\ z \in Nat /\ p \in Nat /\ q \in Nat BY <3>5, <3>6, Zenon
      <4>3. x + q = y + p BY <3>2, Zenon
      <4> HIDE DEF x, y, z, p, q
      <4>4. (x + z) + q = (y + z) + p BY <4>2, <4>3
      <4> QED BY <4>1, <4>4, Zenon DEF p, q
    <3> QED BY <2>3, <3>7, Zenon
  <2> QED BY <2>4, <2>5, Zenon
<1>2. K \in 0..K BY <1>0
<1> QED BY <1>1, <1>2, Zenon
Weights(l) == [i \in 1..Len(l) |-> Len(l[i].value)]
Weighed(l) == Len(l) \in Nat /\ Weights(l) \in [1..Len(l) -> Nat]

\* What Bytes and its recursive function give.
LEMMA BytesAre ==
  ASSUME NEW l, Weighed(l)
  PROVE  \E f : Sums(f, Weights(l), Len(l)) /\ Bytes(l) = f[Len(l)]
<1> DEFINE N == Len(l)
           w == Weights(l)
           Is(s) == s = [n \in 0..N |-> IF n = 0 THEN 0 ELSE s[n - 1] + Len(l[n].value)]
           s == FirstBytes(l)
<1>1. N \in Nat /\ w \in [1..N -> Nat] BY Zenon DEF Weighed
<1>2. PICK f : Sums(f, w, N)
  <2> HIDE DEF N, w
  <2> QED BY <1>1, SumsExist, Zenon
<1>3. \A n \in 0..N : n = 0 \/ n \in 1..N BY <1>1
<1>4. \A n \in 1..N : w[n] = Len(l[n].value) BY Zenon DEF Weights
<1>5. f \in [0..N -> Nat] /\ f[0] = 0 /\ \A n \in 1..N : f[n] = f[n - 1] + w[n]
  BY <1>2, Zenon DEF Sums
<1>6. Is(f)
  <2> HIDE DEF N, w
  <2>1. \A n \in 0..N : f[n] = IF n = 0 THEN 0 ELSE f[n - 1] + Len(l[n].value)
    BY <1>3, <1>4, <1>5, Zenon
  <2> QED BY <1>5, <2>1, Zenon
<1>7. s = CHOOSE z : Is(z) BY DEF FirstBytes
<1>8. Is(s)
  <2> HIDE DEF s
  <2> QED BY <1>6, <1>7, Zenon
<1> HIDE DEF s, w
<1>9. \A n \in 0..N : s[n] = IF n = 0 THEN 0 ELSE s[n - 1] + Len(l[n].value)
  <2> HIDE DEF N
  <2> QED BY <1>8, Zenon
<1> HIDE DEF Is, N
<1> DEFINE T == {n \in 0..N : s[n] # f[n]}
<1>10. ASSUME T # {} PROVE FALSE
  <2>1. T \in SUBSET Nat BY <1>1
  <2>2. PICK m \in T : \A y \in T : m <= y
    <3> HIDE DEF T
    <3> QED BY <1>10, <2>1, LeastOf, Zenon
  <2>3. m \in 0..N /\ s[m] # f[m] BY <2>2, Zenon
  <2>4. CASE m = 0 BY <1>5, <1>9, <2>3, <2>4, Zenon
  <2>5. CASE m # 0
    <3>1. m - 1 \in 0..N /\ ~(m <= m - 1) /\ m \in 1..N BY <1>1, <2>3, <2>5
    <3>2. s[m - 1] = f[m - 1] BY <2>2, <3>1, Zenon
    <3>3. s[m] = s[m - 1] + w[m] BY <1>4, <1>9, <2>3, <2>5, <3>1, Zenon
    <3> QED BY <1>5, <2>3, <3>1, <3>2, <3>3, Zenon
  <2> QED BY <2>4, <2>5, Zenon
<1>11. N \in 0..N BY <1>1
<1>12. s[N] = f[N] BY <1>10, <1>11, Zenon
<1>13. Bytes(l) = s[N] BY Zenon DEF Bytes, s, N
<1> QED BY <1>2, <1>12, <1>13, Zenon DEF N, w

\* List l is p and q one after the other.
Joins(l, p, q) ==
  /\ Weighed(l) /\ Weighed(p) /\ Weighed(q) /\ Len(l) = Len(p) + Len(q)
  /\ \A i \in 1..Len(p) : l[i] = p[i]
  /\ \A i \in 1..Len(q) : l[Len(p) + i] = q[i]

LEMMA BytesJoin ==
  ASSUME NEW l, NEW p, NEW q, Joins(l, p, q)
  PROVE  Bytes(l) = Bytes(p) + Bytes(q) /\ Bytes(p) \in Nat /\ Bytes(q) \in Nat
<1>0. /\ Weighed(l) /\ Weighed(p) /\ Weighed(q) /\ Len(l) = Len(p) + Len(q)
      /\ \A i \in 1..Len(p) : l[i] = p[i]
      /\ \A i \in 1..Len(q) : l[Len(p) + i] = q[i]
  BY Zenon DEF Joins
<1>1. PICK f : Sums(f, Weights(l), Len(l)) /\ Bytes(l) = f[Len(l)] BY <1>0, BytesAre, Zenon
<1>2. PICK g : Sums(g, Weights(p), Len(p)) /\ Bytes(p) = g[Len(p)] BY <1>0, BytesAre, Zenon
<1>3. PICK h : Sums(h, Weights(q), Len(q)) /\ Bytes(q) = h[Len(q)] BY <1>0, BytesAre, Zenon
<1>4. Len(l) \in Nat /\ Len(p) \in Nat /\ Len(q) \in Nat BY <1>0, Zenon DEF Weighed
<1> DEFINE u == Weights(l)
           v == Weights(p)
           w == Weights(q)
<1>5. u \in [1..Len(l) -> Nat] /\ v \in [1..Len(p) -> Nat] /\ w \in [1..Len(q) -> Nat] BY <1>0, Zenon DEF Weighed
<1>z. PICK z \in Nat : z = 0 OBVIOUS
<1>6. \A i \in 1..Len(p) : u[z + i] = v[z + i]
  <2>1. \A i \in 1..Len(p) : i \in 1..Len(l) /\ z + i = i BY <1>0, <1>4, <1>z
  <2> QED BY <1>0, <2>1, Zenon DEF Weights
<1>7. \A i \in 1..Len(q) : u[Len(p) + i] = w[z + i]
  <2>1. \A i \in 1..Len(q) : Len(p) + i \in 1..Len(l) /\ z + i = i BY <1>0, <1>4, <1>z
  <2> QED BY <1>0, <2>1, Zenon DEF Weights
<1>a. Sums(f, u, Len(l)) /\ Sums(g, v, Len(p)) /\ Sums(h, w, Len(q)) BY <1>1, <1>2, <1>3, Zenon
<1> HIDE DEF u, v, w
<1>8. z + Len(p) = Len(p) /\ z + Len(p) <= Len(l) /\ z + Len(p) <= Len(p) BY <1>0, <1>4, <1>z
<1>9. f[z + Len(p)] + g[z] = g[z + Len(p)] + f[z]
  <2>1. Match(f, u, Len(l), z, g, v, Len(p), z, Len(p)) BY <1>a, <1>4, <1>5, <1>6, <1>8, Zenon DEF Match
  <2> QED BY <2>1, SumsMatch, SMT
<1>10. z + Len(q) = Len(q) /\ Len(p) + Len(q) <= Len(l) /\ z + Len(q) <= Len(q) BY <1>0, <1>4, <1>z
<1>11. f[Len(p) + Len(q)] + h[z] = h[z + Len(q)] + f[Len(p)]
  <2>1. Match(f, u, Len(l), Len(p), h, w, Len(q), z, Len(q)) BY <1>a, <1>4, <1>5, <1>7, <1>10, Zenon DEF Match
  <2> QED BY <2>1, SumsMatch, SMT
<1>12. f[0] = 0 /\ g[0] = 0 /\ h[0] = 0 /\ f \in [0..Len(l) -> Nat] /\ g \in [0..Len(p) -> Nat]
       /\ h \in [0..Len(q) -> Nat]
  BY <1>1, <1>2, <1>3, Zenon DEF Sums
<1>13. Len(p) \in 0..Len(l) /\ Len(l) \in 0..Len(l) /\ Len(p) \in 0..Len(p) /\ Len(q) \in 0..Len(q) BY <1>0, <1>4
<1>14. f[Len(p)] \in Nat /\ f[Len(l)] \in Nat /\ g[Len(p)] \in Nat /\ h[Len(q)] \in Nat
  BY <1>12, <1>13, Zenon
<1>15. f[Len(p)] = g[Len(p)]
  <2>1. f[Len(p)] + 0 = g[Len(p)] + 0 BY <1>8, <1>9, <1>12, <1>z, Zenon
  <2> QED BY <1>14, <2>1
<1>16. f[Len(l)] = h[Len(q)] + f[Len(p)]
  <2>1. f[Len(l)] + 0 = h[Len(q)] + f[Len(p)] BY <1>0, <1>10, <1>11, <1>12, <1>z, Zenon
  <2> QED BY <1>14, <2>1
<1> QED BY <1>1, <1>2, <1>3, <1>14, <1>15, <1>16

LEMMA EntryWeight ==
  ASSUME blobs \in Seq(Nat), NEW e \in TrueEntries
  PROVE  Len(e.value) \in Nat
<1>1. PICK a \in Addresses : e = Entry(a, Data(a)) BY Zenon DEF TrueEntries
<1>2. blobs[a] \in Nat BY DEF Addresses
<1>3. \A n \in Nat : Len([j \in 1..n |-> <<a, j>>]) = n OBVIOUS
<1>4. e.value = Data(a) BY <1>1, Zenon DEF Entry
<1> QED BY <1>2, <1>3, <1>4, Zenon DEF Data

LEMMA SeqElements ==
  ASSUME NEW S, NEW q \in Seq(S)
  PROVE  Len(q) \in Nat /\ \A i \in 1..Len(q) : q[i] \in S
OBVIOUS

LEMMA EntriesWeighed ==
  ASSUME blobs \in Seq(Nat), NEW l \in Seq(TrueEntries)
  PROVE  Weighed(l)
<1>1. Len(l) \in Nat /\ \A i \in 1..Len(l) : l[i] \in TrueEntries BY SeqElements, Zenon
<1>2. \A i \in 1..Len(l) : Len(l[i].value) \in Nat BY <1>1, EntryWeight, Zenon
<1> QED BY <1>1, <1>2, Zenon DEF Weighed, Weights

LEMMA OneBytes ==
  ASSUME blobs \in Seq(Nat), NEW p \in Seq(TrueEntries), Len(p) = 1
  PROVE  Bytes(p) = Len(p[1].value)
<1>1. PICK f : Sums(f, Weights(p), Len(p)) /\ Bytes(p) = f[Len(p)] BY EntriesWeighed, BytesAre, Zenon
<1>a. 1 \in 1..Len(p) /\ 1 - 1 = 0 OBVIOUS
<1>b. \A i \in 1..Len(p) : p[i] \in TrueEntries BY SeqElements, Zenon
<1>2. 1 \in 1..Len(p) /\ 1 - 1 = 0 /\ p[1] \in TrueEntries BY <1>a, <1>b, Zenon
<1>3. Weights(p)[1] = Len(p[1].value) BY <1>2, Zenon DEF Weights
<1>4. f[1] = f[1 - 1] + Weights(p)[1] /\ f[0] = 0 BY <1>1, <1>2, Zenon DEF Sums
<1>5. f[1] = 0 + Len(p[1].value) BY <1>2, <1>3, <1>4, Zenon
<1>6. Len(p[1].value) \in Nat BY <1>2, EntryWeight, Zenon
<1>7. f[1] = Len(p[1].value) BY <1>5, <1>6
<1> QED BY <1>1, <1>7, Zenon

\* The bytes of a list with one entry more at the front.
LEMMA PushBytes ==
  ASSUME blobs \in Seq(Nat), NEW e \in TrueEntries, NEW l \in Seq(TrueEntries)
  PROVE  Bytes(<<e>> \o l) = Len(e.value) + Bytes(l) /\ Bytes(l) \in Nat
<1> DEFINE p == <<e>>
           q == p \o l
<1>1. p \in Seq(TrueEntries) /\ Len(p) = 1 /\ p[1] = e OBVIOUS
<1> HIDE DEF p
<1>2. /\ q \in Seq(TrueEntries) /\ Len(q) = Len(p) + Len(l)
      /\ \A i \in 1..(Len(p) + Len(l)) : q[i] = IF i <= Len(p) THEN p[i] ELSE l[i - Len(p)]
  BY <1>1, SeqJoin, Zenon
<1> HIDE DEF q
<1>3. Len(l) \in Nat OBVIOUS
<1>4. \A i \in 1..Len(p) : q[i] = p[i] BY <1>1, <1>2, <1>3
<1>5. \A i \in 1..Len(l) : q[Len(p) + i] = l[i]
  <2>1. \A i \in 1..Len(l) : Len(p) + i \in 1..(Len(p) + Len(l)) /\ ~(Len(p) + i <= Len(p)) /\ (Len(p) + i) - Len(p) = i
    BY <1>1, <1>3
  <2> QED BY <1>2, <2>1, Zenon
<1>6. Weighed(p) /\ Weighed(l) /\ Weighed(q) BY <1>1, <1>2, EntriesWeighed, Zenon
<1>7. Bytes(q) = Bytes(p) + Bytes(l) /\ Bytes(p) \in Nat /\ Bytes(l) \in Nat
  <2>1. Joins(q, p, l) BY <1>2, <1>4, <1>5, <1>6, Zenon DEF Joins
  <2> QED BY <2>1, BytesJoin, Zenon
<1>8. Bytes(p) = Len(e.value) BY <1>1, OneBytes, Zenon
<1> QED BY <1>7, <1>8, Zenon DEF p, q

\* The bytes of a list cut in two.
LEMMA CutBytes ==
  ASSUME blobs \in Seq(Nat), NEW l \in Seq(TrueEntries), NEW n \in 0..Len(l)
  PROVE  LET p == SubSeq(l, 1, n)
             q == SubSeq(l, n + 1, Len(l))
         IN  Bytes(l) = Bytes(p) + Bytes(q) /\ Bytes(p) \in Nat /\ Bytes(q) \in Nat
<1> DEFINE p == SubSeq(l, 1, n)
           q == SubSeq(l, n + 1, Len(l))
<1>1. Len(l) \in Nat /\ n \in Nat /\ n <= Len(l) OBVIOUS
<1>2. p \in Seq(TrueEntries) /\ Len(p) = n /\ \A i \in 1..n : p[i] = l[i]
  <2>1. 1 \in 1..(Len(l) + 1) /\ n \in (1 - 1)..Len(l) /\ n - 1 + 1 = n /\ \A i \in 1..n : 1 + i - 1 = i BY <1>1
  <2>2. /\ p \in Seq(TrueEntries) /\ Len(p) = n - 1 + 1
        /\ \A i \in 1..(n - 1 + 1) : p[i] = l[1 + i - 1]
    BY <2>1, SeqPart
  <2> QED BY <2>1, <2>2, Zenon
<1>3. q \in Seq(TrueEntries) /\ Len(q) = Len(l) - n /\ \A i \in 1..(Len(l) - n) : q[i] = l[n + i]
  <2> DEFINE m == n + 1
  <2>1. m \in 1..(Len(l) + 1) /\ Len(l) \in (m - 1)..Len(l) /\ Len(l) - m + 1 = Len(l) - n
    BY <1>1
  <2>3. \A i \in 1..(Len(l) - n) : m + i - 1 = n + i BY <1>1
  <2>2. /\ q \in Seq(TrueEntries) /\ Len(q) = Len(l) - m + 1
        /\ \A i \in 1..(Len(l) - m + 1) : q[i] = l[m + i - 1]
    <3> HIDE DEF m
    <3> QED BY <2>1, SeqPart, Zenon DEF m
  <2> HIDE DEF m
  <2> QED BY <2>1, <2>2, <2>3, Zenon
<1> HIDE DEF p, q
<1>4. Len(l) = Len(p) + Len(q) BY <1>1, <1>2, <1>3
<1>5. \A i \in 1..Len(p) : l[i] = p[i] BY <1>2, Zenon
<1>6. \A i \in 1..Len(q) : l[Len(p) + i] = q[i] BY <1>2, <1>3, Zenon
<1>7. Weighed(p) /\ Weighed(l) /\ Weighed(q) BY <1>2, <1>3, EntriesWeighed, Zenon
<1>8. Bytes(l) = Bytes(p) + Bytes(q) /\ Bytes(p) \in Nat /\ Bytes(q) \in Nat
  <2>1. Joins(l, p, q) BY <1>4, <1>5, <1>6, <1>7, Zenon DEF Joins
  <2> QED BY <2>1, BytesJoin, Zenon
<1> QED BY <1>8, Zenon DEF p, q

\* The bytes of a list without one of its entries.
LEMMA RemoveBytes ==
  ASSUME blobs \in Seq(Nat), NEW l \in Seq(TrueEntries), NEW i \in DOMAIN l
  PROVE  Bytes(l) = Len(l[i].value) + Bytes(RemoveAt(l, i)) /\ Bytes(RemoveAt(l, i)) \in Nat
<1> DEFINE P == SubSeq(l, 1, i)
           p == SubSeq(l, 1, i - 1)
           s == <<l[i]>>
           r == SubSeq(l, i + 1, Len(l))
           q == p \o r
<1>1. Len(l) \in Nat /\ i \in 1..Len(l) /\ l[i] \in TrueEntries OBVIOUS
<1>2. i \in 0..Len(l) /\ i - 1 \in 0..Len(l) BY <1>1
<1>3. Bytes(l) = Bytes(P) + Bytes(r) /\ Bytes(P) \in Nat /\ Bytes(r) \in Nat BY <1>2, CutBytes, Zenon
<1>4. P \in Seq(TrueEntries) /\ Len(P) = i /\ \A j \in 1..i : P[j] = l[j] BY <1>1, SeqPart
<1>5. p \in Seq(TrueEntries) /\ Len(p) = i - 1 /\ \A j \in 1..(i - 1) : p[j] = l[j] BY <1>1, SeqPart
<1>6. s \in Seq(TrueEntries) /\ Len(s) = 1 /\ s[1] = l[i] BY <1>1
<1>7. r \in Seq(TrueEntries) /\ Len(r) \in Nat BY <1>1, SeqPart
<1>8. q = RemoveAt(l, i) BY Zenon DEF RemoveAt
<1> HIDE DEF P, p, s, r
<1>9. Weighed(P) /\ Weighed(p) /\ Weighed(s) /\ Weighed(r) BY <1>4, <1>5, <1>6, <1>7, EntriesWeighed, Zenon
<1>10. Bytes(P) = Bytes(p) + Bytes(s) /\ Bytes(p) \in Nat /\ Bytes(s) \in Nat
  <2>1. Len(P) = Len(p) + Len(s) BY <1>1, <1>4, <1>5, <1>6
  <2>2. \A j \in 1..Len(p) : P[j] = p[j]
    <3>1. \A j \in 1..(i - 1) : j \in 1..i BY <1>1
    <3> QED BY <1>4, <1>5, <3>1, Zenon
  <2>3. \A j \in 1..Len(s) : P[Len(p) + j] = s[j]
    <3>1. \A j \in 1..Len(s) : j = 1 BY <1>6
    <3>2. Len(p) + 1 = i /\ i \in 1..i BY <1>1, <1>5
    <3> QED BY <1>4, <1>6, <3>1, <3>2, Zenon
  <2>4. Joins(P, p, s) BY <1>9, <2>1, <2>2, <2>3, Zenon DEF Joins
  <2> QED BY <2>4, BytesJoin, Zenon
<1>11. Bytes(s) = Len(l[i].value) BY <1>6, OneBytes, Zenon
<1>12. Bytes(q) = Bytes(p) + Bytes(r)
  <2>1. /\ q \in Seq(TrueEntries) /\ Len(q) = Len(p) + Len(r)
        /\ \A j \in 1..(Len(p) + Len(r)) : q[j] = IF j <= Len(p) THEN p[j] ELSE r[j - Len(p)]
    BY <1>5, <1>7, SeqJoin, Zenon
  <2> HIDE DEF q
  <2>2. Weighed(q) BY <2>1, EntriesWeighed, Zenon
  <2>3. Len(p) \in Nat BY <1>1, <1>5
  <2>4. \A j \in 1..Len(p) : j \in 1..(Len(p) + Len(r)) /\ j <= Len(p) BY <1>7, <2>3
  <2>5. \A j \in 1..Len(r) : Len(p) + j \in 1..(Len(p) + Len(r)) /\ ~(Len(p) + j <= Len(p)) /\ (Len(p) + j) - Len(p) = j
    BY <1>7, <2>3
  <2>6. \A j \in 1..Len(p) : q[j] = p[j] BY <2>1, <2>4, Zenon
  <2>7. \A j \in 1..Len(r) : q[Len(p) + j] = r[j] BY <2>1, <2>5, Zenon
  <2>8. Joins(q, p, r) BY <1>9, <2>1, <2>2, <2>6, <2>7, Zenon DEF Joins
  <2>9. Bytes(q) = Bytes(p) + Bytes(r) /\ Bytes(p) \in Nat /\ Bytes(r) \in Nat BY <2>8, BytesJoin, Zenon
  <2> QED BY <2>9, Zenon
<1>13. Bytes(l) = Bytes(s) + Bytes(q) /\ Bytes(q) \in Nat BY <1>3, <1>10, <1>12
<1> QED BY <1>8, <1>11, <1>13, Zenon

\* What evictLRU leaves: n calls of it throw out the last n entries and their bytes.
LEMMA EvictCounts ==
  ASSUME blobs \in Seq(Nat), NEW c, c.list \in Seq(TrueEntries), c.curBytes = Bytes(c.list),
         NEW n \in 0..Len(c.list)
  PROVE  /\ evictLRU(c, n).list = SubSeq(c.list, 1, Len(c.list) - n)
         /\ evictLRU(c, n).curBytes = Bytes(SubSeq(c.list, 1, Len(c.list) - n))
         /\ evictLRU(c, n).curBytes \in Nat
<1> DEFINE l == c.list
           k == Len(l) - n
<1>1. k \in 0..Len(l) OBVIOUS
<1> HIDE DEF k
<1>2. /\ Bytes(l) = Bytes(SubSeq(l, 1, k)) + Bytes(SubSeq(l, k + 1, Len(l)))
      /\ Bytes(SubSeq(l, 1, k)) \in Nat /\ Bytes(SubSeq(l, k + 1, Len(l))) \in Nat
  <2> HIDE DEF l
  <2> QED BY <1>1, CutBytes, Zenon DEF l
<1>3. evictLRU(c, n).list = SubSeq(l, 1, k) BY Zenon DEF evictLRU, k
<1>4. evictLRU(c, n).curBytes = c.curBytes - Bytes(SubSeq(l, k + 1, Len(l))) BY Zenon DEF evictLRU, k
<1>5. evictLRU(c, n).curBytes = Bytes(SubSeq(l, 1, k))
  <2> DEFINE x == Bytes(SubSeq(l, 1, k))
             y == Bytes(SubSeq(l, k + 1, Len(l)))
  <2>1. c.curBytes = x + y /\ x \in Nat /\ y \in Nat BY <1>2, Zenon
  <2> HIDE DEF x, y
  <2>2. c.curBytes - y = x BY <2>1
  <2> QED BY <1>4, <2>2, Zenon DEF x, y
<1> QED BY <1>2, <1>3, <1>5, Zenon DEF k

\* The loop of set that makes room ends if the cache counts truly: when the list is
\* empty no bytes are left.
LEMMA RoomIsMade ==
  ASSUME blobs \in Seq(Nat), NEW c, c.list \in Seq(TrueEntries), c.curBytes = Bytes(c.list),
         NEW m \in Nat, NEW size \in 0..m
  PROVE  Rounds(c, size, m) # {}
<1> DEFINE N == Len(c.list)
           Fits(n) == evictLRU(c, n).curBytes + size <= m
           T == {n \in 0..N : Fits(n)}
<1>1. N \in Nat OBVIOUS
<1>2. N \in 0..N /\ N - N = 0 BY <1>1
<1>3. evictLRU(c, N).curBytes = Bytes(SubSeq(c.list, 1, 0)) BY <1>2, EvictCounts, Zenon
<1>4. Bytes(SubSeq(c.list, 1, 0)) = 0
  <2> DEFINE e == SubSeq(c.list, 1, 0)
  <2>1. e \in Seq(TrueEntries) /\ Len(e) = 0 OBVIOUS
  <2> HIDE DEF e
  <2>2. PICK f : Sums(f, Weights(e), Len(e)) /\ Bytes(e) = f[Len(e)] BY <2>1, EntriesWeighed, BytesAre, Zenon
  <2>3. f[0] = 0 BY <2>2, Zenon DEF Sums
  <2>4. Bytes(e) = 0 BY <2>1, <2>2, <2>3, Zenon
  <2> QED BY <2>4, Zenon DEF e
<1>5. 0 + size <= m OBVIOUS
<1>6. N \in T BY <1>2, <1>3, <1>4, <1>5, Zenon
<1>7. T \in SUBSET Nat BY <1>1
<1>8. PICK n \in T : \A y \in T : n <= y
  <2> HIDE DEF T
  <2> QED BY <1>6, <1>7, LeastOf, Zenon
<1>9. ASSUME NEW k \in 0..(n - 1) PROVE ~Fits(k)
  <2>0. n \in 0..N BY <1>8, Zenon
  <2> HIDE DEF Fits
  <2>1. k \in 0..N /\ ~(n <= k) BY <1>1, <2>0
  <2> QED BY <1>8, <2>1, Zenon
<1>10. n \in 0..N /\ Fits(n) BY <1>8, Zenon
<1> QED BY <1>9, <1>10, Zenon DEF Rounds

Counted == cache.curBytes = Bytes(cache.list) /\ cache.curBytes <= maxBytes

LEMMA CountedKept ==
  ASSUME RequestsRight, CacheTrue, maxBytes \in Nat, Counted, [Next]_vars
  PROVE  Counted'
<1>0. ASSUME UNCHANGED <<cache, maxBytes>> PROVE Counted' BY <1>0, Zenon DEF Counted
<1>1. blobs \in Seq(Nat) /\ cache.list \in Seq(TrueEntries) BY Zenon DEF RequestsRight, CacheTrue
<1>2. CASE UNCHANGED vars BY <1>0, <1>2, Zenon DEF vars
<1>3. ASSUME NEW p \in Requests, PutWrite(p) \/ PutIndex(p) \/ PutFails(p) \/ GetMeta(p) \/ LoadFails(p) PROVE Counted'
  BY <1>0, <1>3, Zenon DEF PutWrite, PutIndex, PutFails, GetMeta, LoadFails
<1>4. ASSUME NEW k \in Keys, Delete(k) PROVE Counted' BY <1>0, <1>4, Zenon DEF Delete
<1>5. ASSUME NEW a, a \in Items(cache), NEW e \in TrueEntries, e = Entry(a, Data(a)),
             cache'.list = <<e>> \o RemoveAt(cache.list, Position(cache, a)),
             cache'.curBytes = cache.curBytes, maxBytes' = maxBytes
      PROVE  Counted'
  <2> DEFINE i == Position(cache, a)
             q == RemoveAt(cache.list, i)
  <2>1. i \in DOMAIN cache.list /\ cache.list[i] = e BY <1>1, <1>5, Found, Zenon
  <2> HIDE DEF i
  <2>2. Bytes(cache.list) = Len(e.value) + Bytes(q) BY <1>1, <2>1, RemoveBytes, Zenon
  <2>3. q \in Seq(TrueEntries) BY <1>1, <2>1, RemoveAtStays, Zenon
  <2> HIDE DEF q
  <2>4. Bytes(<<e>> \o q) = Len(e.value) + Bytes(q) BY <1>1, <1>5, <2>3, PushBytes, Zenon
  <2>5. cache'.list = <<e>> \o q BY <1>5, Zenon DEF q, i
  <2>6. Bytes(cache'.list) = Bytes(cache.list) BY <2>2, <2>4, <2>5, Zenon
  <2>7. Counted' <=> (cache'.curBytes = Bytes(cache'.list) /\ cache'.curBytes <= maxBytes') BY Zenon DEF Counted, Bytes, FirstBytes
  <2> QED BY <1>5, <2>6, <2>7, Zenon DEF Counted
<1>6. ASSUME NEW p \in Requests, Lookup(p) PROVE Counted'
  <2> DEFINE a == req[p].addr
             i == Position(cache, a)
  <2>1. CASE a \in Items(cache) /\ cache' = get(cache, a)
    <3>1. a \in Addresses /\ cache.list[i] = Entry(a, Data(a)) BY <1>1, <2>1, Found, Zenon
    <3>2. cache'.list = <<cache.list[i]>> \o RemoveAt(cache.list, i) /\ cache'.curBytes = cache.curBytes
      BY <2>1, Zenon DEF get, MoveToFront, CacheTrue
    <3>3. Entry(a, Data(a)) \in TrueEntries BY <3>1, Zenon DEF TrueEntries
    <3>4. maxBytes' = maxBytes BY <1>6, Zenon DEF Lookup
    <3> QED BY <1>5, <2>1, <3>1, <3>2, <3>3, <3>4, Zenon
  <2> QED BY <1>0, <1>6, <2>1, Zenon DEF Lookup
<1>7. ASSUME NEW p \in Requests, Load(p) PROVE Counted'
  <2> DEFINE a == req[p].addr
             i == Position(cache, a)
             e == Entry(a, Data(a))
             l == cache.list
  <2>1. a \in Addresses /\ maxBytes' = maxBytes BY <1>7, Zenon DEF Load, RequestsRight, Right, Addresses
  <2>2. e \in TrueEntries /\ e.value = Data(a) BY <2>1, Zenon DEF TrueEntries, Entry
  <2>3. Len(Data(a)) \in Nat BY <1>1, <2>2, EntryWeight, Zenon
  <2>4. CASE cache' = cache BY <1>0, <2>1, <2>4, Zenon
  <2>5. CASE a \in Items(cache) /\ cache' = Refresh(cache, i, Data(a))
    <3>1. l[i] = e BY <1>1, <2>5, Found, Zenon
    <3>2. [l[i] EXCEPT !.value = Data(a)] = e BY <3>1 DEF Entry
    <3>3. l[i].value = Data(a) BY <2>2, <3>1, Zenon
    <3>4. cache'.list = <<e>> \o RemoveAt(l, i) BY <2>5, <3>2, Zenon DEF Refresh
    <3>5. cache'.curBytes = cache.curBytes - Len(Data(a)) + Len(Data(a)) BY <2>5, <3>3, Zenon DEF Refresh
    <3>6. cache.curBytes \in Int
      <4>1. i \in DOMAIN l BY <1>1, <2>5, Found, Zenon
      <4>2. Bytes(l) = Len(l[i].value) + Bytes(RemoveAt(l, i)) /\ Bytes(RemoveAt(l, i)) \in Nat
        BY <1>1, <4>1, RemoveBytes, Zenon
      <4> QED BY <2>3, <3>3, <4>2 DEF Counted
    <3>7. cache'.curBytes = cache.curBytes BY <2>3, <3>5, <3>6
    <3> HIDE DEF e
    <3> QED BY <1>5, <2>1, <2>2, <2>5, <3>4, <3>7, Zenon DEF e
  <2>6. ASSUME NEW n \in Rounds(cache, Len(Data(a)), maxBytes), cache' = PushFront(evictLRU(cache, n), a, Data(a))
        PROVE  Counted'
    <3> DEFINE q == SubSeq(l, 1, Len(l) - n)
    <3>1. n \in 0..Len(l) /\ evictLRU(cache, n).curBytes + Len(Data(a)) <= maxBytes BY <2>6, Zenon DEF Rounds
    <3>2. evictLRU(cache, n).list = q /\ evictLRU(cache, n).curBytes = Bytes(q)
      BY <1>1, <3>1, EvictCounts, Zenon DEF Counted
    <3>3. cache'.list = <<e>> \o q /\ cache'.curBytes = Bytes(q) + Len(Data(a))
      BY <2>6, <3>2, Zenon DEF PushFront
    <3>4. q \in Seq(TrueEntries)
      <4>1. Len(l) \in Nat BY <1>1
      <4> QED BY <1>1, <3>1, <4>1, SeqPart
    <3> HIDE DEF q, e
    <3>5. Bytes(<<e>> \o q) = Len(e.value) + Bytes(q) /\ Bytes(q) \in Nat BY <1>1, <2>2, <3>4, PushBytes, Zenon
    <3>6. cache'.curBytes = Bytes(cache'.list)
      <4>1. Len(e.value) + Bytes(q) = Bytes(q) + Len(Data(a)) BY <2>2, <2>3, <3>5
      <4> QED BY <3>3, <3>5, <4>1, Zenon
    <3>7. cache'.curBytes <= maxBytes' BY <2>1, <3>1, <3>2, <3>3, Zenon
    <3> QED BY <3>6, <3>7, Zenon DEF Counted
  <2>7. CASE set(cache, a, Data(a), maxBytes, cache') BY <2>4, <2>5, <2>6, <2>7, Zenon DEF set
  <2> QED BY <1>7, <2>4, <2>7, Zenon DEF Load
<1> QED BY <1>2, <1>3, <1>4, <1>6, <1>7, Zenon DEF Next

\* CacheCounts, for any sizes of blobs and of the cache and any interleaving of
\* requests: get and set (LRUCache) keep curBytes true and within maxBytes, so the
\* loop of set that calls evictLRU ends whatever blob that fits comes.
THEOREM CacheCountsTruly == Spec => []CacheCounts
<1>1. Init => Counted
  <2> SUFFICES ASSUME Init PROVE Counted BY Zenon
  <2>1. cache.list = <<>> /\ cache.curBytes = 0 /\ maxBytes \in Nat BY BlobsConstants, Zenon DEF Init, EmptyCache
  <2>2. Bytes(<<>>) = 0
    <3> DEFINE e == <<>>
    <3>1. Len(e) \in Nat /\ Len(e) = 0 OBVIOUS
    <3>2. Weighed(e) BY DEF Weighed, Weights
    <3> HIDE DEF e
    <3>3. PICK f : Sums(f, Weights(e), Len(e)) /\ Bytes(e) = f[Len(e)] BY <3>2, BytesAre, Zenon
    <3>4. Bytes(e) = 0 BY <3>1, <3>3, Zenon DEF Sums
    <3> QED BY <3>4, Zenon DEF e
  <2>3. 0 <= maxBytes BY <2>1
  <2> QED BY <2>1, <2>2, <2>3, Zenon DEF Counted
<1>2. BlobsInv /\ Recency /\ Counted /\ [Next]_vars => Counted'
  BY CountedKept, Zenon DEF BlobsInv, Recency
<1>3. ASSUME BlobsInv, Recency, Counted PROVE CacheCounts
  <2>1. \A i, j \in DOMAIN cache.list : cache.list[i].key = cache.list[j].key => i = j
    <3> SUFFICES ASSUME NEW i \in DOMAIN cache.list, NEW j \in DOMAIN cache.list,
                        cache.list[i].key = cache.list[j].key
                 PROVE  i = j
      BY Zenon
    <3>1. recent[i] = recent[j] BY <1>3, Zenon DEF Recency, Leads
    <3>2. i \in DOMAIN recent /\ j \in DOMAIN recent
      <4>1. cache.list \in Seq(TrueEntries) /\ recent \in Seq(Nat) /\ Len(cache.list) <= Len(recent)
        BY <1>3, Zenon DEF Recency, Leads, BlobsInv, CacheTrue
      <4> QED BY <4>1
    <3> QED BY <1>3, <3>1, <3>2, Zenon DEF Recency, Distinct
  <2>2. \A size \in 0..maxBytes : Rounds(cache, size, maxBytes) # {}
    <3>1. /\ blobs \in Seq(Nat) /\ cache.list \in Seq(TrueEntries) /\ maxBytes \in Nat
          /\ cache.curBytes = Bytes(cache.list)
      BY <1>3, Zenon DEF BlobsInv, RequestsRight, CacheTrue, Recency, Counted
    <3> QED BY <3>1, RoomIsMade, Zenon
  <2> QED BY <1>3, <2>1, <2>2, Zenon DEF CacheCounts, Counted
<1>4. Init => Recency BY BlobsConstants DEF Init, Recency, EmptyCache, Distinct, Leads
<1>5. BlobsInv /\ Recency /\ [Next]_vars => Recency' BY RecencyKept, Zenon DEF BlobsInv
<1>6. BlobsInv /\ Recency /\ Counted => CacheCounts BY <1>3, Zenon
<1> QED BY <1>1, <1>2, <1>4, <1>5, <1>6, BlobsInvHolds, PTL DEF Spec
=============================================================================
