------------------------------ MODULE LRUCache ------------------------------
(***************************************************************************)
(* The cache of blobs (brisedb/lrucache.go): a list of entries, the most    *)
(* recently used first, and curBytes, the count of the bytes they hold.     *)
(* Each operation runs under the cache's mutex, so it is an operator from   *)
(* one state of the cache to the next.                                      *)
(***************************************************************************)
EXTENDS Integers, Sequences, FiniteSets

Entry(addr, value) == [key |-> addr, value |-> value]

EmptyCache == [list |-> <<>>, curBytes |-> 0]

\* The addresses in the map items, and the position of one in the list.
Items(c) == {c.list[i].key : i \in DOMAIN c.list}
Position(c, addr) == CHOOSE i \in DOMAIN c.list : c.list[i].key = addr
Value(c, addr) == c.list[Position(c, addr)].value

\* The list without its element at i.
RemoveAt(list, i) == SubSeq(list, 1, i - 1) \o SubSeq(list, i + 1, Len(list))

MoveToFront(list, i) == <<list[i]>> \o RemoveAt(list, i)

\* Mutant of get: a hit leaves the list alone.
getInPlace(c, addr) == c

\* The cache after get.
get(c, addr) ==
  IF addr \in Items(c) THEN [c EXCEPT !.list = MoveToFront(@, Position(c, addr))] ELSE c

\* The bytes that the first n entries of the list hold, and all of them.
FirstBytes(list) ==
  LET sum[n \in 0..Len(list)] == IF n = 0 THEN 0 ELSE sum[n - 1] + Len(list[n].value) IN sum
Bytes(list) == FirstBytes(list)[Len(list)]

\* The cache after n calls of evictLRU, n at most the number of entries.
evictLRU(c, n) ==
  LET left == Len(c.list) - n IN
  [list |-> SubSeq(c.list, 1, left),
   curBytes |-> c.curBytes - Bytes(SubSeq(c.list, left + 1, Len(c.list)))]

\* How often the loop that makes room for size bytes calls evictLRU: one number, or
\* none if the loop does not end.
Rounds(c, size, maxBytes) ==
  LET Fits(n) == evictLRU(c, n).curBytes + size <= maxBytes IN
  {n \in 0..Len(c.list) : Fits(n) /\ \A m \in 0..(n - 1) : ~Fits(m)}

PushFront(c, addr, data) ==
  [list |-> <<Entry(addr, data)>> \o c.list, curBytes |-> c.curBytes + Len(data)]

\* Mutant of Refresh: the entry's bytes are counted again.
RefreshCountsAgain(c, i, data) ==
  [list |-> <<[c.list[i] EXCEPT !.value = data]>> \o RemoveAt(c.list, i),
   curBytes |-> c.curBytes + Len(data)]

\* The entry at i moves to the front and takes the new data.
Refresh(c, i, data) ==
  [list |-> <<[c.list[i] EXCEPT !.value = data]>> \o RemoveAt(c.list, i),
   curBytes |-> c.curBytes - Len(c.list[i].value) + Len(data)]

\* set takes the cache from c to new.
set(c, addr, data, maxBytes, new) ==
  IF Len(data) > maxBytes THEN new = c
  ELSE IF addr \in Items(c) THEN new = Refresh(c, Position(c, addr), data)
  ELSE \E n \in Rounds(c, Len(data), maxBytes) : new = PushFront(evictLRU(c, n), addr, data)
=============================================================================
