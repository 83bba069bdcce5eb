------------------------------ MODULE MCBlobs -------------------------------
(* Instances of Blobs for TLC. *)
EXTENDS Blobs, TLC

CONSTANTS k1, p1, p2

OneKey == {k1}
TwoRequests == {p1, p2}
SmallSizes == {0, 1, 2}
Header(kind, from, to) == [kind |-> kind, from |-> from, to |-> to]
SomeRanges ==
  {NoRange, Header("span", 0, 0), Header("span", 1, 2), Header("span", 1, 0),
   Header("from", 1, 0), Header("suffix", 0, 1), Header("suffix", 0, 2)}
Caches == {0, 1, 2}
Symmetry == Permutations(TwoRequests)
=============================================================================
