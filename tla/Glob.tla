-------------------------------- MODULE Glob --------------------------------
(***************************************************************************)
(* The patterns of KEYS: matchGlob (session.go), which tries the rest of    *)
(* the pattern at every suffix of the key when it meets a "*".  Patterns    *)
(* and keys are sequences of characters.                                    *)
(***************************************************************************)
EXTENDS Naturals, Sequences, SequencesExt

\* The suffixes of the key tried after a "*".
StarSuffixes(s) == {SubSeq(s, i, Len(s)) : i \in 1..(Len(s) + 1)}

RECURSIVE SkipStars(_)
SkipStars(p) == IF p # <<>> /\ Head(p) = "*" THEN SkipStars(Tail(p)) ELSE p

RECURSIVE matchGlob(_, _)
matchGlob(p, s) ==
  LET rest == SkipStars(p) IN
  IF p = <<>> THEN s = <<>>
  ELSE IF Head(p) = "*"
  THEN rest = <<>> \/ \E t \in StarSuffixes(s) : matchGlob(rest, t)
  ELSE s # <<>> /\ Head(p) \in {"?", Head(s)} /\ matchGlob(Tail(p), Tail(s))

\* What a pattern means: the key can be cut into as many pieces as the pattern
\* has characters, a piece of any length for "*", of one character for "?",
\* and the character itself for any other.  cut[i] is the end of piece i.
Matches(p, s) ==
  \E cut \in [0..Len(p) -> 0..Len(s)] :
    /\ cut[0] = 0 /\ cut[Len(p)] = Len(s)
    /\ \A i \in 1..Len(p) :
         /\ cut[i - 1] <= cut[i]
         /\ p[i] # "*" => cut[i] = cut[i - 1] + 1 /\ p[i] \in {"?", s[cut[i]]}

\* matchGlob decides Matches for all patterns and keys of up to three characters;
\* TLC evaluates this whenever it runs a module that extends this one.
ASSUME MatchGlobIsExact ==
  \A p \in SeqOf({"a", "b", "*", "?"}, 3), s \in SeqOf({"a", "b"}, 3) :
    matchGlob(p, s) <=> Matches(p, s)
=============================================================================
