------------------------------- MODULE MCStore -------------------------------
(* Small instances of Store for TLC. *)
EXTENDS Store, TLC

CONSTANTS s1, s2, a, b

TwoSessions == {s1, s2}
TwoKeys == {a, b}
\* Each session writes a key of its own: operations on one key do not overlap.
OwnKeys == {<<s1, a>>, <<s2, b>>}
\* Both sessions write the same key.
SharedKey == {<<s1, a>>, <<s2, a>>}
OneSession == {s1} \X TwoKeys
=============================================================================
