------------------------------ MODULE MCCalls -------------------------------
(* Instances of Calls for TLC. *)
EXTENDS Calls, TLC

CONSTANTS c1, c2, t1, t2

OneConn == {c1}
TwoConns == {c1, c2}
TwoThreads == {t1, t2}
OneLister == {t1}
Shared == [t \in TwoThreads |-> c1]
Apart == (t1 :> c1) @@ (t2 :> c2)
OnlyGo == {"go"}
OnlyPython == {"python"}
BothKinds == {"go", "python"}
SmallCounts == {0, 1, 2}
ZeroOrOne == {0, 1}
Names == <<<<"a">>, <<"a", "b">>, <<"b">>>>
SomePatterns == {<<"a", "*", "*">>, <<"?", "*", "b">>}
=============================================================================
