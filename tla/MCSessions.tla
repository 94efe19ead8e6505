----------------------------- MODULE MCSessions -----------------------------
(* TLC instances of Sessions.                                              *)
EXTENDS Sessions, TLC

CONSTANTS c1, c2, c3

ThreeConns == {c1, c2, c3}
TwoConns   == {c1, c2}
OneEach    == c1 :> 1 @@ c2 :> 0
\* A user who logs in twice, and a login without a name, which has id 0.
TwoUsers   == c1 :> 1 @@ c2 :> 0 @@ c3 :> 1
AnyNext    == {TRUE, FALSE}   \* the next field of a fresh node is whatever it is
NullNext   == {FALSE}         \* malloc() happens to return zeroed nodes
=============================================================================
