------------------------------- MODULE MCLogin -------------------------------
(***************************************************************************)
(* Login for TLC.                                                          *)
(***************************************************************************)
EXTENDS Login, TLC

\* Two passwords that begin alike and one that does not.
SomePasswords == {<<"a", "x">>, <<"a", "y">>, <<"b", "x">>}

OneOrNone == {<<>>, "gxg" :> <<"a", "x">>}
=============================================================================
