----------------------------- MODULE MCExchange -----------------------------
(***************************************************************************)
(* Exchange for TLC.                                                       *)
(***************************************************************************)
EXTENDS Exchange, TLC

CONSTANTS c1, c2, w1, w2

\* The first client types two commands, the second one.
TwoAndOne == <<c1, c1, c2>>
Directories == <<"home", "home", "sub">>
OneRow == {<<c1, "home", "f">>}
WithOrWithout == {{}, {"f"}}

\* e has 1000 bytes, g a larger multiple of that.
Lengths == "e" :> "one" @@ "f" :> "short" @@ "g" :> "many"

\* A gets of what is in the table at the start, of a rest of it or of nothing,
\* and of what the first command has put; a puts that arrives, one of 1000 bytes,
\* one of a file that the client has not.
gets(f, has) == [type |-> "gets", file |-> f, has |-> has]
puts(f, has) == [type |-> "puts", file |-> f, has |-> has]
Menus == <<{puts("g", TRUE), gets("f", FALSE), gets("f", TRUE)},
           {gets("g", FALSE)},
           {puts("e", TRUE), puts("g", FALSE)}>>
\* The token of the first client expires while the clock runs.
OneOlder == c1 :> 1 @@ c2 :> 0
=============================================================================
