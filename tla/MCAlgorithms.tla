---------------------------- MODULE MCAlgorithms ----------------------------
(***************************************************************************)
(* Shell, Md5Block and ExpireClock for TLC: a user that types commands,    *)
(* and, where that begins, one file to digest or one time to move on.      *)
(***************************************************************************)
EXTENDS Shell, Md5Block, ExpireClock, TLC

\* A name of one character and one of two; slashes doubled, leading, trailing.
SomeNames == "x" :> <<"x">> @@ "yy" :> <<"yy">> @@ "/x" :> <<"", "x">>
             @@ "x/" :> <<"x", "">> @@ "//" :> <<"", "", "">>
\* Words of lines: every command counts as two characters.
Sizes == "" :> 0 @@ "x" :> 1 @@ "yy" :> 2 @@ "u" :> 1 @@ "/x" :> 2 @@ "x/" :> 2 @@ "//" :> 2
         @@ "." :> 1 @@ ".." :> 2 @@ "/" :> 1 @@ [c \in DOMAIN Argc |-> 2]
SomeLines == {<<"cd", a>> : a \in {".", "..", "/"} \cup DOMAIN SomeNames}
             \cup {<<"cd", "", "x">>, <<"cd", "x", "yy">>, <<"", "">>, [i \in 1 .. ARGCMAX |-> "x"]}
             \cup {<<c>> : c \in DOMAIN Argc} \cup {<<c, "x">> : c \in DOMAIN Argc}

\* Files of all lengths around the ends of blocks and of reads; and the last
\* part of files whose blocks before it make the count of bits wrap around.
Lengths == (0 .. 3) \cup (54 .. 66) \cup (118 .. 130) \cup (182 .. 194) \cup (246 .. 258) \cup (310 .. 322)
Pattern(n) == SubSeq([i \in 1 .. n |-> (37 * i + n) % 256], 1, n)

\* Digests known from elsewhere: RFC 1321, and a file of the repository's NetDisk.sql.
abc  == [text |-> <<97, 98, 99>>,
         digest |-> <<144, 1, 80, 152, 60, 210, 79, 176, 214, 150, 63, 125, 40, 225, 127, 114>>]
gxgnmb == [text |-> <<109, 108, 103, 98, 99, 110, 109>>,
           digest |-> <<26, 34, 11, 219, 63, 27, 72, 80, 159, 209, 223, 69, 218, 238, 89, 199>>]
Known == {abc, gxgnmb}

\* DigestIsRight says the same whatever a block does to the state; that
\* MD5Transform() with its tables is the one of RFC 1321 shows here.
ASSUME KnownDigests == \A k \in Known : Compute_file_md5(MD5Init, k.text) = k.digest

SomeFiles ==
    [before : {0}, text : {Pattern(n) : n \in Lengths} \cup {k.text : k \in Known}]
    \cup [before : {2 ^ 23 - 1, 2 ^ 23, 3 * 2 ^ 22 + 5}, text : {Pattern(n) : n \in {0, 55, 56, 63, 64, 120, 128}}]

SomeTimes ==
    {t \in [year : {2000, 2023, 2024, 2099, 2100}, month : 1 .. 12, day : {1, 28, 29, 30, 31},
             hour : {0, 23}, minute : {0, 58, 59}, second : {0, 29, 30, 59}] : RealDay(t)}

Idle == digests = {} /\ updates = {}
AllInit == Init /\ NoDigest /\ NoUpdate
AllNext == \/ Idle /\ Next /\ UNCHANGED <<digests, updates>>
           \/ /\ Idle /\ Init /\ UNCHANGED vars
              /\ (Digest /\ UNCHANGED updates) \/ (Expire /\ UNCHANGED digests)
           \/ ~Idle /\ digests' = {} /\ updates' = {} /\ UNCHANGED vars
AllSpec == AllInit /\ [][AllNext]_<<vars, digests, updates>>
=============================================================================
