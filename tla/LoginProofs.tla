----------------------------- MODULE LoginProofs -----------------------------
(***************************************************************************)
(* Proofs about Login, for any clients, names, passwords and salts and any *)
(* size of the array: both ends stay in step, nobody gets in under a name  *)
(* whose password he has not given, and every value fits its type.         *)
(***************************************************************************)
EXTENDS Login, SequenceTheorems, TLAPS

(***************************************************************************)
(* The inductive invariant: where a client, main() and what is under way   *)
(* between them can be together. Of a dead client only what it has said    *)
(* still matters.                                                          *)
(***************************************************************************)
Forms == [how : {"login", "signin"}, user : Names \cup {NoUser}, passwd : Passwords]

Words(f) == IF f.user = NoUser THEN <<f.how>> ELSE <<f.how, f.user>>

Dead(c) == pc[c] = "dead"
Holds(q, d) == \E i \in DOMAIN q : q[i] = d
Once(q) == \A i, j \in DOMAIN q : q[i] = q[j] => i = j
InBacklog(c) == Holds(backlog, c)
Listed(c) == \E s \in sessions : s.conn = c

\* Client c is at place, and items are all that is on its way there.
Reads(c, place, items) == pc[c] = place /\ toClient[c] = items

Said(c, items) == toServer[c] = items

\* The client has given the password of the user it named.
Proved(c) == /\ form[c].user \in DOMAIN users
             /\ users[form[c].user].cryptpasswd = crypt(form[c].passwd, users[form[c].user].salt[2])

\* What a client may have said to a main() that waits for a command.
AtMenu(c) ==
    \/ (Dead(c) \/ Reads(c, "menu", <<>>)) /\ Said(c, <<>>)
    \/ (Dead(c) \/ Reads(c, "exists", <<>>)) /\ form[c] \in Forms /\ Said(c, <<Box(Words(form[c]))>>)
    \/ pc[c] = "quit" /\ Said(c, <<Box(<<"quit">>)>>)

AtCommand(c) ==
    srv.at = "command" =>
        \/ AtMenu(c)
        \/ Said(c, <<>>) /\ (\/ Reads(c, "exists", <<Num(0)>>) /\ form[c].how = "login"
                             \/ Reads(c, "right", <<Num(0)>>)
                             \/ Reads(c, "token", <<>>) /\ Refused(c))

AtPasswd(c) ==
    srv.at = "passwd" =>
        /\ srv.user = form[c].user /\ form[c].how = "signin" /\ srv.user \notin DOMAIN users
        /\ \/ (Dead(c) \/ Reads(c, "exists", <<Num(0)>>)) /\ Said(c, <<>>)
           \/ (Dead(c) \/ Reads(c, "token", <<>>)) /\ Said(c, <<Box(<<"passwd", form[c].passwd>>)>>)

\* The salt is on its way or has come, and has not been answered.
Salted(c, salt) ==
    /\ Said(c, <<>>)
    /\ Dead(c) \/ Reads(c, "exists", <<Num(1), Box(salt)>>) \/ Reads(c, "salt", <<Box(salt)>>)

AtCrypt(c) ==
    srv.at = "crypt" =>
        /\ srv.user = form[c].user /\ form[c].how \in {"login", "signin"}
        /\ \/ Salted(c, Empty)
           \/ /\ srv.user \in DOMAIN users /\ srv.cryptpasswd = users[srv.user].cryptpasswd
              /\ \/ Salted(c, users[srv.user].salt)
                 \/ /\ Dead(c) \/ Reads(c, "right", <<>>)
                    /\ Said(c, <<Box(crypt(form[c].passwd, users[srv.user].salt[2]))>>)

AtAdmit(c) ==
    srv.at = "admit" =>
        /\ Said(c, <<>>) /\ srv.user = form[c].user
        /\ \/ srv.user = NoUser /\ (Dead(c) \/ Reads(c, "exists", <<>>))
           \/ Proved(c) /\ (Dead(c) \/ Reads(c, "right", <<Num(1)>>) \/ Reads(c, "token", <<>>))

Token == Box(<<"token">>)

\* After the dialogue.
Afterwards(c) ==
    \/ pc[c] = "quit" \/ Dead(c)
    \/ form[c].user = NoUser /\ ((Said(c, <<>>) /\ Reads(c, "exists", <<Token>>)) \/ pc[c] = "lost")
    \/ /\ Proved(c)
       /\ \/ Said(c, <<>>) /\ (Reads(c, "right", <<Num(1), Token>>) \/ Reads(c, "token", <<Token>>))
          \/ Said(c, <<Box(<<"pwd">>)>>) /\ Reads(c, "pwd", <<>>)
          \/ Said(c, <<>>) /\ Reads(c, "pwd", <<Box(<<"path">>)>>)
          \/ pc[c] = "shell"

\* Whoever has an entry is what the entry says.
Entered(c) ==
    \A s \in sessions : s.conn = c =>
        IF s.user = NoUser THEN form[c].user = NoUser \/ ~db
        ELSE s.user = form[c].user /\ Proved(c)

Joint(c) ==
    /\ pc[c] = "off" => ~InBacklog(c) /\ ~InDialogue(c) /\ Said(c, <<>>) /\ toClient[c] = <<>>
    /\ InBacklog(c) => ~InDialogue(c) /\ AtMenu(c)
    /\ InDialogue(c) =>
           /\ srv.at \in {"command", "passwd", "crypt", "admit"} \/ (srv.at = "hung" /\ Dead(c))
           /\ AtCommand(c) /\ AtPasswd(c) /\ AtCrypt(c) /\ AtAdmit(c)
    /\ pc[c] # "off" /\ ~InBacklog(c) /\ ~InDialogue(c) => Afterwards(c)
    /\ Listed(c) => ~InBacklog(c) /\ ~InDialogue(c) /\ pc[c] \notin {"off", "quit"}
    /\ Entered(c)

Typed == /\ DOMAIN pc = Clients /\ DOMAIN form = Clients
         /\ DOMAIN toServer = Clients /\ DOMAIN toClient = Clients
         /\ backlog \in Seq(Clients)
         /\ srv.at # "wait" => srv.conn \in Clients
         /\ db \in BOOLEAN
         /\ Once(backlog)
         /\ \A n \in DOMAIN users : users[n].salt # Empty
         /\ \A s \in sessions : s.conn \in Clients

IInv == Typed /\ \A c \in Clients : Joint(c)
-----------------------------------------------------------------------------
(***************************************************************************)
(* Sequences of one and two items.                                         *)
(***************************************************************************)
LEMMA One ==
    ASSUME NEW x
    PROVE  /\ Head(<<x>>) = x /\ Tail(<<x>>) = <<>> /\ <<x>> # <<>>
           /\ Append(<<>>, x) = <<x>> /\ <<>> \o <<x>> = <<x>>
  OBVIOUS

LEMMA Two ==
    ASSUME NEW x, NEW y
    PROVE  /\ Head(<<x, y>>) = x /\ Tail(<<x, y>>) = <<y>> /\ <<x, y>> # <<>>
           /\ <<>> \o <<x, y>> = <<x, y>>
  OBVIOUS

LEMMA Join ==
    ASSUME NEW x, NEW y
    PROVE  <<x>> \o <<y>> = <<x, y>>
<1> DEFINE S == {x, y}
           s == <<x>> \o <<y>>
<1>1. <<x>> \in Seq(S) /\ <<y>> \in Seq(S) /\ <<x, y>> \in Seq(S)
  OBVIOUS
<1>2. Len(<<x>>) = 1 /\ Len(<<y>>) = 1 /\ Len(<<x, y>>) = 2
  OBVIOUS
<1>3. s \in Seq(S) /\ Len(s) = 2 /\ s[1] = x /\ s[2] = y
  BY <1>1, <1>2, ConcatProperties
<1> HIDE DEF s
<1>4. \A i \in 1 .. Len(s) : s[i] = (<<x, y>>)[i]
  BY <1>3
<1>5. s = <<x, y>>
  BY <1>1, <1>2, <1>3, <1>4, SeqEqual
<1> QED
  BY <1>5 DEF s

(***************************************************************************)
(* What a step leaves alone. A client that no step touches stays where the *)
(* invariant says it is, though users come and the database goes.          *)
(***************************************************************************)
Untouched(d) ==
    /\ pc'[d] = pc[d] /\ form'[d] = form[d]
    /\ toServer'[d] = toServer[d] /\ toClient'[d] = toClient[d]
    /\ InBacklog(d)' <=> InBacklog(d)
    /\ InDialogue(d)' <=> InDialogue(d)
    /\ InDialogue(d) => srv' = srv /\ users' = users
    /\ \A s \in sessions' : s.conn = d => s \in sessions
    /\ \A n \in DOMAIN users : n \in DOMAIN users' /\ users'[n] = users[n]
    /\ db' => db

LEMMA Frame ==
    ASSUME NEW d \in Clients, Joint(d), Untouched(d)
    PROVE  Joint(d)'
<1>1. (AtMenu(d) => AtMenu(d)') /\ (Refused(d) => Refused(d)') /\ (Proved(d) => Proved(d)')
  BY DEF Untouched, AtMenu, Refused, Proved, Dead, Reads, Said
<1>2. pc'[d] = "off" => /\ ~InBacklog(d)' /\ ~InDialogue(d)'
                        /\ Said(d, <<>>)' /\ toClient'[d] = <<>>
  BY DEF Untouched, Joint, Said
<1>3. InBacklog(d)' => ~InDialogue(d)' /\ AtMenu(d)'
  BY <1>1 DEF Untouched, Joint
<1>4. ASSUME InDialogue(d)'
      PROVE  /\ srv'.at \in {"command", "passwd", "crypt", "admit"} \/ (srv'.at = "hung" /\ Dead(d)')
             /\ AtCommand(d)' /\ AtPasswd(d)' /\ AtCrypt(d)' /\ AtAdmit(d)'
  <2>1. /\ InDialogue(d) /\ srv' = srv /\ users' = users
        /\ srv.at \in {"command", "passwd", "crypt", "admit"} \/ (srv.at = "hung" /\ Dead(d))
        /\ AtCommand(d) /\ AtPasswd(d) /\ AtCrypt(d) /\ AtAdmit(d)
    BY <1>4 DEF Untouched, Joint
  <2>2. AtCommand(d)'
    BY <1>1, <2>1 DEF Untouched, AtCommand, Reads, Said
  <2>3. AtPasswd(d)'
    BY <2>1 DEF Untouched, AtPasswd, Dead, Reads, Said
  <2>4. AtCrypt(d)'
    BY <2>1 DEF Untouched, AtCrypt, Salted, Dead, Reads, Said
  <2>5. AtAdmit(d)'
    BY <1>1, <2>1 DEF Untouched, AtAdmit, Dead, Reads, Said
  <2> QED
    BY <2>1, <2>2, <2>3, <2>4, <2>5 DEF Untouched, Dead
<1>5. pc'[d] # "off" /\ ~InBacklog(d)' /\ ~InDialogue(d)' => Afterwards(d)'
  BY <1>1 DEF Untouched, Joint, Afterwards, Dead, Reads, Said
<1>6. Listed(d)' => ~InBacklog(d)' /\ ~InDialogue(d)' /\ pc'[d] \notin {"off", "quit"}
  BY DEF Untouched, Joint, Listed
<1>7. Entered(d)'
  BY <1>1 DEF Untouched, Joint, Entered
<1> QED
  BY <1>2, <1>3, <1>4, <1>5, <1>6, <1>7 DEF Joint
(***************************************************************************)
(* The client's steps. The server's variables stay as they are, and so     *)
(* does what the other clients have and have said.                         *)
(***************************************************************************)
OnlyClient(c) ==
    /\ DOMAIN pc' = Clients /\ DOMAIN form' = Clients
    /\ DOMAIN toServer' = Clients /\ DOMAIN toClient' = Clients
    /\ \A d \in Clients \ {c} : /\ pc'[d] = pc[d] /\ form'[d] = form[d]
                                /\ toServer'[d] = toServer[d] /\ toClient'[d] = toClient[d]

LEMMA Alone ==
    ASSUME IInv, NEW c \in Clients, OnlyClient(c), UNCHANGED server, Joint(c)'
    PROVE  IInv'
<1>1. Typed'
  BY DEF IInv, Typed, OnlyClient, server
<1>2. ASSUME NEW d \in Clients \ {c}
      PROVE  Joint(d)'
  <2>1. Untouched(d)
    BY DEF Untouched, OnlyClient, server, InBacklog, InDialogue, At
  <2> QED
    BY <2>1, Frame DEF IInv
<1> QED
  BY <1>1, <1>2 DEF IInv

\* Where the invariant has client c after a step of its own.
Kept(c) == /\ UNCHANGED server
           /\ InBacklog(c)' <=> InBacklog(c)
           /\ InDialogue(c)' <=> InDialogue(c)
           /\ Listed(c)' <=> Listed(c)

LEMMA Stays ==
    ASSUME NEW c, UNCHANGED server
    PROVE  Kept(c)
  BY DEF Kept, server, InBacklog, InDialogue, Listed, At

LEMMA AtTheMenu ==
    ASSUME IInv, NEW c \in Clients, pc[c] = "menu"
    PROVE  /\ (InBacklog(c) /\ ~InDialogue(c)) \/ (~InBacklog(c) /\ InDialogue(c) /\ srv.at = "command")
           /\ Said(c, <<>>) /\ toClient[c] = <<>>
           /\ ~Listed(c)
<1>1. Joint(c)
  BY DEF IInv
<1>2. ~Afterwards(c)
  BY DEF Afterwards, Dead, Reads
<1>3. InBacklog(c) \/ InDialogue(c)
  BY <1>1, <1>2 DEF Joint
<1>4. ASSUME AtMenu(c)
      PROVE  Said(c, <<>>) /\ toClient[c] = <<>>
  BY <1>4 DEF AtMenu, Dead, Reads
<1>5. ASSUME InDialogue(c)
      PROVE  srv.at = "command" /\ AtMenu(c)
  BY <1>1, <1>5 DEF Joint, AtCommand, AtPasswd, AtCrypt, AtAdmit, Salted, Dead, Reads
<1> QED
  BY <1>1, <1>3, <1>4, <1>5 DEF Joint

\* To one of the places a main() that waits for a command reckons with.
LEMMA FromTheMenu ==
    ASSUME IInv, NEW c \in Clients, pc[c] = "menu", OnlyClient(c), UNCHANGED server,
           pc'[c] # "off", AtMenu(c)'
    PROVE  IInv'
<1>1. Kept(c)
  BY Stays
<1>2. /\ (InBacklog(c) /\ ~InDialogue(c)) \/ (~InBacklog(c) /\ InDialogue(c) /\ srv.at = "command")
      /\ ~Listed(c)
  BY AtTheMenu
<1>3. srv' = srv
  BY DEF server
<1>4. srv.at = "command" => AtCommand(c)' /\ AtPasswd(c)' /\ AtCrypt(c)' /\ AtAdmit(c)'
  BY <1>3 DEF AtCommand, AtPasswd, AtCrypt, AtAdmit
<1>5. Entered(c)'
  BY <1>1, <1>2 DEF Kept, Entered, Listed
<1>6. Joint(c)'
  BY <1>1, <1>2, <1>3, <1>4, <1>5 DEF Kept, Joint
<1> QED
  BY <1>6, Alone

LEMMA ChooseInv ==
    ASSUME IInv, NEW c \in Clients, NEW how \in {"login", "signin"},
           NEW n \in Names \cup {NoUser}, NEW p \in Passwords, Choose(c, how, n, p)
    PROVE  IInv'
<1>1. OnlyClient(c) /\ UNCHANGED server
  BY DEF IInv, Typed, Choose, OnlyClient, Goto, Send
<1>2. Said(c, <<>>) /\ toClient[c] = <<>> /\ pc[c] = "menu"
  BY AtTheMenu DEF Choose
<1>3. form'[c] = [how |-> how, user |-> n, passwd |-> p] /\ form'[c] \in Forms
  BY DEF IInv, Typed, Choose, Forms
<1>4. pc'[c] = "exists" /\ toClient'[c] = <<>>
  BY <1>2 DEF IInv, Typed, Choose, Goto
<1>5. toServer'[c] = <<Box(Words(form[c])')>>
  BY <1>2, <1>3, One DEF IInv, Typed, Choose, Send, Said, Words
<1>6. AtMenu(c)'
  BY <1>3, <1>4, <1>5 DEF AtMenu, Reads, Said
<1> QED
  BY <1>1, <1>2, <1>4, <1>6, FromTheMenu

LEMMA QuitInv ==
    ASSUME IInv, NEW c \in Clients, Quit(c)
    PROVE  IInv'
<1>1. OnlyClient(c) /\ UNCHANGED server
  BY DEF IInv, Typed, Quit, OnlyClient, Goto, Send
<1>2. Said(c, <<>>) /\ pc[c] = "menu"
  BY AtTheMenu DEF Quit
<1>3. pc'[c] = "quit" /\ toServer'[c] = <<Box(<<"quit">>)>>
  BY <1>2, One DEF IInv, Typed, Quit, Goto, Send, Said
<1>4. AtMenu(c)'
  BY <1>3 DEF AtMenu, Said
<1> QED
  BY <1>1, <1>2, <1>3, <1>4, FromTheMenu
\* A step within the dialogue; and one after it.
LEMMA Inside ==
    ASSUME IInv, NEW c \in Clients, OnlyClient(c), UNCHANGED server,
           InDialogue(c), srv.at # "hung", pc'[c] # "off",
           AtCommand(c)', AtPasswd(c)', AtCrypt(c)', AtAdmit(c)'
    PROVE  IInv'
<1>1. Kept(c) /\ srv' = srv
  BY Stays DEF server
<1>2. /\ ~InBacklog(c) /\ ~Listed(c)
      /\ srv.at \in {"command", "passwd", "crypt", "admit"}
  BY DEF IInv, Joint
<1>3. Entered(c)'
  BY <1>1, <1>2 DEF Kept, Entered, Listed
<1>4. Joint(c)'
  BY <1>1, <1>2, <1>3 DEF Kept, Joint
<1> QED
  BY <1>4, Alone

LEMMA Outside ==
    ASSUME IInv, NEW c \in Clients, OnlyClient(c), UNCHANGED server,
           ~InBacklog(c), ~InDialogue(c), pc[c] # "quit", pc'[c] \notin {"off", "quit"},
           form'[c] = form[c], Afterwards(c)'
    PROVE  IInv'
<1>1. Kept(c) /\ users' = users /\ db' = db /\ sessions' = sessions
  BY Stays DEF server
<1>2. Entered(c)'
  BY <1>1 DEF IInv, Joint, Entered, Proved
<1>3. Joint(c)'
  BY <1>1, <1>2 DEF Kept, Joint
<1> QED
  BY <1>3, Alone

LEMMA ItemKinds ==
    ASSUME NEW x
    PROVE  /\ Num(x).kind = "int" /\ Num(x).val = x
           /\ Box(x).kind = "box" /\ Box(x).val = x
  BY DEF Num, Box

\* Where an int can reach a client that asked whether a user exists.
LEMMA IntAtExists ==
    ASSUME IInv, NEW c \in Clients, pc[c] = "exists", Arrived(c, "int")
    PROVE  /\ InDialogue(c) /\ Said(c, <<>>)
           /\ \/ srv.at = "command" /\ toClient[c] = <<Num(0)>> /\ form[c].how = "login"
              \/ srv.at = "passwd" /\ toClient[c] = <<Num(0)>> /\ form[c].how = "signin"
              \/ /\ srv.at = "crypt" /\ form[c].how \in {"login", "signin"}
                 /\ \E salt : toClient[c] = <<Num(1), Box(salt)>>
<1>1. Joint(c) /\ toClient[c] # <<>> /\ toClient[c] # <<Token>>
  BY One, ItemKinds DEF IInv, Arrived, Token
<1>2. ~AtMenu(c) /\ ~Afterwards(c)
  BY <1>1 DEF AtMenu, Afterwards, Dead, Reads
<1>3. InDialogue(c)
  BY <1>1, <1>2 DEF Joint
<1>4. srv.at \in {"command", "passwd", "crypt", "admit"}
  BY <1>1, <1>3 DEF Joint, Dead
<1>5. CASE srv.at = "command"
  BY <1>1, <1>2, <1>3, <1>5 DEF Joint, AtCommand, Reads
<1>6. CASE srv.at = "passwd"
  BY <1>1, <1>3, <1>6 DEF Joint, AtPasswd, Dead, Reads
<1>7. CASE srv.at = "crypt"
  BY <1>1, <1>3, <1>7 DEF Joint, AtCrypt, Salted, Dead, Reads, Said
<1>8. CASE srv.at = "admit"
  BY <1>1, <1>3, <1>8 DEF Joint, AtAdmit, Dead, Reads
<1> QED
  BY <1>4, <1>5, <1>6, <1>7, <1>8

LEMMA LoginExistsInv ==
    ASSUME IInv, NEW c \in Clients, LoginExists(c)
    PROVE  IInv'
<1>1. OnlyClient(c) /\ UNCHANGED server /\ srv' = srv
  BY DEF IInv, Typed, LoginExists, OnlyClient, Goto, Take, BackToMenu, server
<1>2. /\ InDialogue(c) /\ Said(c, <<>>)
      /\ \/ srv.at = "command" /\ toClient[c] = <<Num(0)>>
         \/ srv.at = "crypt" /\ \E salt : toClient[c] = <<Num(1), Box(salt)>>
  BY IntAtExists DEF LoginExists
<1>3. Said(c, <<>>)' /\ toClient'[c] = Tail(toClient[c])
  BY <1>2 DEF IInv, Typed, LoginExists, Take, Said
<1>4. CASE srv.at = "command" /\ toClient[c] = <<Num(0)>>
  <2>1. Item(c) = 0 /\ toClient'[c] = <<>>
    BY <1>3, <1>4, One, ItemKinds DEF Item
  <2>2. pc'[c] = "menu"
    BY <2>1 DEF IInv, Typed, LoginExists, BackToMenu, Goto
  <2>3. AtCommand(c)' /\ AtPasswd(c)' /\ AtCrypt(c)' /\ AtAdmit(c)'
    BY <1>1, <1>3, <1>4, <2>1, <2>2 DEF AtCommand, AtPasswd, AtCrypt, AtAdmit, AtMenu, Reads
  <2> QED
    BY <1>1, <1>2, <1>4, <2>2, <2>3, Inside
<1>5. ASSUME srv.at = "crypt", NEW salt, toClient[c] = <<Num(1), Box(salt)>>
      PROVE  IInv'
  <2>1. Item(c) = 1 /\ toClient'[c] = <<Box(salt)>>
    BY <1>3, <1>5, Two, ItemKinds DEF Item
  <2>2. pc'[c] = "salt" /\ form' = form
    BY <2>1 DEF IInv, Typed, LoginExists, Goto
  <2>3. AtCrypt(c)
    BY <1>2 DEF IInv, Joint
  <2>4. ASSUME NEW x, Salted(c, x)
        PROVE  Salted(c, x)'
    <3>1. toClient[c] = <<Num(1), Box(x)>>
      BY <1>5, <2>4 DEF Salted, Dead, Reads, LoginExists
    <3> QED
      BY <1>3, <2>2, <3>1, Two DEF Salted, Reads
  <2>5. ~(Dead(c) \/ Reads(c, "right", <<>>))
    BY DEF LoginExists, Dead, Reads
  <2>6. AtCrypt(c)'
    BY <1>1, <1>5, <2>2, <2>3, <2>4, <2>5 DEF AtCrypt, server
  <2>7. AtCommand(c)' /\ AtPasswd(c)' /\ AtAdmit(c)'
    BY <1>1, <1>5 DEF AtCommand, AtPasswd, AtAdmit
  <2> QED
    BY <1>1, <1>2, <1>5, <2>2, <2>6, <2>7, Inside
<1> QED
  BY <1>2, <1>4, <1>5
LEMMA SigninExistsInv ==
    ASSUME IInv, NEW c \in Clients, SigninExists(c)
    PROVE  IInv'
<1>1. OnlyClient(c) /\ UNCHANGED server /\ srv' = srv /\ form' = form
  BY DEF IInv, Typed, SigninExists, OnlyClient, Goto, Take, Send, server
<1>2. /\ InDialogue(c) /\ Said(c, <<>>)
      /\ \/ srv.at = "passwd" /\ toClient[c] = <<Num(0)>>
         \/ srv.at = "crypt" /\ \E salt : toClient[c] = <<Num(1), Box(salt)>>
  BY IntAtExists DEF SigninExists
<1>3. toClient'[c] = Tail(toClient[c])
  BY DEF IInv, Typed, SigninExists, Take
<1>4. CASE srv.at = "passwd" /\ toClient[c] = <<Num(0)>>
  <2>1. Item(c) = 0 /\ toClient'[c] = <<>>
    BY <1>3, <1>4, One, ItemKinds DEF Item
  <2>2. pc'[c] = "token" /\ toServer'[c] = <<Box(<<"passwd", form[c].passwd>>)>>
    BY <1>2, <2>1, One DEF IInv, Typed, SigninExists, Goto, Send, Said
  <2>3. AtPasswd(c)
    BY <1>2 DEF IInv, Joint
  <2>4. AtPasswd(c)'
    BY <1>1, <1>4, <2>1, <2>2, <2>3 DEF AtPasswd, Reads, Said, server
  <2>5. AtCommand(c)' /\ AtCrypt(c)' /\ AtAdmit(c)'
    BY <1>1, <1>4 DEF AtCommand, AtCrypt, AtAdmit
  <2> QED
    BY <1>1, <1>2, <1>4, <2>2, <2>4, <2>5, Inside
<1>5. ASSUME srv.at = "crypt", NEW salt, toClient[c] = <<Num(1), Box(salt)>>
      PROVE  IInv'
  <2>1. Item(c) = 1 /\ toClient'[c] = <<Box(salt)>>
    BY <1>3, <1>5, Two, ItemKinds DEF Item
  <2>2. pc'[c] = "salt" /\ Said(c, <<>>)'
    BY <1>2, <2>1 DEF IInv, Typed, SigninExists, Goto, Said
  <2>3. AtCrypt(c)
    BY <1>2 DEF IInv, Joint
  <2>4. ASSUME NEW x, Salted(c, x)
        PROVE  Salted(c, x)'
    <3>1. toClient[c] = <<Num(1), Box(x)>>
      BY <1>5, <2>4 DEF Salted, Dead, Reads, SigninExists
    <3> QED
      BY <1>3, <2>2, <3>1, Two DEF Salted, Reads
  <2>5. ~(Dead(c) \/ Reads(c, "right", <<>>))
    BY DEF SigninExists, Dead, Reads
  <2>6. AtCrypt(c)'
    BY <1>1, <1>5, <2>2, <2>3, <2>4, <2>5 DEF AtCrypt, server
  <2>7. AtCommand(c)' /\ AtPasswd(c)' /\ AtAdmit(c)'
    BY <1>1, <1>5 DEF AtCommand, AtPasswd, AtAdmit
  <2> QED
    BY <1>1, <1>2, <1>5, <2>2, <2>6, <2>7, Inside
<1> QED
  BY <1>2, <1>4, <1>5

LEMMA RecvSaltInv ==
    ASSUME IInv, NEW c \in Clients, RecvSalt(c)
    PROVE  IInv'
<1>1. OnlyClient(c) /\ UNCHANGED server /\ srv' = srv /\ form' = form /\ users' = users
  BY DEF IInv, Typed, RecvSalt, OnlyClient, Goto, Take, Send, server
<1>2. Joint(c) /\ pc[c] = "salt"
  BY DEF IInv, RecvSalt
<1>3. InDialogue(c)
  BY <1>2 DEF Joint, AtMenu, Afterwards, Dead, Reads
<1>4. srv.at = "crypt"
  BY <1>2, <1>3 DEF Joint, AtCommand, AtMenu, AtPasswd, AtAdmit, Dead, Reads
<1>5. AtCrypt(c) /\ Typed
  BY <1>2, <1>3 DEF Joint, IInv
<1>6. AtCommand(c)' /\ AtPasswd(c)' /\ AtAdmit(c)'
  BY <1>1, <1>4 DEF AtCommand, AtPasswd, AtAdmit
<1>7. CASE Salted(c, Empty)
  <2>1. Item(c) = Empty /\ Said(c, <<>>)
    BY <1>2, <1>7, One, ItemKinds DEF Salted, Dead, Reads, Item
  <2>2. Dead(c)' /\ Said(c, <<>>)'
    BY <2>1 DEF IInv, Typed, RecvSalt, Goto, Dead, Said
  <2>3. AtCrypt(c)'
    BY <1>1, <1>4, <1>5, <2>2 DEF AtCrypt, Salted
  <2> QED
    BY <1>1, <1>3, <1>4, <1>6, <2>2, <2>3, Inside DEF Dead
<1>8. CASE ~Salted(c, Empty)
  <2>1. /\ srv.user \in DOMAIN users /\ srv.cryptpasswd = users[srv.user].cryptpasswd
        /\ Salted(c, users[srv.user].salt)
    BY <1>2, <1>4, <1>5, <1>8 DEF AtCrypt, Dead, Reads
  <2>2. toClient[c] = <<Box(users[srv.user].salt)>> /\ Said(c, <<>>)
    BY <1>2, <2>1 DEF Salted, Dead, Reads
  <2>3. Item(c) = users[srv.user].salt /\ Item(c) # Empty
    BY <1>5, <2>1, <2>2, One, ItemKinds DEF Item, Typed
  <2>4. pc'[c] = "right" /\ toClient'[c] = <<>>
    BY <2>2, <2>3, One DEF IInv, Typed, RecvSalt, Goto, Take
  <2>5. toServer'[c] = <<Box(crypt(form[c].passwd, users[srv.user].salt[2]))>>
    BY <2>2, <2>3, One DEF IInv, Typed, RecvSalt, Send, Said
  <2>6. AtCrypt(c)'
    BY <1>1, <1>4, <1>5, <2>1, <2>4, <2>5 DEF AtCrypt, Reads, Said
  <2> QED
    BY <1>1, <1>3, <1>4, <1>6, <2>4, <2>6, Inside
<1> QED
  BY <1>7, <1>8

LEMMA RecvRightInv ==
    ASSUME IInv, NEW c \in Clients, RecvRight(c)
    PROVE  IInv'
<1>1. OnlyClient(c) /\ UNCHANGED server /\ srv' = srv /\ users' = users
  BY DEF IInv, Typed, RecvRight, OnlyClient, Goto, Take, BackToMenu, server
<1>2. Joint(c) /\ pc[c] = "right" /\ toClient[c] # <<>>
  BY DEF IInv, RecvRight, Arrived
<1>3. toClient'[c] = Tail(toClient[c]) /\ toServer'[c] = toServer[c]
  BY DEF IInv, Typed, RecvRight, Take
<1>4. ~InBacklog(c)
  BY <1>2 DEF Joint, AtMenu, Dead, Reads
<1>5. ASSUME InDialogue(c)
      PROVE  IInv'
  <2>1. (srv.at = "command" /\ AtCommand(c)) \/ (srv.at = "admit" /\ AtAdmit(c))
    BY <1>2, <1>5 DEF Joint, AtPasswd, AtCrypt, Salted, Dead, Reads
  <2>2. CASE srv.at = "command"
    <3>1. toClient[c] = <<Num(0)>> /\ Said(c, <<>>)
      BY <1>2, <2>1, <2>2 DEF AtCommand, AtMenu, Dead, Reads
    <3>2. Item(c) = 0 /\ toClient'[c] = <<>> /\ Said(c, <<>>)'
      BY <1>3, <3>1, One, ItemKinds DEF Item, Said
    <3>3. pc'[c] = "menu"
      BY <3>2 DEF IInv, Typed, RecvRight, BackToMenu, Goto
    <3>4. AtCommand(c)' /\ AtPasswd(c)' /\ AtCrypt(c)' /\ AtAdmit(c)'
      BY <1>1, <2>2, <3>2, <3>3 DEF AtCommand, AtPasswd, AtCrypt, AtAdmit, AtMenu, Reads
    <3> QED
      BY <1>1, <1>5, <2>2, <3>3, <3>4, Inside
  <2>3. CASE srv.at = "admit"
    <3>1. /\ toClient[c] = <<Num(1)>> /\ Said(c, <<>>)
          /\ srv.user = form[c].user /\ Proved(c)
      BY <1>2, <2>1, <2>3 DEF AtAdmit, Dead, Reads
    <3>2. Item(c) = 1 /\ toClient'[c] = <<>> /\ Said(c, <<>>)'
      BY <1>3, <3>1, One, ItemKinds DEF Item, Said
    <3>3. pc'[c] = "token" /\ form' = form
      BY <3>2 DEF IInv, Typed, RecvRight, Goto
    <3>4. AtCommand(c)' /\ AtPasswd(c)' /\ AtCrypt(c)' /\ AtAdmit(c)'
      BY <1>1, <2>3, <3>1, <3>2, <3>3 DEF AtCommand, AtPasswd, AtCrypt, AtAdmit, Reads, Proved
    <3> QED
      BY <1>1, <1>5, <2>3, <3>3, <3>4, Inside
  <2> QED
    BY <2>1, <2>2, <2>3
<1>6. ASSUME ~InDialogue(c)
      PROVE  IInv'
  <2>1. Afterwards(c)
    BY <1>2, <1>4, <1>6 DEF Joint
  <2>2. toClient[c] = <<Num(1), Token>> /\ Said(c, <<>>) /\ Proved(c)
    BY <1>2, <2>1 DEF Afterwards, Dead, Reads
  <2>3. Item(c) = 1 /\ toClient'[c] = <<Token>> /\ Said(c, <<>>)'
    BY <1>3, <2>2, Two, ItemKinds DEF Item, Said
  <2>4. pc'[c] = "token" /\ form' = form
    BY <2>3 DEF IInv, Typed, RecvRight, Goto
  <2>5. Afterwards(c)'
    BY <1>1, <2>2, <2>3, <2>4 DEF Afterwards, Reads, Proved
  <2> QED
    BY <1>1, <1>2, <1>4, <1>6, <2>4, <2>5, Outside
<1> QED
  BY <1>5, <1>6
LEMMA RecvTokenInv ==
    ASSUME IInv, NEW c \in Clients, RecvToken(c)
    PROVE  IInv'
<1>1. OnlyClient(c) /\ UNCHANGED server /\ users' = users /\ form' = form
  BY DEF IInv, Typed, RecvToken, OnlyClient, Goto, Take, Send, server
<1>2. Joint(c) /\ pc[c] = "token" /\ toClient[c] # <<>>
  BY DEF IInv, RecvToken, Arrived
<1>3. ~InBacklog(c) /\ ~InDialogue(c)
  BY <1>2 DEF Joint, AtMenu, AtCommand, AtPasswd, AtCrypt, AtAdmit, Salted, Dead, Reads
<1>4. toClient[c] = <<Token>> /\ Said(c, <<>>) /\ Proved(c)
  BY <1>2, <1>3 DEF Joint, Afterwards, Dead, Reads
<1>5. pc'[c] = "pwd" /\ toClient'[c] = <<>> /\ toServer'[c] = <<Box(<<"pwd">>)>>
  BY <1>4, One DEF IInv, Typed, RecvToken, Take, Goto, Send, Said
<1>6. Afterwards(c)'
  BY <1>1, <1>4, <1>5 DEF Afterwards, Reads, Said, Proved
<1> QED
  BY <1>1, <1>2, <1>3, <1>5, <1>6, Outside

LEMMA RecvPwdInv ==
    ASSUME IInv, NEW c \in Clients, RecvPwd(c)
    PROVE  IInv'
<1>1. OnlyClient(c) /\ UNCHANGED server /\ users' = users /\ form' = form
  BY DEF IInv, Typed, RecvPwd, OnlyClient, Goto, Take, server
<1>2. Joint(c) /\ pc[c] = "pwd"
  BY DEF IInv, RecvPwd
<1>3. ~InBacklog(c) /\ ~InDialogue(c)
  BY <1>2 DEF Joint, AtMenu, AtCommand, AtPasswd, AtCrypt, AtAdmit, Salted, Dead, Reads
<1>4. Proved(c)
  BY <1>2, <1>3 DEF Joint, Afterwards, Dead, Reads
<1>5. pc'[c] = "shell"
  BY DEF IInv, Typed, RecvPwd, Goto
<1>6. Afterwards(c)'
  BY <1>1, <1>4, <1>5 DEF Afterwards, Proved
<1> QED
  BY <1>1, <1>2, <1>3, <1>5, <1>6, Outside

\* Only the connection without a user gets an item it cannot read.
LEMMA MisreadInv ==
    ASSUME IInv, NEW c \in Clients, Misread(c)
    PROVE  IInv'
<1>1. OnlyClient(c) /\ UNCHANGED server /\ form' = form
  BY DEF IInv, Typed, Misread, OnlyClient, Goto, server
<1>2. /\ Joint(c) /\ toClient[c] # <<>>
      /\ pc[c] \in {"exists", "salt", "right", "token", "pwd"}
      /\ Head(toClient[c]).kind # Expects[pc[c]]
  BY DEF IInv, Misread, Arrived, Expects
<1>3. /\ Expects["exists"] = "int" /\ Expects["salt"] = "box" /\ Expects["right"] = "int"
      /\ Expects["token"] = "box" /\ Expects["pwd"] = "box"
  BY DEF Expects
<1>4. ~InBacklog(c)
  BY <1>2 DEF Joint, AtMenu, Dead, Reads
<1>5. ~InDialogue(c)
  <2> SUFFICES ASSUME InDialogue(c)
               PROVE  FALSE
    OBVIOUS
  <2>1. /\ srv.at \in {"command", "passwd", "crypt", "admit"}
        /\ AtCommand(c) /\ AtPasswd(c) /\ AtCrypt(c) /\ AtAdmit(c)
    BY <1>2 DEF Joint, Dead
  <2>2. CASE srv.at = "command"
    BY <1>2, <1>3, <2>1, <2>2, One, ItemKinds DEF AtCommand, AtMenu, Dead, Reads
  <2>3. CASE srv.at = "passwd"
    BY <1>2, <1>3, <2>1, <2>3, One, ItemKinds DEF AtPasswd, Dead, Reads
  <2>4. CASE srv.at = "crypt"
    BY <1>2, <1>3, <2>1, <2>4, One, Two, ItemKinds DEF AtCrypt, Salted, Dead, Reads
  <2>5. CASE srv.at = "admit"
    BY <1>2, <1>3, <2>1, <2>5, One, ItemKinds DEF AtAdmit, Dead, Reads
  <2> QED
    BY <2>1, <2>2, <2>3, <2>4, <2>5
<1>6. form[c].user = NoUser
  <2>1. Afterwards(c)
    BY <1>2, <1>4, <1>5 DEF Joint
  <2> QED
    BY <1>2, <1>3, <2>1, One, Two, ItemKinds DEF Afterwards, Token, Dead, Reads
<1>7. pc'[c] = "lost"
  BY DEF IInv, Typed, Misread, Goto
<1>8. Afterwards(c)'
  BY <1>1, <1>6, <1>7 DEF Afterwards
<1> QED
  BY <1>1, <1>2, <1>4, <1>5, <1>7, <1>8, Outside

LEMMA DieInv ==
    ASSUME IInv, NEW c \in Clients, Die(c)
    PROVE  IInv'
<1>1. OnlyClient(c) /\ UNCHANGED server /\ UNCHANGED <<srv, users, db, sessions, form, toServer, toClient>>
  BY DEF IInv, Typed, Die, OnlyClient, Goto, server
<1>2. Joint(c) /\ pc[c] \notin {"off", "quit", "dead"}
  BY DEF IInv, Die
<1>3. pc'[c] = "dead"
  BY DEF IInv, Typed, Die, Goto
<1>4. Dead(c)' /\ ~Dead(c) /\ Kept(c)
  BY <1>1, <1>2, <1>3, Stays DEF Dead
<1>5. AtMenu(c) => AtMenu(c)'
  BY <1>1, <1>2, <1>4 DEF AtMenu, Said
<1>6. AtCommand(c) => AtCommand(c)'
  BY <1>1, <1>4, <1>5 DEF AtCommand, AtMenu, Said
<1>7. AtPasswd(c) => AtPasswd(c)'
  BY <1>1, <1>4 DEF AtPasswd, Said
<1>8. AtCrypt(c) => AtCrypt(c)'
  BY <1>1, <1>4 DEF AtCrypt, Salted, Said
<1>9. AtAdmit(c) => AtAdmit(c)'
  BY <1>1, <1>4 DEF AtAdmit, Said, Proved
<1>10. Entered(c)'
  BY <1>1, <1>2 DEF Joint, Entered, Proved
<1>11. Joint(c)'
  BY <1>1, <1>2, <1>3, <1>4, <1>5, <1>6, <1>7, <1>8, <1>9, <1>10 DEF Joint, Kept, Afterwards
<1> QED
  BY <1>1, <1>11, Alone

(***************************************************************************)
(* The queue of connections.                                               *)
(***************************************************************************)
LEMMA Joined ==
    ASSUME NEW q \in Seq(Clients), NEW c \in Clients, Once(q), ~Holds(q, c),
           NEW r, r = Append(q, c)
    PROVE  /\ r \in Seq(Clients)
           /\ Once(r)
           /\ \A d : Holds(r, d) <=> d = c \/ Holds(q, d)
<1>1. /\ r \in Seq(Clients) /\ DOMAIN r = 1 .. Len(q) + 1 /\ DOMAIN q = 1 .. Len(q)
      /\ Len(q) \in Nat /\ r[Len(q) + 1] = c /\ \A i \in 1 .. Len(q) : r[i] = q[i]
  OBVIOUS
<1>2. \A i, j \in DOMAIN r : r[i] = r[j] => i = j
  BY <1>1 DEF Once, Holds
<1>3. ASSUME NEW d
      PROVE  (\E i \in DOMAIN r : r[i] = d) <=> d = c \/ \E i \in DOMAIN q : q[i] = d
  BY <1>1
<1> QED
  BY <1>1, <1>2, <1>3 DEF Once, Holds

LEMMA Left ==
    ASSUME NEW q \in Seq(Clients), q # <<>>, Once(q),
           NEW r, r = Tail(q), NEW h, h = Head(q)
    PROVE  /\ r \in Seq(Clients) /\ h \in Clients
           /\ Once(r) /\ Holds(q, h)
           /\ \A d : Holds(r, d) <=> d # h /\ Holds(q, d)
<1>1. /\ r \in Seq(Clients) /\ DOMAIN r = 1 .. Len(q) - 1 /\ DOMAIN q = 1 .. Len(q)
      /\ Len(q) \in Nat \ {0} /\ q[1] = h /\ \A i \in 1 .. Len(q) - 1 : r[i] = q[i + 1]
  OBVIOUS
<1>2. h \in Clients
  OBVIOUS
<1>3. ASSUME NEW i \in DOMAIN r, NEW j \in DOMAIN r, r[i] = r[j]
      PROVE  i = j
  <2>1. i + 1 \in DOMAIN q /\ j + 1 \in DOMAIN q /\ q[i + 1] = q[j + 1]
    BY <1>1, <1>3
  <2>2. i + 1 = j + 1
    BY <2>1 DEF Once
  <2> QED
    BY <1>1, <2>2
<1>4. ASSUME NEW d
      PROVE  (\E i \in DOMAIN r : r[i] = d) <=> d # h /\ \E i \in DOMAIN q : q[i] = d
  <2>1. ASSUME NEW i \in DOMAIN r, r[i] = d
        PROVE  d # h /\ \E j \in DOMAIN q : q[j] = d
    <3>1. i + 1 \in DOMAIN q /\ q[i + 1] = d /\ i + 1 # 1 /\ 1 \in DOMAIN q
      BY <1>1, <2>1
    <3>2. d # h
      BY <1>1, <3>1 DEF Once
    <3> QED
      BY <3>1, <3>2
  <2>2. ASSUME d # h, NEW j \in DOMAIN q, q[j] = d
        PROVE  \E i \in DOMAIN r : r[i] = d
    <3>1. j # 1 /\ j - 1 \in DOMAIN r /\ r[j - 1] = d
      BY <1>1, <2>2
    <3> QED
      BY <3>1
  <2> QED
    BY <2>1, <2>2
<1> QED
  BY <1>1, <1>2, <1>3, <1>4 DEF Once, Holds
LEMMA ConnectInv ==
    ASSUME IInv, NEW c \in Clients, Connect(c)
    PROVE  IInv'
<1>1. /\ pc[c] = "off" /\ pc' = [pc EXCEPT ![c] = "menu"] /\ backlog' = Append(backlog, c)
      /\ UNCHANGED <<form, toServer, toClient, srv, users, db, sessions>>
  BY DEF Connect, Goto
<1>2. /\ ~InBacklog(c) /\ ~InDialogue(c) /\ Said(c, <<>>) /\ toClient[c] = <<>>
      /\ ~Listed(c)
  BY <1>1 DEF IInv, Joint
<1>3. /\ backlog' \in Seq(Clients)
      /\ Once(backlog)'
      /\ \A d : InBacklog(d)' <=> d = c \/ InBacklog(d)
  <2>1. backlog \in Seq(Clients) /\ Once(backlog) /\ ~Holds(backlog, c)
    BY <1>2 DEF IInv, Typed, InBacklog
  <2> QED
    BY <1>1, <2>1, Joined DEF InBacklog
<1>4. Typed'
  BY <1>1, <1>3 DEF IInv, Typed
<1>5. ASSUME NEW d \in Clients \ {c}
      PROVE  Joint(d)'
  <2>1. Untouched(d)
    BY <1>1, <1>3 DEF IInv, Typed, Untouched, InDialogue, At
  <2> QED
    BY <2>1, Frame DEF IInv
<1>6. pc'[c] = "menu" /\ AtMenu(c)'
  BY <1>1, <1>2 DEF IInv, Typed, AtMenu, Reads, Said
<1>7. ~InDialogue(c)' /\ ~Listed(c)' /\ Entered(c)'
  BY <1>1, <1>2 DEF InDialogue, At, Listed, Entered
<1>8. Joint(c)'
  BY <1>3, <1>6, <1>7 DEF Joint
<1> QED
  BY <1>4, <1>5, <1>8 DEF IInv

(***************************************************************************)
(* The server's steps in the dialogue with client c.                       *)
(***************************************************************************)
OnlyTalk(c) ==
    /\ UNCHANGED <<pc, form, backlog, db>>
    /\ DOMAIN toServer' = Clients /\ DOMAIN toClient' = Clients
    /\ \A d \in Clients \ {c} : toServer'[d] = toServer[d] /\ toClient'[d] = toClient[d]
    /\ srv'.at = "wait" \/ srv'.conn = c
    /\ \A s \in sessions' : s \in sessions \/ s.conn = c
    /\ \A n \in DOMAIN users : n \in DOMAIN users' /\ users'[n] = users[n]
    /\ \A n \in DOMAIN users' : users'[n].salt # Empty

LEMMA Talk ==
    ASSUME IInv, NEW c \in Clients, InDialogue(c), OnlyTalk(c), Joint(c)'
    PROVE  IInv'
<1>1. Typed'
  BY DEF IInv, Typed, OnlyTalk
<1>2. ASSUME NEW d \in Clients \ {c}
      PROVE  Joint(d)'
  <2>1. ~InDialogue(d) /\ ~InDialogue(d)'
    BY DEF OnlyTalk, InDialogue, At
  <2>2. Untouched(d)
    BY <2>1 DEF Untouched, OnlyTalk, InBacklog
  <2> QED
    BY <2>2, Frame DEF IInv
<1> QED
  BY <1>1, <1>2 DEF IInv

\* main() stays with the client, perhaps for ever; or turns away from it.
LEMMA TalkGoesOn ==
    ASSUME IInv, NEW c \in Clients, InDialogue(c), OnlyTalk(c), sessions' = sessions,
           srv'.conn = c,
           srv'.at \in {"command", "passwd", "crypt", "admit"} \/ (srv'.at = "hung" /\ Dead(c)),
           AtCommand(c)', AtPasswd(c)', AtCrypt(c)', AtAdmit(c)'
    PROVE  IInv'
<1>1. pc[c] # "off" /\ ~InBacklog(c) /\ ~Listed(c)
  BY DEF IInv, Joint
<1>2. pc'[c] # "off" /\ ~InBacklog(c)' /\ ~Listed(c)' /\ InDialogue(c)' /\ (Dead(c) => Dead(c)')
  BY <1>1 DEF OnlyTalk, InBacklog, Listed, InDialogue, At, Dead
<1>3. Entered(c)'
  BY <1>2 DEF Entered, Listed
<1>4. Joint(c)'
  BY <1>2, <1>3 DEF Joint
<1> QED
  BY <1>4, Talk

LEMMA TalkIsOver ==
    ASSUME IInv, NEW c \in Clients, InDialogue(c), OnlyTalk(c), srv' = Waiting,
           Afterwards(c)', Entered(c)', pc[c] = "quit" => ~Listed(c)'
    PROVE  IInv'
<1>1. pc[c] # "off" /\ ~InBacklog(c)
  BY DEF IInv, Joint
<1>2. pc'[c] # "off" /\ ~InBacklog(c)' /\ ~InDialogue(c)' /\ pc' = pc
  BY <1>1 DEF OnlyTalk, InBacklog, InDialogue, At, Waiting
<1>3. Joint(c)'
  BY <1>2 DEF Joint
<1> QED
  BY <1>3, Talk

LEMMA Partner ==
    ASSUME IInv, srv.at # "wait"
    PROVE  srv.conn \in Clients /\ InDialogue(srv.conn) /\ Joint(srv.conn)
  BY DEF IInv, Typed, InDialogue, At

\* What Reply comes to.
LEMMA Replies ==
    ASSUME NEW items, NEW next, Reply(items, next), DOMAIN toClient = Clients, srv.conn \in Clients
    PROVE  LET c == srv.conn IN
           /\ DOMAIN toClient' = Clients
           /\ \A d \in Clients \ {c} : toClient'[d] = toClient[d]
           /\ \/ srv' = next /\ toClient'[c] = toClient[c] \o items
              \/ srv' = next /\ Dead(c)
              \/ srv' = [at |-> "hung", conn |-> c] /\ Dead(c)
  BY DEF Reply, Dead

\* What comes where main() waits for a command.
LEMMA CommandText ==
    ASSUME IInv, Box1("command")
    PROVE  LET c == srv.conn IN
           \/ /\ Dead(c) \/ Reads(c, "exists", <<>>)
              /\ form[c] \in Forms
              /\ Text = Words(form[c]) /\ Tail(toServer[c]) = <<>>
           \/ pc[c] = "quit" /\ Text = <<"quit">>
<1> DEFINE c == srv.conn
<1>1. /\ c \in Clients /\ InDialogue(c) /\ Joint(c) /\ toServer[c] # <<>>
      /\ srv.at = "command"
  BY Partner DEF Box1, At
<1> HIDE DEF c
<1>2. AtCommand(c)
  BY <1>1 DEF Joint
<1>3. AtMenu(c)
  BY <1>1, <1>2 DEF AtCommand, Said
<1>4. \/ /\ Dead(c) \/ Reads(c, "exists", <<>>)
         /\ form[c] \in Forms
         /\ toServer[c] = <<Box(Words(form[c]))>>
      \/ pc[c] = "quit" /\ toServer[c] = <<Box(<<"quit">>)>>
  BY <1>1, <1>3 DEF AtMenu, Said
<1>5. \A x : toServer[c] = <<Box(x)>> => Head(toServer[c]).val = x /\ Tail(toServer[c]) = <<>>
  BY One, ItemKinds
<1> QED
  BY <1>4, <1>5 DEF Text, c
LEMMA AcceptInv ==
    ASSUME IInv, Accept
    PROVE  IInv'
<1>0. PICK h : h = Head(backlog)
  OBVIOUS
<1>1. /\ srv.at = "wait" /\ backlog # <<>> /\ backlog' = Tail(backlog)
      /\ srv' = [at |-> "command", conn |-> h]
      /\ UNCHANGED <<pc, form, toServer, toClient, users, db, sessions>>
  BY <1>0 DEF Accept, At, client
<1>2. backlog \in Seq(Clients) /\ Once(backlog)
  BY DEF IInv, Typed
<1>3. /\ backlog' \in Seq(Clients) /\ h \in Clients /\ Once(backlog)'
      /\ \A d : InBacklog(d)' <=> d # h /\ InBacklog(d)
      /\ InBacklog(h)
  BY <1>0, <1>1, <1>2, Left DEF InBacklog
<1>4. Typed'
  BY <1>1, <1>3 DEF IInv, Typed
<1>5. ASSUME NEW d \in Clients \ {h}
      PROVE  Joint(d)'
  <2>1. ~InDialogue(d) /\ ~InDialogue(d)' /\ (InBacklog(d)' <=> InBacklog(d))
    BY <1>1, <1>3 DEF InDialogue, At
  <2>2. Untouched(d)
    BY <1>1, <2>1 DEF Untouched
  <2> QED
    BY <2>2, Frame DEF IInv
<1>6. AtMenu(h) /\ ~Listed(h) /\ pc[h] # "off"
  BY <1>3 DEF IInv, Joint
<1>7. AtMenu(h)' /\ ~Listed(h)' /\ pc'[h] # "off"
  BY <1>1, <1>6 DEF AtMenu, Listed, Dead, Reads, Said
<1>8. InDialogue(h)' /\ srv'.at = "command" /\ ~InBacklog(h)'
  BY <1>1, <1>3 DEF InDialogue, At
<1>9. AtCommand(h)' /\ AtPasswd(h)' /\ AtCrypt(h)' /\ AtAdmit(h)'
  BY <1>7, <1>8 DEF AtCommand, AtPasswd, AtCrypt, AtAdmit
<1>10. Joint(h)'
  BY <1>7, <1>8, <1>9 DEF Joint, Entered, Listed
<1> QED
  BY <1>4, <1>5, <1>10 DEF IInv

LEMMA QuitCommandInv ==
    ASSUME IInv, QuitCommand
    PROVE  IInv'
<1>0. PICK c : c = srv.conn
  OBVIOUS
<1>1. c \in Clients /\ InDialogue(c) /\ Joint(c) /\ srv.at = "command"
  BY <1>0, Partner DEF QuitCommand, Box1, At
<1>2. OnlyTalk(c) /\ srv' = Waiting /\ sessions' = sessions /\ pc' = pc
  BY <1>0, <1>1 DEF IInv, Typed, QuitCommand, TakeText, OnlyTalk, client, Waiting
<1>3. pc[c] = "quit"
  <2>1. ASSUME form[c] \in Forms
        PROVE  Words(form[c]) # <<"quit">>
    BY <2>1 DEF Forms, Words
  <2> QED
    BY <1>0, <2>1, CommandText DEF QuitCommand
<1>4. Afterwards(c)'
  BY <1>2, <1>3 DEF Afterwards
<1>5. ~Listed(c)' /\ Entered(c)'
  BY <1>1, <1>2 DEF Joint, Listed, Entered
<1> QED
  BY <1>1, <1>2, <1>4, <1>5, TalkIsOver

LEMMA NoNameCommandInv ==
    ASSUME IInv, NoNameCommand
    PROVE  IInv'
<1>0. PICK c : c = srv.conn
  OBVIOUS
<1>1. c \in Clients /\ InDialogue(c) /\ Joint(c) /\ srv.at = "command"
  BY <1>0, Partner DEF NoNameCommand, Box1, At
<1>2. /\ OnlyTalk(c) /\ srv' = [at |-> "admit", conn |-> c, user |-> NoUser]
      /\ sessions' = sessions /\ toClient' = toClient
      /\ toServer'[c] = Tail(toServer[c])
  BY <1>0, <1>1 DEF IInv, Typed, NoNameCommand, TakeText, OnlyTalk, client
<1>3. /\ Dead(c) \/ Reads(c, "exists", <<>>)
      /\ form[c] \in Forms
      /\ Text = Words(form[c]) /\ Tail(toServer[c]) = <<>>
  BY <1>0, CommandText DEF NoNameCommand
<1>4. form[c].user = NoUser
  BY <1>3 DEF NoNameCommand, Forms, Words
<1>5. Said(c, <<>>)' /\ (Dead(c)' \/ Reads(c, "exists", <<>>)') /\ form' = form
  BY <1>2, <1>3 DEF OnlyTalk, Said, Dead, Reads
<1>6. AtCommand(c)' /\ AtPasswd(c)' /\ AtCrypt(c)' /\ AtAdmit(c)'
  BY <1>2, <1>4, <1>5 DEF AtCommand, AtPasswd, AtCrypt, AtAdmit
<1> QED
  BY <1>1, <1>2, <1>6, TalkGoesOn

\* What a login or signin with a name says.
LEMMA NamedText ==
    ASSUME IInv, NEW how \in {"login", "signin"}, NamedCommand(how)
    PROVE  LET c == srv.conn IN
           /\ c \in Clients /\ InDialogue(c) /\ Joint(c)
           /\ Dead(c) \/ Reads(c, "exists", <<>>)
           /\ form[c].how = how /\ Text[2] = form[c].user /\ Tail(toServer[c]) = <<>>
<1> DEFINE c == srv.conn
<1>1. c \in Clients /\ InDialogue(c) /\ Joint(c)
  BY Partner DEF NamedCommand, Box1, At
<1>2. Text # <<"quit">>
  BY DEF NamedCommand
<1>3. /\ Dead(c) \/ Reads(c, "exists", <<>>)
      /\ form[c] \in Forms
      /\ Text = Words(form[c]) /\ Tail(toServer[c]) = <<>>
  BY <1>2, CommandText DEF NamedCommand
<1>4. Text = <<form[c].how, form[c].user>>
  BY <1>3 DEF NamedCommand, Words
<1> HIDE DEF c
<1>5. form[c].how = how /\ Text[2] = form[c].user
  BY <1>4 DEF NamedCommand
<1> QED
  BY <1>1, <1>3, <1>5 DEF c

\* Client c is gone and main() adds up -1 for ever.
LEMMA Hangs ==
    ASSUME IInv, NEW c \in Clients, InDialogue(c), OnlyTalk(c), sessions' = sessions,
           srv' = [at |-> "hung", conn |-> c], Dead(c)
    PROVE  IInv'
<1>1. AtCommand(c)' /\ AtPasswd(c)' /\ AtCrypt(c)' /\ AtAdmit(c)'
  BY DEF AtCommand, AtPasswd, AtCrypt, AtAdmit
<1> QED
  BY <1>1, TalkGoesOn

\* Client c is sent a salt, with the password of the user it named or with none.
LEMMA SendsSalt ==
    ASSUME IInv, NEW c \in Clients, InDialogue(c), OnlyTalk(c), UNCHANGED <<users, sessions>>,
           NEW salt, NEW pw, NEW n, n = form[c].user, form[c].how \in {"login", "signin"},
           srv' = [at |-> "crypt", conn |-> c, user |-> n, cryptpasswd |-> pw],
           Dead(c) \/ (pc[c] = "exists" /\ toClient'[c] = <<Num(1), Box(salt)>>),
           toServer'[c] = <<>>,
           \/ salt = Empty
           \/ n \in DOMAIN users /\ salt = users[n].salt /\ pw = users[n].cryptpasswd
    PROVE  IInv'
<1>1. pc' = pc /\ form' = form
  BY DEF OnlyTalk
<1>2. Salted(c, salt)'
  BY <1>1 DEF Salted, Said, Dead, Reads
<1>3. srv'.at = "crypt" /\ srv'.conn = c /\ srv'.user = n /\ srv'.cryptpasswd = pw
  OBVIOUS
<1>4. AtCrypt(c)'
  BY <1>1, <1>2, <1>3 DEF AtCrypt
<1>5. AtCommand(c)' /\ AtPasswd(c)' /\ AtAdmit(c)'
  BY <1>3 DEF AtCommand, AtPasswd, AtAdmit
<1> QED
  BY <1>3, <1>4, <1>5, TalkGoesOn

LEMMA KnownUserInv ==
    ASSUME IInv, NEW how \in {"login", "signin"}, KnownUser(how)
    PROVE  IInv'
<1>0. PICK c : c = srv.conn
  OBVIOUS
<1>u. PICK u : u = IF db THEN users[Text[2]] ELSE [salt |-> Empty, cryptpasswd |-> Empty]
  OBVIOUS
<1>n. PICK next : next = [at |-> "crypt", conn |-> c, user |-> Text[2], cryptpasswd |-> u.cryptpasswd]
  OBVIOUS
<1>1. /\ c \in Clients /\ InDialogue(c) /\ Joint(c)
      /\ Dead(c) \/ Reads(c, "exists", <<>>)
      /\ form[c].how = how /\ Text[2] = form[c].user /\ Tail(toServer[c]) = <<>>
  BY <1>0, NamedText DEF KnownUser
<1>2. Reply(<<Num(1), Box(u.salt)>>, next)
  BY <1>0, <1>u, <1>n DEF KnownUser
<1>3. /\ DOMAIN toClient' = Clients
      /\ \A d \in Clients \ {c} : toClient'[d] = toClient[d]
      /\ \/ srv' = next /\ toClient'[c] = toClient[c] \o <<Num(1), Box(u.salt)>>
         \/ srv' = next /\ Dead(c)
         \/ srv' = [at |-> "hung", conn |-> c] /\ Dead(c)
  BY <1>0, <1>1, <1>2, Replies DEF IInv, Typed
<1>4. /\ UNCHANGED <<pc, form, backlog, users, db, sessions>>
      /\ toServer' = [toServer EXCEPT ![c] = Tail(@)]
  BY <1>0 DEF KnownUser, TakeText, client
<1>5. next.at = "crypt" /\ next.conn = c /\ next.user = Text[2] /\ next.cryptpasswd = u.cryptpasswd
  BY <1>n
<1>6. ~db \/ Text[2] \in DOMAIN users
  BY DEF KnownUser, isUser
<1>7. \/ u.salt = Empty
      \/ Text[2] \in DOMAIN users /\ u.salt = users[Text[2]].salt
                                  /\ u.cryptpasswd = users[Text[2]].cryptpasswd
  BY <1>u, <1>6
<1>8. OnlyTalk(c) /\ Said(c, <<>>)'
  BY <1>1, <1>3, <1>4, <1>5 DEF IInv, Typed, OnlyTalk, Said
<1>9. CASE srv' = [at |-> "hung", conn |-> c] /\ Dead(c)
  BY <1>1, <1>4, <1>8, <1>9, Hangs
<1>10. CASE srv' = next /\ (Dead(c) \/ toClient'[c] = toClient[c] \o <<Num(1), Box(u.salt)>>)
  <2>1. Dead(c) \/ (pc[c] = "exists" /\ toClient'[c] = <<Num(1), Box(u.salt)>>)
    BY <1>1, <1>10, Two DEF Reads
  <2>2. /\ srv' = [at |-> "crypt", conn |-> c, user |-> form[c].user, cryptpasswd |-> u.cryptpasswd]
        /\ form[c].how \in {"login", "signin"} /\ toServer'[c] = <<>>
        /\ \/ u.salt = Empty
           \/ /\ form[c].user \in DOMAIN users /\ u.salt = users[form[c].user].salt
              /\ u.cryptpasswd = users[form[c].user].cryptpasswd
    BY <1>n, <1>1, <1>7, <1>8, <1>10 DEF Said
  <2> QED
    BY <1>1, <1>4, <1>8, <2>1, <2>2, SendsSalt
<1> QED
  BY <1>3, <1>9, <1>10
\* What a reply in the dialogue changes, and what is sent.
LEMMA Answers ==
    ASSUME IInv, NEW c \in Clients, c = srv.conn, InDialogue(c),
           NEW items, NEW next, Reply(items, next),
           next.at = "wait" \/ next.conn = c,
           TakeText \/ UNCHANGED toServer,
           UNCHANGED <<pc, form, backlog, users, db>>,
           \A s \in sessions' : s \in sessions \/ s.conn = c
    PROVE  /\ OnlyTalk(c)
           /\ TakeText => toServer'[c] = Tail(toServer[c])
           /\ \/ srv' = next /\ (Dead(c) \/ toClient'[c] = toClient[c] \o items)
              \/ srv' = [at |-> "hung", conn |-> c] /\ Dead(c)
<1>1. /\ DOMAIN toClient' = Clients
      /\ \A d \in Clients \ {c} : toClient'[d] = toClient[d]
      /\ \/ srv' = next /\ toClient'[c] = toClient[c] \o items
         \/ srv' = next /\ Dead(c)
         \/ srv' = [at |-> "hung", conn |-> c] /\ Dead(c)
  BY Replies DEF IInv, Typed
<1>2. /\ DOMAIN toServer' = Clients
      /\ \A d \in Clients \ {c} : toServer'[d] = toServer[d]
      /\ TakeText => toServer'[c] = Tail(toServer[c])
  BY DEF IInv, Typed, TakeText
<1>3. srv'.at = "wait" \/ srv'.conn = c
  BY <1>1
<1>4. OnlyTalk(c)
  BY <1>1, <1>2, <1>3 DEF IInv, Typed, OnlyTalk
<1> QED
  BY <1>1, <1>2, <1>4

LEMMA UnknownUserInv ==
    ASSUME IInv, NEW how \in {"login", "signin"}, UnknownUser(how)
    PROVE  IInv'
<1>0. PICK c : c = srv.conn
  OBVIOUS
<1>1. /\ c \in Clients /\ InDialogue(c) /\ Joint(c)
      /\ Dead(c) \/ Reads(c, "exists", <<>>)
      /\ form[c].how = how /\ Text[2] = form[c].user /\ Tail(toServer[c]) = <<>>
  BY <1>0, NamedText DEF UnknownUser
<1>2. db /\ Text[2] \notin DOMAIN users
  BY DEF UnknownUser, isUser, IInv, Typed
<1>3. PICK next : next = IF how = "login" THEN [at |-> "command", conn |-> c]
                         ELSE [at |-> "passwd", conn |-> c, user |-> Text[2]]
  OBVIOUS
<1>4. /\ Reply(<<Num(0)>>, next) /\ TakeText
      /\ UNCHANGED <<pc, form, backlog, users, db, sessions>>
  BY <1>0, <1>3 DEF UnknownUser, client
<1>5. next.conn = c
  BY <1>3
<1>6. /\ OnlyTalk(c) /\ toServer'[c] = <<>>
      /\ \/ srv' = next /\ (Dead(c) \/ toClient'[c] = toClient[c] \o <<Num(0)>>)
         \/ srv' = [at |-> "hung", conn |-> c] /\ Dead(c)
  BY <1>0, <1>1, <1>4, <1>5, Answers
<1>7. CASE srv' = [at |-> "hung", conn |-> c] /\ Dead(c)
  BY <1>1, <1>4, <1>6, <1>7, Hangs
<1>8. CASE srv' = next /\ (Dead(c) \/ toClient'[c] = toClient[c] \o <<Num(0)>>)
  <2>1. Said(c, <<>>)' /\ (Dead(c)' \/ Reads(c, "exists", <<Num(0)>>)')
    BY <1>1, <1>4, <1>6, <1>8, One DEF Said, Dead, Reads
  <2>2. CASE how = "login"
    <3>1. srv'.at = "command" /\ srv'.conn = c
      BY <1>3, <1>8, <2>2
    <3>2. AtCommand(c)' /\ AtPasswd(c)' /\ AtCrypt(c)' /\ AtAdmit(c)'
      BY <1>1, <1>4, <2>1, <2>2, <3>1 DEF AtCommand, AtPasswd, AtCrypt, AtAdmit, AtMenu
    <3> QED
      BY <1>1, <1>4, <1>6, <3>1, <3>2, TalkGoesOn
  <2>3. CASE how = "signin"
    <3>1. srv'.at = "passwd" /\ srv'.conn = c /\ srv'.user = form[c].user
      BY <1>1, <1>3, <1>8, <2>3
    <3>2. AtCommand(c)' /\ AtPasswd(c)' /\ AtCrypt(c)' /\ AtAdmit(c)'
      BY <1>1, <1>2, <1>4, <2>1, <2>3, <3>1 DEF AtCommand, AtPasswd, AtCrypt, AtAdmit
    <3> QED
      BY <1>1, <1>4, <1>6, <3>1, <3>2, TalkGoesOn
  <2> QED
    BY <2>2, <2>3
<1> QED
  BY <1>6, <1>7, <1>8

LEMMA RecvCryptInv ==
    ASSUME IInv, RecvCrypt
    PROVE  IInv'
<1>0. PICK c : c = srv.conn
  OBVIOUS
<1>1. /\ c \in Clients /\ InDialogue(c) /\ Joint(c) /\ srv.at = "crypt" /\ toServer[c] # <<>>
  BY <1>0, Partner DEF RecvCrypt, Box1, At
<1>2. AtCrypt(c)
  BY <1>1 DEF Joint
<1>3. /\ srv.user = form[c].user /\ srv.user \in DOMAIN users
      /\ srv.cryptpasswd = users[srv.user].cryptpasswd
      /\ Dead(c) \/ Reads(c, "right", <<>>)
      /\ toServer[c] = <<Box(crypt(form[c].passwd, users[srv.user].salt[2]))>>
  BY <1>1, <1>2 DEF AtCrypt, Salted, Said
<1>4. Text = crypt(form[c].passwd, users[srv.user].salt[2]) /\ Tail(toServer[c]) = <<>>
  BY <1>0, <1>3, One, ItemKinds DEF Text
<1>5. PICK n, next : /\ n = IF Text = srv.cryptpasswd THEN 1 ELSE 0
                     /\ next = IF Text = srv.cryptpasswd
                               THEN [at |-> "admit", conn |-> c, user |-> srv.user]
                               ELSE [at |-> "command", conn |-> c]
  OBVIOUS
<1>6. /\ Reply(<<Num(n)>>, next) /\ TakeText
      /\ UNCHANGED <<pc, form, backlog, users, db, sessions>>
  <2>1. CASE Text = srv.cryptpasswd
    BY <1>0, <1>5, <2>1 DEF RecvCrypt, client
  <2>2. CASE Text # srv.cryptpasswd
    BY <1>0, <1>5, <2>2 DEF RecvCrypt, client
  <2> QED
    BY <2>1, <2>2
<1>7. next.conn = c
  BY <1>5
<1>8. /\ OnlyTalk(c) /\ toServer'[c] = <<>>
      /\ \/ srv' = next /\ (Dead(c) \/ toClient'[c] = toClient[c] \o <<Num(n)>>)
         \/ srv' = [at |-> "hung", conn |-> c] /\ Dead(c)
  BY <1>0, <1>1, <1>4, <1>6, <1>7, Answers
<1>9. CASE srv' = [at |-> "hung", conn |-> c] /\ Dead(c)
  BY <1>1, <1>6, <1>8, <1>9, Hangs
<1>10. CASE srv' = next /\ (Dead(c) \/ toClient'[c] = toClient[c] \o <<Num(n)>>)
  <2>1. Said(c, <<>>)' /\ (Dead(c)' \/ Reads(c, "right", <<Num(n)>>)')
    BY <1>3, <1>6, <1>8, <1>10, One DEF Said, Dead, Reads
  <2>2. CASE Text = srv.cryptpasswd
    <3>1. srv'.at = "admit" /\ srv'.conn = c /\ srv'.user = form[c].user /\ n = 1
      BY <1>3, <1>5, <1>10, <2>2
    <3>2. Proved(c)'
      BY <1>3, <1>4, <1>6, <2>2 DEF Proved
    <3>3. AtCommand(c)' /\ AtPasswd(c)' /\ AtCrypt(c)' /\ AtAdmit(c)'
      BY <1>6, <2>1, <3>1, <3>2 DEF AtCommand, AtPasswd, AtCrypt, AtAdmit
    <3> QED
      BY <1>1, <1>6, <1>8, <3>1, <3>3, TalkGoesOn
  <2>3. CASE Text # srv.cryptpasswd
    <3>1. srv'.at = "command" /\ srv'.conn = c /\ n = 0
      BY <1>5, <1>10, <2>3
    <3>2. AtCommand(c)' /\ AtPasswd(c)' /\ AtCrypt(c)' /\ AtAdmit(c)'
      BY <2>1, <3>1 DEF AtCommand, AtPasswd, AtCrypt, AtAdmit, AtMenu
    <3> QED
      BY <1>1, <1>6, <1>8, <3>1, <3>2, TalkGoesOn
  <2> QED
    BY <2>2, <2>3
<1> QED
  BY <1>8, <1>9, <1>10
LEMMA RecvPasswdInv ==
    ASSUME IInv, RecvPasswd
    PROVE  IInv'
<1>0. PICK c : c = srv.conn
  OBVIOUS
<1>1. /\ c \in Clients /\ InDialogue(c) /\ Joint(c) /\ srv.at = "passwd" /\ toServer[c] # <<>>
  BY <1>0, Partner DEF RecvPasswd, Box1, At
<1>2. AtPasswd(c)
  BY <1>1 DEF Joint
<1>3. /\ srv.user = form[c].user /\ form[c].how = "signin" /\ srv.user \notin DOMAIN users
      /\ Dead(c) \/ Reads(c, "token", <<>>)
      /\ toServer[c] = <<Box(<<"passwd", form[c].passwd>>)>>
  BY <1>1, <1>2 DEF AtPasswd, Said
<1>4. Text = <<"passwd", form[c].passwd>> /\ Tail(toServer[c]) = <<>>
  BY <1>0, <1>3, One, ItemKinds DEF Text
<1>5. PICK n, p : n = srv.user /\ p = form[c].passwd
  OBVIOUS
<1>6. /\ addUser(n, p) /\ UNCHANGED <<pc, form, toClient, backlog, db, sessions>>
      /\ toServer' = [toServer EXCEPT ![c] = Tail(@)]
  BY <1>0, <1>4, <1>5 DEF RecvPasswd, TakeText, client
<1>7. Said(c, <<>>)' /\ (Dead(c)' \/ Reads(c, "token", <<>>)')
  BY <1>1, <1>3, <1>4, <1>6 DEF IInv, Typed, Said, Dead, Reads
<1>8. ASSUME NEW salt \in Salts, srv' = [at |-> "admit", conn |-> srv.conn, user |-> n],
             users' = [m \in DOMAIN users \cup {n} |->
                          IF m = n THEN [salt |-> <<"salt", salt>>, cryptpasswd |-> crypt(p, salt)]
                                   ELSE users[m]]
      PROVE  IInv'
  <2>1. /\ DOMAIN users' = DOMAIN users \cup {n}
        /\ users'[n] = [salt |-> <<"salt", salt>>, cryptpasswd |-> crypt(p, salt)]
        /\ \A m \in DOMAIN users : users'[m] = users[m]
    BY <1>3, <1>5, <1>8
  <2>2. users'[n].salt = <<"salt", salt>> /\ users'[n].cryptpasswd = crypt(p, salt)
    BY <2>1
  <2>3. users'[n].salt # Empty /\ users'[n].salt[2] = salt
    BY <2>2 DEF Empty
  <2>4. \A m \in DOMAIN users' : users'[m].salt # Empty
    BY <2>1, <2>3 DEF IInv, Typed
  <2>5. OnlyTalk(c)
    BY <1>0, <1>1, <1>6, <1>8, <2>1, <2>4 DEF IInv, Typed, OnlyTalk
  <2>6. Proved(c)'
    BY <1>3, <1>5, <1>6, <2>1, <2>2, <2>3 DEF Proved
  <2>7. srv'.at = "admit" /\ srv'.conn = c /\ srv'.user = form'[c].user
    BY <1>0, <1>3, <1>5, <1>6, <1>8
  <2>8. AtCommand(c)' /\ AtPasswd(c)' /\ AtCrypt(c)' /\ AtAdmit(c)'
    BY <1>7, <2>6, <2>7 DEF AtCommand, AtPasswd, AtCrypt, AtAdmit
  <2> QED
    BY <1>1, <1>6, <2>5, <2>7, <2>8, TalkGoesOn
<1>9. ASSUME ~db \/ n \in LongNames, srv' = [at |-> "command", conn |-> srv.conn], users' = users
      PROVE  IInv'
  <2>1. OnlyTalk(c)
    BY <1>0, <1>1, <1>6, <1>9 DEF IInv, Typed, OnlyTalk
  <2>2. Refused(c)'
    BY <1>3, <1>5, <1>6, <1>9 DEF Refused
  <2>3. srv'.at = "command" /\ srv'.conn = c
    BY <1>0, <1>9
  <2>4. AtCommand(c)' /\ AtPasswd(c)' /\ AtCrypt(c)' /\ AtAdmit(c)'
    BY <1>7, <2>2, <2>3 DEF AtCommand, AtPasswd, AtCrypt, AtAdmit, AtMenu
  <2> QED
    BY <1>1, <1>6, <2>1, <2>3, <2>4, TalkGoesOn
<1> QED
  BY <1>6, <1>8, <1>9 DEF addUser

LEMMA AdmitInv ==
    ASSUME IInv, Admit
    PROVE  IInv'
<1>0. PICK c, next : c = srv.conn /\ next = Waiting
  OBVIOUS
<1>1. c \in Clients /\ InDialogue(c) /\ Joint(c) /\ srv.at = "admit"
  BY <1>0, Partner DEF Admit, At
<1>2. AtAdmit(c)
  BY <1>1 DEF Joint
<1>3. /\ Said(c, <<>>) /\ srv.user = form[c].user
      /\ \/ srv.user = NoUser /\ (Dead(c) \/ Reads(c, "exists", <<>>))
         \/ Proved(c) /\ (Dead(c) \/ Reads(c, "right", <<Num(1)>>) \/ Reads(c, "token", <<>>))
  BY <1>1, <1>2 DEF AtAdmit
<1>4. /\ Reply(<<Token>>, next) /\ UNCHANGED <<pc, form, toServer, backlog, users, db>>
      /\ \A s \in sessions' : \/ s \in sessions
                              \/ srv' = Waiting /\ s = [conn |-> c, user |-> IF db THEN srv.user ELSE NoUser]
      /\ srv' # Waiting => sessions' = sessions
  BY <1>0 DEF Admit, addToClients, client, Token
<1>5. next.at = "wait"
  BY <1>0 DEF Waiting
<1>6. /\ OnlyTalk(c)
      /\ \/ srv' = next /\ (Dead(c) \/ toClient'[c] = toClient[c] \o <<Token>>)
         \/ srv' = [at |-> "hung", conn |-> c] /\ Dead(c)
  <2>1. \A s \in sessions' : s \in sessions \/ s.conn = c
    <3> SUFFICES ASSUME NEW s \in sessions', s \notin sessions
                 PROVE  s.conn = c
      OBVIOUS
    <3>1. s = [conn |-> c, user |-> IF db THEN srv.user ELSE NoUser]
      BY <1>4
    <3> QED
      BY <3>1
  <2>2. UNCHANGED toServer /\ UNCHANGED <<pc, form, backlog, users, db>>
    BY <1>4
  <2>3. Reply(<<Token>>, next)
    BY <1>4
  <2> QED
    BY <1>0, <1>1, <1>5, <2>1, <2>2, <2>3, Answers
<1>7. CASE srv' = [at |-> "hung", conn |-> c] /\ Dead(c)
  <2>1. srv' # Waiting
    BY <1>5, <1>7, <1>0
  <2> QED
    BY <1>1, <1>4, <1>6, <1>7, <2>1, Hangs
<1>8. CASE srv' = next /\ (Dead(c) \/ toClient'[c] = toClient[c] \o <<Token>>)
  <2>1. /\ Said(c, <<>>)' /\ (Dead(c) => Dead(c)') /\ (Proved(c) => Proved(c)')
        /\ form' = form /\ pc' = pc
    BY <1>3, <1>4 DEF Said, Dead, Proved
  <2>6. Afterwards(c)'
    <3>2. CASE Dead(c)
      BY <2>1, <3>2 DEF Afterwards
    <3>3. CASE srv.user = NoUser /\ Reads(c, "exists", <<>>)
      <4>1. Dead(c) \/ Reads(c, "exists", <<Token>>)'
        BY <1>4, <1>8, <3>3, One DEF Reads
      <4> QED
        BY <1>3, <2>1, <3>3, <4>1 DEF Afterwards
    <3>4. CASE Proved(c) /\ Reads(c, "right", <<Num(1)>>)
      <4>1. Dead(c) \/ Reads(c, "right", <<Num(1), Token>>)'
        BY <1>4, <1>8, <3>4, Join DEF Reads
      <4> QED
        BY <2>1, <3>4, <4>1 DEF Afterwards
    <3>5. CASE Proved(c) /\ Reads(c, "token", <<>>)
      <4>1. Dead(c) \/ Reads(c, "token", <<Token>>)'
        BY <1>4, <1>8, <3>5, One DEF Reads
      <4> QED
        BY <2>1, <3>5, <4>1 DEF Afterwards
    <3> QED
      BY <1>3, <3>2, <3>3, <3>4, <3>5
  <2>7. ~Listed(c)
    BY <1>1 DEF Joint
  <2>8. Entered(c)'
    <3> SUFFICES ASSUME NEW s \in sessions', s.conn = c
                 PROVE  IF s.user = NoUser THEN form'[c].user = NoUser \/ ~db'
                        ELSE s.user = form'[c].user /\ Proved(c)'
      BY DEF Entered
    <3>1. s = [conn |-> c, user |-> IF db THEN srv.user ELSE NoUser]
      BY <1>4, <2>7 DEF Listed
    <3>2. s.user = IF db THEN srv.user ELSE NoUser
      BY <3>1
    <3> QED
      BY <1>3, <1>4, <2>1, <3>2
  <2>9. pc[c] # "quit"
    BY <1>3 DEF Dead, Reads
  <2> QED
    BY <1>0, <1>1, <1>6, <1>8, <2>6, <2>8, <2>9, TalkIsOver
<1> QED
  BY <1>6, <1>7, <1>8

LEMMA ServeInv ==
    ASSUME IInv, NEW c \in Clients, Serve(c)
    PROVE  IInv'
<1>1. /\ UNCHANGED <<pc, form, backlog, srv, users, db, sessions>>
      /\ Listed(c) /\ toServer[c] # <<>> /\ srv.at = "wait" /\ Typed /\ Joint(c)
  BY DEF IInv, Serve, client, Listed, At
<1>2. /\ toServer'[c] = Tail(toServer[c]) /\ toClient'[c] = Append(toClient[c], Box(<<"path">>))
      /\ DOMAIN toServer' = Clients /\ DOMAIN toClient' = Clients
      /\ \A d \in Clients \ {c} : toServer'[d] = toServer[d] /\ toClient'[d] = toClient[d]
  BY <1>1 DEF Typed, Serve
<1>3. Typed'
  BY <1>1, <1>2 DEF Typed
<1>4. \A d \in Clients : ~InDialogue(d) /\ ~InDialogue(d)' /\ (InBacklog(d)' <=> InBacklog(d))
  BY <1>1 DEF InDialogue, InBacklog, At
<1>5. ASSUME NEW d \in Clients \ {c}
      PROVE  Joint(d)'
  <2>1. Untouched(d)
    BY <1>1, <1>2, <1>4 DEF Untouched
  <2> QED
    BY <2>1, Frame DEF IInv
<1>6. ~InBacklog(c) /\ pc[c] \notin {"off", "quit"} /\ Afterwards(c) /\ Entered(c)
  BY <1>1, <1>4 DEF Joint
<1>7. Entered(c)'
  BY <1>1, <1>6 DEF Entered, Proved
<1>8. Afterwards(c)'
  <2>1. CASE Dead(c) \/ (form[c].user = NoUser /\ pc[c] = "lost") \/ (Proved(c) /\ pc[c] = "shell")
    BY <1>1, <2>1 DEF Afterwards, Dead, Proved
  <2>2. CASE Proved(c) /\ Said(c, <<Box(<<"pwd">>)>>) /\ Reads(c, "pwd", <<>>)
    <3>1. toServer'[c] = <<>> /\ toClient'[c] = <<Box(<<"path">>)>>
      BY <1>2, <2>2, One DEF Said, Reads
    <3> QED
      BY <1>1, <2>2, <3>1 DEF Afterwards, Said, Reads, Proved
  <2> QED
    BY <1>1, <1>6, <2>1, <2>2 DEF Afterwards, Said
<1>9. Joint(c)'
  BY <1>1, <1>4, <1>6, <1>7, <1>8 DEF Joint
<1> QED
  BY <1>3, <1>5, <1>9 DEF IInv

LEMMA DbFailsInv ==
    ASSUME IInv, DbFails
    PROVE  IInv'
<1>1. UNCHANGED <<pc, form, toServer, toClient, backlog, srv, users, sessions>> /\ db' = FALSE
  BY DEF DbFails, client
<1>2. Typed'
  BY <1>1 DEF IInv, Typed
<1>3. ASSUME NEW d \in Clients
      PROVE  Joint(d)'
  <2>1. Untouched(d)
    BY <1>1 DEF Untouched, InBacklog, InDialogue, At
  <2> QED
    BY <2>1, Frame DEF IInv
<1> QED
  BY <1>2, <1>3 DEF IInv
(***************************************************************************)
(* All steps together.                                                     *)
(***************************************************************************)
LEMMA InitInv ==
    ASSUME Init
    PROVE  IInv
<1>1. /\ pc = [c \in Clients |-> "off"] /\ form = [c \in Clients |-> [how |-> "none"]]
      /\ toServer = [c \in Clients |-> <<>>] /\ toClient = [c \in Clients |-> <<>>]
      /\ backlog = <<>> /\ srv.at = "wait" /\ db = TRUE /\ sessions = {}
  BY DEF Init, Waiting
<1>2. \A n \in DOMAIN users : users[n].salt # Empty
  <2>1. PICK known \in Registered, salt \in Salts :
            users = [n \in DOMAIN known |->
                        [salt |-> <<"salt", salt>>, cryptpasswd |-> crypt(known[n], salt)]]
    BY DEF Init
  <2>2. ASSUME NEW n \in DOMAIN users
        PROVE  users[n].salt = <<"salt", salt>>
    BY <2>1
  <2>3. <<"salt", salt>> # Empty
    BY Two DEF Empty
  <2> QED
    BY <2>2, <2>3
<1>3. Typed
  BY <1>1, <1>2 DEF Typed, Once
<1>4. ASSUME NEW c \in Clients
      PROVE  Joint(c)
  <2>1. pc[c] = "off" /\ Said(c, <<>>) /\ toClient[c] = <<>>
    BY <1>1 DEF Said
  <2>2. ~InBacklog(c) /\ ~InDialogue(c) /\ ~Listed(c) /\ Entered(c)
    BY <1>1 DEF InBacklog, Holds, InDialogue, At, Listed, Entered
  <2> QED
    BY <2>1, <2>2 DEF Joint
<1> QED
  BY <1>3, <1>4 DEF IInv

LEMMA ClientInv ==
    ASSUME IInv, NEW c \in Clients, ClientStep(c) \/ User(c)
    PROVE  IInv'
<1>1. CASE LoginExists(c) \/ SigninExists(c)
  BY <1>1, LoginExistsInv, SigninExistsInv
<1>2. CASE RecvSalt(c) \/ RecvRight(c)
  BY <1>2, RecvSaltInv, RecvRightInv
<1>3. CASE RecvToken(c) \/ RecvPwd(c) \/ Misread(c)
  BY <1>3, RecvTokenInv, RecvPwdInv, MisreadInv
<1>4. CASE Connect(c) \/ Quit(c) \/ Die(c)
  BY <1>4, ConnectInv, QuitInv, DieInv
<1>5. ASSUME NEW n \in Names \cup {NoUser}, NEW p \in Passwords, TryLogin(c, n, p) \/ TrySignin(c, n, p)
      PROVE  IInv'
  BY <1>5, ChooseInv DEF TryLogin, TrySignin
<1> QED
  BY <1>1, <1>2, <1>3, <1>4, <1>5 DEF ClientStep, User

LEMMA ServerInv ==
    ASSUME IInv, ServerStep
    PROVE  IInv'
<1>1. CASE Accept \/ QuitCommand \/ NoNameCommand
  BY <1>1, AcceptInv, QuitCommandInv, NoNameCommandInv
<1>2. CASE LoginCommand \/ SigninCommand
  BY <1>2, KnownUserInv, UnknownUserInv DEF LoginCommand, SigninCommand
<1>3. CASE RecvCrypt \/ RecvPasswd \/ Admit
  BY <1>3, RecvCryptInv, RecvPasswdInv, AdmitInv
<1>4. CASE \E c \in Clients : Serve(c)
  BY <1>4, ServeInv
<1> QED
  BY <1>1, <1>2, <1>3, <1>4 DEF ServerStep

LEMMA NextInv ==
    ASSUME IInv, [Next]_vars
    PROVE  IInv'
<1>1. CASE \E c \in Clients : ClientStep(c) \/ User(c)
  BY <1>1, ClientInv
<1>2. CASE ServerStep
  BY <1>2, ServerInv
<1>3. CASE DbFails
  BY <1>3, DbFailsInv
<1>4. CASE UNCHANGED vars
  <2>1. UNCHANGED <<pc, form, toServer, toClient, backlog, srv, users, db, sessions>>
    BY <1>4 DEF vars
  <2>2. Typed'
    BY <2>1 DEF IInv, Typed, Once
  <2>3. ASSUME NEW d \in Clients
        PROVE  Joint(d)'
    <3>1. Untouched(d)
      BY <2>1 DEF Untouched, InBacklog, InDialogue, At
    <3> QED
      BY <3>1, Frame DEF IInv
  <2> QED
    BY <2>2, <2>3 DEF IInv
<1> QED
  BY <1>1, <1>2, <1>3, <1>4 DEF Next

\* Where the two ends can be together holds in every state of every execution.
THEOREM AlwaysJoint == Spec => []IInv
<1>1. Init => IInv
  BY InitInv
<1>2. IInv /\ [Next]_vars => IInv'
  BY NextInv
<1> QED
  BY <1>1, <1>2, PTL DEF Spec

(***************************************************************************)
(* What follows.                                                           *)
(***************************************************************************)
LEMMA JointIsInStep ==
    ASSUME IInv
    PROVE  InStep
<1>1. ASSUME NEW c \in Clients, pc[c] = "lost"
      PROVE  form[c].user = NoUser
  <2>1. Joint(c)
    BY DEF IInv
  <2>2. ~InBacklog(c)
    BY <1>1, <2>1 DEF Joint, AtMenu, Dead, Reads
  <2>3. ~InDialogue(c)
    BY <1>1, <2>1 DEF Joint, AtCommand, AtMenu, AtPasswd, AtCrypt, AtAdmit, Salted, Dead, Reads
  <2> QED
    BY <1>1, <2>1, <2>2, <2>3 DEF Joint, Afterwards, Dead, Reads
<1>2. ASSUME NEW c \in Clients,
             srv.at \in {"command", "crypt", "passwd"}, srv.conn = c, toServer[c] = <<>>,
             pc[c] \in DOMAIN Expects, toClient[c] = <<>>
      PROVE  pc[c] = "token" /\ Refused(c)
  <2>1. InDialogue(c) /\ AtCommand(c) /\ AtPasswd(c) /\ AtCrypt(c)
    BY <1>2 DEF IInv, Joint, InDialogue, At
  <2>2. pc[c] \notin {"menu", "dead", "quit"}
    BY <1>2 DEF Expects
  <2>3. CASE srv.at = "command"
    BY <1>2, <2>1, <2>2, <2>3, One DEF AtCommand, AtMenu, Dead, Reads, Said
  <2>4. CASE srv.at = "passwd"
    BY <1>2, <2>1, <2>2, <2>4, One DEF AtPasswd, Dead, Reads, Said
  <2>5. CASE srv.at = "crypt"
    BY <1>2, <2>1, <2>2, <2>5, One, Two DEF AtCrypt, Salted, Dead, Reads, Said
  <2> QED
    BY <1>2, <2>3, <2>4, <2>5
<1>3. NoneLost
  BY <1>1 DEF NoneLost
<1>4. NeverBothWaiting
  BY <1>2 DEF NeverBothWaiting
<1> QED
  BY <1>3, <1>4 DEF InStep

LEMMA JointIsAuthenticated ==
    ASSUME IInv
    PROVE  Authenticated
<1> SUFFICES ASSUME NEW s \in sessions, NEW c, c = s.conn
             PROVE  IF s.user = NoUser THEN form[c].user = NoUser \/ ~db
                    ELSE /\ s.user = form[c].user /\ s.user \in DOMAIN users
                         /\ users[s.user].cryptpasswd = crypt(form[c].passwd, users[s.user].salt[2])
                         /\ pc[c] \in {"right", "token", "pwd", "shell", "dead"}
  BY DEF Authenticated
<1>1. c \in Clients /\ Joint(c) /\ Listed(c)
  BY DEF IInv, Typed, Listed
<1>2. IF s.user = NoUser THEN form[c].user = NoUser \/ ~db
      ELSE s.user = form[c].user /\ Proved(c)
  BY <1>1 DEF Joint, Entered
<1>3. pc[c] \notin {"off", "quit"} /\ Afterwards(c)
  BY <1>1 DEF Joint
<1>4. form[c].user # NoUser => pc[c] \in {"right", "token", "pwd", "shell", "dead"}
  BY <1>3 DEF Afterwards, Dead, Reads
<1> QED
  BY <1>2, <1>4 DEF Proved

\* Whatever is tried, repeated, refused or cut off: a client reads an item as
\* what the server sent it as, and the two never wait for each other, but where
\* a name was missing or its user could not be made.
THEOREM StaysInStep == Spec => []InStep
  BY AlwaysJoint, JointIsInStep, PTL

\* An entry in the clients array stands for a user who has given the password of
\* the name it carries.
THEOREM OnlyAuthenticated == Spec => []Authenticated
  BY AlwaysJoint, JointIsAuthenticated, PTL
-----------------------------------------------------------------------------
(***************************************************************************)
(* The types, which rest on where the two ends are: that a client which    *)
(* answers a salt has been sent one, and that main() makes no user without *)
(* a name.                                                                 *)
(***************************************************************************)
Requests == [kind : {"box"}, val : Texts]
Responses == [kind : {"int"}, val : {0, 1}] \cup Requests
Saltings == {<<"salt", s>> : s \in Salts}
Waits == {"exists", "salt", "right", "token", "pwd"}

ClientTypes ==
    /\ pc \in [Clients -> {"off", "menu", "quit", "shell", "dead", "lost"} \cup Waits]
    /\ DOMAIN form = Clients
    /\ \A c \in Clients : form[c].how \in {"none", "again"} \/ form[c] \in Forms
    /\ wrong \in [Clients -> 0 .. MaxWrong]
    /\ \A c \in Clients : pc[c] \in Waits => wrong[c] < MaxWrong

ItemTypes ==
    /\ toServer \in [Clients -> Seq(Requests)]
    /\ toClient \in [Clients -> Seq(Responses)]

ServerTypes ==
    /\ srv.at \in {"wait", "command", "crypt", "passwd", "admit", "hung"}
    /\ srv.at \in {"crypt", "passwd"} => srv.user \in Names
    /\ srv.at = "admit" => srv.user \in Names \cup {NoUser}
    /\ sessions \subseteq [conn : Clients, user : Names \cup {NoUser}]

UserTypes == DOMAIN users \subseteq Names \ LongNames /\ \A n \in DOMAIN users : users[n].salt \in Saltings

Types == ClientTypes /\ ItemTypes /\ ServerTypes /\ UserTypes

LEMMA TextsHave ==
    /\ \A how \in {"login", "signin", "quit", "pwd", "token", "path"} : <<how>> \in Texts
    /\ \A how \in {"login", "signin"}, n \in Names : <<how, n>> \in Texts
    /\ \A p \in Passwords : <<"passwd", p>> \in Texts
    /\ \A p \in Passwords, salt \in Salts : crypt(p, salt) \in Texts
    /\ \A salt \in Saltings : salt \in Texts /\ salt[2] \in Salts
    /\ Empty \in Texts
<1>1. \A how \in {"login", "signin", "quit", "pwd", "token", "path"} : <<how>> \in Texts
  BY DEF Texts
<1>2. \A how \in {"login", "signin"}, n \in Names : <<how, n>> \in Texts
  BY DEF Texts
<1>3. \A p \in Passwords : <<"passwd", p>> \in Texts
  BY DEF Texts
<1>4. \A p \in Passwords, salt \in Salts : crypt(p, salt) \in Texts
  BY DEF Texts, Empty, crypt
<1>5. \A salt \in Saltings : salt \in Texts /\ salt[2] \in Salts
  BY DEF Texts, Saltings
<1>6. Empty \in Texts
  BY DEF Texts, Empty, crypt
<1> QED
  BY <1>1, <1>2, <1>3, <1>4, <1>5, <1>6

LEMMA ItemsFit ==
    /\ \A text \in Texts : Box(text) \in Requests /\ Box(text) \in Responses
    /\ Num(0) \in Responses /\ Num(1) \in Responses
  BY DEF Requests, Responses, Box, Num

LEMMA TailFits ==
    ASSUME NEW S, NEW q \in Seq(S), q # <<>>
    PROVE  Head(q) \in S /\ Tail(q) \in Seq(S)
  OBVIOUS

LEMMA AppendFits ==
    ASSUME NEW S, NEW q \in Seq(S), NEW x \in S
    PROVE  Append(q, x) \in Seq(S)
  OBVIOUS

\* One more item for the server, one less for the client.
LEMMA SendFits ==
    ASSUME ItemTypes, NEW c \in Clients, NEW text \in Texts, Send(c, text)
    PROVE  toServer' \in [Clients -> Seq(Requests)]
<1>1. PICK q : q = Append(toServer[c], Box(text))
  OBVIOUS
<1>2. q \in Seq(Requests)
  BY <1>1, ItemsFit, AppendFits DEF ItemTypes
<1>3. toServer' = [toServer EXCEPT ![c] = q]
  BY <1>1 DEF Send
<1> QED
  BY <1>2, <1>3 DEF ItemTypes

LEMMA TakeFits ==
    ASSUME ItemTypes, NEW c \in Clients, toClient[c] # <<>>, Take(c)
    PROVE  toClient' \in [Clients -> Seq(Responses)]
<1>1. PICK q : q = Tail(toClient[c])
  OBVIOUS
<1>2. q \in Seq(Responses)
  BY <1>1, TailFits DEF ItemTypes
<1>3. toClient' = [toClient EXCEPT ![c] = q]
  BY <1>1 DEF Take
<1> QED
  BY <1>2, <1>3 DEF ItemTypes

LEMMA TakeTextFits ==
    ASSUME ItemTypes, NEW c \in Clients, toServer[c] # <<>>,
           toServer' = [toServer EXCEPT ![c] = Tail(@)]
    PROVE  toServer' \in [Clients -> Seq(Requests)]
<1>1. PICK q : q = Tail(toServer[c])
  OBVIOUS
<1>2. q \in Seq(Requests)
  BY <1>1, TailFits DEF ItemTypes
<1>3. toServer' = [toServer EXCEPT ![c] = q]
  BY <1>1
<1> QED
  BY <1>2, <1>3 DEF ItemTypes

LEMMA ReplyFits ==
    ASSUME ItemTypes, srv.conn \in Clients, NEW items \in Seq(Responses), NEW next, Reply(items, next)
    PROVE  /\ toClient' \in [Clients -> Seq(Responses)]
           /\ srv' = next \/ (srv'.at = "hung" /\ srv'.conn = srv.conn)
<1>1. PICK c : c = srv.conn
  OBVIOUS
<1>2. PICK q : q = toClient[c] \o items
  OBVIOUS
<1>3. q \in Seq(Responses)
  <2>1. toClient[c] \in Seq(Responses)
    BY <1>1 DEF ItemTypes
  <2> QED
    BY <1>2, <2>1
<1>4. \/ toClient' = toClient
      \/ toClient' = [toClient EXCEPT ![c] = q]
  BY <1>1, <1>2 DEF Reply
<1>5. toClient' \in [Clients -> Seq(Responses)]
  BY <1>1, <1>3, <1>4 DEF ItemTypes
<1> QED
  BY <1>5 DEF Reply

(***************************************************************************)
(* The client's steps.                                                     *)
(***************************************************************************)
LEMMA ClientFits ==
    ASSUME Types, UNCHANGED <<srv, users, sessions>>, ClientTypes', ItemTypes'
    PROVE  Types'
  BY DEF Types, ServerTypes, UserTypes

\* The client goes from one place to the next.
LEMMA PlaceFits ==
    ASSUME ClientTypes, NEW c \in Clients,
           NEW place \in {"off", "menu", "quit", "shell", "dead", "lost"} \cup Waits,
           Goto(c, place), place \in Waits => pc[c] \in Waits, UNCHANGED <<form, wrong>>
    PROVE  ClientTypes'
<1>1. /\ pc' \in [Clients -> {"off", "menu", "quit", "shell", "dead", "lost"} \cup Waits]
      /\ \A d \in Clients : pc'[d] = IF d = c THEN place ELSE pc[d]
  BY DEF ClientTypes, Goto
<1> QED
  BY <1>1 DEF ClientTypes

LEMMA MenuFits ==
    ASSUME ClientTypes, NEW c \in Clients, BackToMenu(c), wrong' \in [Clients -> 0 .. MaxWrong],
           \A d \in Clients \ {c} : wrong'[d] = wrong[d]
    PROVE  ClientTypes'
<1>1. /\ pc' \in [Clients -> {"off", "menu", "quit", "shell", "dead", "lost"} \cup Waits]
      /\ \A d \in Clients : pc'[d] = IF d = c THEN "menu" ELSE pc[d]
      /\ DOMAIN form' = Clients /\ form'[c].how = "again" /\ \A d \in Clients \ {c} : form'[d] = form[d]
  BY DEF ClientTypes, BackToMenu, Goto
<1>2. "menu" \notin Waits
  BY DEF Waits
<1> QED
  BY <1>1, <1>2 DEF ClientTypes

LEMMA ConnectT ==
    ASSUME Types, NEW c \in Clients, Connect(c)
    PROVE  Types'
<1>1. ClientTypes'
  BY PlaceFits DEF Types, Connect, Waits
<1> QED
  BY <1>1, ClientFits DEF Connect, Types, ItemTypes

LEMMA DieT ==
    ASSUME Types, NEW c \in Clients, Die(c)
    PROVE  Types'
<1>1. ClientTypes'
  BY PlaceFits DEF Types, Die, Waits
<1> QED
  BY <1>1, ClientFits DEF Die, Types, ItemTypes, server

LEMMA MisreadT ==
    ASSUME Types, NEW c \in Clients, Misread(c)
    PROVE  Types'
<1>1. ClientTypes'
  BY PlaceFits DEF Types, Misread, Waits
<1> QED
  BY <1>1, ClientFits DEF Misread, Types, ItemTypes, server

LEMMA ChooseT ==
    ASSUME Types, NEW c \in Clients, NEW how \in {"login", "signin"}, NEW n \in Names \cup {NoUser},
           NEW p \in Passwords, Choose(c, how, n, p)
    PROVE  Types'
<1>1. PICK f, text : /\ f = [how |-> how, user |-> n, passwd |-> p]
                     /\ text = IF n = NoUser THEN <<how>> ELSE <<how, n>>
  OBVIOUS
<1>2. /\ wrong[c] # MaxWrong /\ form' = [form EXCEPT ![c] = f] /\ Send(c, text) /\ Goto(c, "exists")
      /\ UNCHANGED <<wrong, toClient, srv, users, sessions>>
  BY <1>1 DEF Choose, server
<1>3. text \in Texts
  BY <1>1, TextsHave
<1>4. ItemTypes'
  <2>1. toServer' \in [Clients -> Seq(Requests)]
    BY <1>2, <1>3, SendFits DEF Types
  <2> QED
    BY <1>2, <2>1 DEF Types, ItemTypes
<1>5. ClientTypes'
  <2>1. f \in Forms
    BY <1>1 DEF Forms
  <2>2. /\ pc' \in [Clients -> {"off", "menu", "quit", "shell", "dead", "lost"} \cup Waits]
        /\ \A d \in Clients \ {c} : pc'[d] = pc[d]
    BY <1>2 DEF Types, ClientTypes, Goto, Waits
  <2>3. DOMAIN form' = Clients /\ form'[c] = f /\ \A d \in Clients \ {c} : form'[d] = form[d]
    BY <1>2 DEF Types, ClientTypes
  <2>4. wrong[c] < MaxWrong
    BY <1>2, WrongAssumption DEF Types, ClientTypes
  <2> QED
    BY <1>2, <2>1, <2>2, <2>3, <2>4 DEF Types, ClientTypes
<1> QED
  BY <1>2, <1>4, <1>5, ClientFits

LEMMA QuitT ==
    ASSUME Types, NEW c \in Clients, Quit(c)
    PROVE  Types'
<1>1. PICK f : f = [how |-> "none"] /\ form' = [form EXCEPT ![c] = f]
  BY DEF Quit
<1>2. Send(c, <<"quit">>) /\ Goto(c, "quit") /\ UNCHANGED <<wrong, toClient, srv, users, sessions>>
  BY DEF Quit, server
<1>3. ItemTypes'
  <2>1. toServer' \in [Clients -> Seq(Requests)]
    BY <1>2, SendFits, TextsHave DEF Types
  <2> QED
    BY <1>2, <2>1 DEF Types, ItemTypes
<1>4. ClientTypes'
  <2>1. f.how = "none" /\ "quit" \notin Waits
    BY <1>1 DEF Waits
  <2>2. /\ pc' \in [Clients -> {"off", "menu", "quit", "shell", "dead", "lost"} \cup Waits]
        /\ \A d \in Clients : pc'[d] = IF d = c THEN "quit" ELSE pc[d]
    BY <1>2 DEF Types, ClientTypes, Goto
  <2>3. DOMAIN form' = Clients /\ form'[c] = f /\ \A d \in Clients \ {c} : form'[d] = form[d]
    BY <1>1 DEF Types, ClientTypes
  <2> QED
    BY <1>2, <2>1, <2>2, <2>3 DEF Types, ClientTypes
<1> QED
  BY <1>2, <1>3, <1>4, ClientFits

LEMMA LoginExistsT ==
    ASSUME Types, NEW c \in Clients, LoginExists(c)
    PROVE  Types'
<1>1. /\ pc[c] = "exists" /\ toClient[c] # <<>> /\ Take(c)
      /\ UNCHANGED <<toServer, wrong, srv, users, sessions>>
      /\ (Goto(c, "salt") /\ UNCHANGED form) \/ BackToMenu(c)
  BY DEF LoginExists, Arrived, server
<1>2. ItemTypes'
  BY <1>1, TakeFits DEF Types, ItemTypes
<1>3. ClientTypes'
  <2>1. CASE Goto(c, "salt") /\ UNCHANGED form
    BY <1>1, <2>1, PlaceFits DEF Types, Waits
  <2>2. CASE BackToMenu(c)
    BY <1>1, <2>2, MenuFits DEF Types, ClientTypes
  <2> QED
    BY <1>1, <2>1, <2>2
<1> QED
  BY <1>1, <1>2, <1>3, ClientFits

LEMMA SigninExistsT ==
    ASSUME Types, NEW c \in Clients, SigninExists(c)
    PROVE  Types'
<1>1. /\ pc[c] = "exists" /\ form[c].how = "signin" /\ toClient[c] # <<>> /\ Take(c)
      /\ UNCHANGED <<form, wrong, srv, users, sessions>>
      /\ \/ Goto(c, "salt") /\ UNCHANGED toServer
         \/ Send(c, <<"passwd", form[c].passwd>>) /\ Goto(c, "token")
  BY DEF SigninExists, Arrived, server
<1>2. <<"passwd", form[c].passwd>> \in Texts
  <2>1. form[c] \in Forms
    BY <1>1 DEF Types, ClientTypes
  <2>2. form[c].passwd \in Passwords
    BY <2>1 DEF Forms
  <2> QED
    BY <2>2, TextsHave
<1>3. ItemTypes'
  <2>1. toServer' \in [Clients -> Seq(Requests)]
    BY <1>1, <1>2, SendFits DEF Types, ItemTypes
  <2> QED
    BY <1>1, <2>1, TakeFits DEF Types, ItemTypes
<1>4. ClientTypes'
  BY <1>1, PlaceFits DEF Types, Waits
<1> QED
  BY <1>1, <1>3, <1>4, ClientFits

\* What a client that waits for a salt gets is a salt, or nothing.
LEMMA SaltComes ==
    ASSUME IInv, Types, NEW c \in Clients, pc[c] = "salt"
    PROVE  /\ form[c] \in Forms
           /\ Item(c) = Empty \/ Item(c) \in Saltings
<1>2. Joint(c)
  BY DEF IInv
<1>3. InDialogue(c)
  BY <1>2 DEF Joint, AtMenu, Afterwards, Dead, Reads
<1>4. srv.at = "crypt" /\ AtCrypt(c)
  BY <1>2, <1>3 DEF Joint, AtCommand, AtMenu, AtPasswd, AtAdmit, Dead, Reads
<1>5. form[c] \in Forms
  BY <1>4 DEF AtCrypt, Types, ClientTypes
<1>6. CASE Salted(c, Empty)
  <2>1. toClient[c] = <<Box(Empty)>>
    BY <1>6 DEF Salted, Dead, Reads
  <2> QED
    BY <1>5, <2>1, One, ItemKinds DEF Item
<1>7. CASE ~Salted(c, Empty)
  <2>1. srv.user \in DOMAIN users /\ Salted(c, users[srv.user].salt)
    BY <1>4, <1>7 DEF AtCrypt, Dead, Reads
  <2>2. toClient[c] = <<Box(users[srv.user].salt)>>
    BY <2>1 DEF Salted, Dead, Reads
  <2>3. Item(c) = users[srv.user].salt
    BY <2>2, One, ItemKinds DEF Item
  <2> QED
    BY <1>5, <2>1, <2>3 DEF Types, UserTypes
<1> QED
  BY <1>6, <1>7

LEMMA RecvSaltT ==
    ASSUME IInv, Types, NEW c \in Clients, RecvSalt(c)
    PROVE  Types'
<1>1. /\ pc[c] = "salt" /\ toClient[c] # <<>> /\ Take(c)
      /\ UNCHANGED <<form, wrong, srv, users, sessions>>
      /\ \/ Goto(c, "dead") /\ UNCHANGED toServer
         \/ Item(c) # Empty /\ Send(c, crypt(form[c].passwd, Item(c)[2])) /\ Goto(c, "right")
  BY DEF RecvSalt, Arrived, server
<1>2. ClientTypes'
  BY <1>1, PlaceFits DEF Types, Waits
<1>3. CASE UNCHANGED toServer
  BY <1>1, <1>2, <1>3, TakeFits, ClientFits DEF Types, ItemTypes
<1>4. CASE Item(c) # Empty /\ Send(c, crypt(form[c].passwd, Item(c)[2]))
  <2>1. form[c].passwd \in Passwords /\ Item(c) \in Saltings
    BY <1>1, <1>4, SaltComes DEF Forms
  <2>2. crypt(form[c].passwd, Item(c)[2]) \in Texts
    BY <2>1, TextsHave
  <2>3. ItemTypes'
    BY <1>1, <1>4, <2>2, TakeFits, SendFits DEF Types, ItemTypes
  <2> QED
    BY <1>1, <1>2, <2>3, ClientFits
<1> QED
  BY <1>1, <1>3, <1>4

LEMMA RecvRightT ==
    ASSUME Types, NEW c \in Clients, RecvRight(c)
    PROVE  Types'
<1>1. /\ pc[c] = "right" /\ toClient[c] # <<>> /\ Take(c) /\ UNCHANGED <<toServer, srv, users, sessions>>
      /\ \/ Goto(c, "token") /\ UNCHANGED <<form, wrong>>
         \/ BackToMenu(c) /\ wrong' = [wrong EXCEPT ![c] = @ + 1]
  BY DEF RecvRight, Arrived, server
<1>2. ItemTypes'
  BY <1>1, TakeFits DEF Types, ItemTypes
<1>3. ClientTypes'
  <2>1. CASE Goto(c, "token") /\ UNCHANGED <<form, wrong>>
    BY <1>1, <2>1, PlaceFits DEF Types, Waits
  <2>2. CASE BackToMenu(c) /\ wrong' = [wrong EXCEPT ![c] = @ + 1]
    <3>1. wrong[c] < MaxWrong /\ wrong[c] \in 0 .. MaxWrong
      BY <1>1 DEF Types, ClientTypes, Waits
    <3>2. wrong[c] + 1 \in 0 .. MaxWrong
      BY <3>1, WrongAssumption
    <3>3. wrong' \in [Clients -> 0 .. MaxWrong] /\ \A d \in Clients \ {c} : wrong'[d] = wrong[d]
      BY <2>2, <3>2 DEF Types, ClientTypes
    <3> QED
      BY <2>2, <3>3, MenuFits DEF Types
  <2> QED
    BY <1>1, <2>1, <2>2
<1> QED
  BY <1>1, <1>2, <1>3, ClientFits

LEMMA RecvTokenT ==
    ASSUME Types, NEW c \in Clients, RecvToken(c)
    PROVE  Types'
<1>1. /\ pc[c] = "token" /\ toClient[c] # <<>> /\ Take(c) /\ Send(c, <<"pwd">>) /\ Goto(c, "pwd")
      /\ UNCHANGED <<form, wrong, srv, users, sessions>>
  BY DEF RecvToken, Arrived, server
<1>2. ClientTypes'
  BY <1>1, PlaceFits DEF Types, Waits
<1>3. ItemTypes'
  BY <1>1, TakeFits, SendFits, TextsHave DEF Types, ItemTypes
<1> QED
  BY <1>1, <1>2, <1>3, ClientFits

LEMMA RecvPwdT ==
    ASSUME Types, NEW c \in Clients, RecvPwd(c)
    PROVE  Types'
<1>1. /\ pc[c] = "pwd" /\ toClient[c] # <<>> /\ Take(c) /\ Goto(c, "shell")
      /\ UNCHANGED <<form, wrong, toServer, srv, users, sessions>>
  BY DEF RecvPwd, Arrived, server
<1>2. ClientTypes'
  BY <1>1, PlaceFits DEF Types, Waits
<1>3. ItemTypes'
  BY <1>1, TakeFits DEF Types, ItemTypes
<1> QED
  BY <1>1, <1>2, <1>3, ClientFits

(***************************************************************************)
(* The server's steps.                                                     *)
(***************************************************************************)
LEMMA ServerFits ==
    ASSUME Types, UNCHANGED client, ItemTypes', ServerTypes', UserTypes'
    PROVE  Types'
<1>1. UNCHANGED <<pc, form, wrong>>
  BY DEF client
<1>2. ClientTypes'
  BY <1>1 DEF Types, ClientTypes
<1> QED
  BY <1>2 DEF Types

LEMMA ListsFit ==
    ASSUME NEW S, NEW x \in S, NEW y \in S
    PROVE  <<x>> \in Seq(S) /\ <<x, y>> \in Seq(S)
  OBVIOUS

\* A command with a second word names somebody.
LEMMA NameIsGiven ==
    ASSUME IInv, NEW how \in {"login", "signin"}, NamedCommand(how)
    PROVE  srv.conn \in Clients /\ toServer[srv.conn] # <<>> /\ Text[2] \in Names
<1>1. Box1("command") /\ Len(Text) = 2
  BY DEF NamedCommand
<1>2. srv.conn \in Clients /\ toServer[srv.conn] # <<>>
  BY <1>1, Partner DEF Box1, At
<1>3. PICK f : f = form[srv.conn]
  OBVIOUS
<1>4. f \in Forms /\ Text = Words(f)
  <2>1. Text # <<"quit">>
    BY <1>1
  <2> QED
    BY <1>1, <1>3, <2>1, CommandText
<1>5. f.user \in Names \cup {NoUser}
  BY <1>4 DEF Forms
<1>6. f.user # NoUser
  BY <1>1, <1>4 DEF Words
<1>7. Text[2] = f.user
  BY <1>4, <1>6 DEF Words
<1> QED
  BY <1>2, <1>5, <1>6, <1>7

LEMMA AcceptT ==
    ASSUME Types, Accept
    PROVE  Types'
<1>1. srv'.at = "command" /\ UNCHANGED <<client, toServer, toClient, users, sessions>>
  BY DEF Accept
<1>2. ItemTypes' /\ ServerTypes' /\ UserTypes'
  BY <1>1 DEF Types, ItemTypes, ServerTypes, UserTypes
<1> QED
  BY <1>1, <1>2, ServerFits

LEMMA QuitCommandT ==
    ASSUME IInv, Types, QuitCommand
    PROVE  Types'
<1>1. /\ srv'.at = "wait" /\ UNCHANGED <<client, toClient, users, sessions>>
      /\ toServer' = [toServer EXCEPT ![srv.conn] = Tail(@)]
      /\ srv.conn \in Clients /\ toServer[srv.conn] # <<>>
  BY Partner DEF QuitCommand, TakeText, Waiting, Box1, At
<1>2. ItemTypes' /\ ServerTypes' /\ UserTypes'
  BY <1>1, TakeTextFits DEF Types, ItemTypes, ServerTypes, UserTypes
<1> QED
  BY <1>1, <1>2, ServerFits

LEMMA NoNameCommandT ==
    ASSUME IInv, Types, NoNameCommand
    PROVE  Types'
<1>1. /\ srv'.at = "admit" /\ srv'.user = NoUser /\ UNCHANGED <<client, toClient, users, sessions>>
      /\ toServer' = [toServer EXCEPT ![srv.conn] = Tail(@)]
      /\ srv.conn \in Clients /\ toServer[srv.conn] # <<>>
  BY Partner DEF NoNameCommand, TakeText, Box1, At
<1>2. ItemTypes' /\ ServerTypes' /\ UserTypes'
  BY <1>1, TakeTextFits DEF Types, ItemTypes, ServerTypes, UserTypes
<1> QED
  BY <1>1, <1>2, ServerFits

\* A reply in the dialogue.
LEMMA AnswerFits ==
    ASSUME Types, srv.conn \in Clients, toServer[srv.conn] # <<>>, TakeText,
           NEW items \in Seq(Responses), NEW next, Reply(items, next),
           UNCHANGED <<client, users, sessions>>,
           next.at \in {"command", "crypt", "passwd", "admit"},
           next.at # "command" => next.user \in Names
    PROVE  Types'
<1>1. /\ toClient' \in [Clients -> Seq(Responses)]
      /\ srv' = next \/ srv'.at = "hung"
  BY ReplyFits DEF Types
<1>2. toServer' \in [Clients -> Seq(Requests)]
  BY TakeTextFits DEF Types, TakeText
<1>3. ItemTypes' /\ UserTypes'
  BY <1>1, <1>2 DEF Types, ItemTypes, UserTypes
<1>4. ServerTypes'
  BY <1>1 DEF Types, ServerTypes
<1> QED
  BY <1>3, <1>4, ServerFits

LEMMA KnownUserT ==
    ASSUME IInv, Types, NEW how \in {"login", "signin"}, KnownUser(how)
    PROVE  Types'
<1>1. PICK u : u = IF db THEN users[Text[2]] ELSE [salt |-> Empty, cryptpasswd |-> Empty]
  OBVIOUS
<1>2. PICK next : next = [at |-> "crypt", conn |-> srv.conn, user |-> Text[2],
                         cryptpasswd |-> u.cryptpasswd]
  OBVIOUS
<1>3. PICK items : items = <<Num(1), Box(u.salt)>>
  OBVIOUS
<1>4. /\ NamedCommand(how) /\ isUser(Text[2]) /\ TakeText /\ Reply(items, next)
      /\ UNCHANGED <<client, users, sessions>>
  BY <1>1, <1>2, <1>3 DEF KnownUser
<1>5. srv.conn \in Clients /\ toServer[srv.conn] # <<>> /\ Text[2] \in Names
  BY <1>4, NameIsGiven
<1>6. u.salt \in Texts
  <2>1. CASE db
    <3>1. Text[2] \in DOMAIN users /\ u = users[Text[2]]
      BY <1>1, <1>4, <2>1 DEF isUser
    <3> QED
      BY <3>1, TextsHave DEF Types, UserTypes
  <2>2. CASE ~db
    BY <1>1, <2>2, TextsHave
  <2> QED
    BY <2>1, <2>2
<1>7. items \in Seq(Responses)
  BY <1>3, <1>6, ItemsFit, ListsFit
<1>8. next.at = "crypt" /\ next.user \in Names
  BY <1>2, <1>5
<1> QED
  BY <1>4, <1>5, <1>7, <1>8, AnswerFits

LEMMA UnknownUserT ==
    ASSUME IInv, Types, NEW how \in {"login", "signin"}, UnknownUser(how)
    PROVE  Types'
<1>1. PICK next : next = IF how = "login" THEN [at |-> "command", conn |-> srv.conn]
                         ELSE [at |-> "passwd", conn |-> srv.conn, user |-> Text[2]]
  OBVIOUS
<1>2. PICK items : items = <<Num(0)>>
  OBVIOUS
<1>3. /\ NamedCommand(how) /\ TakeText /\ Reply(items, next)
      /\ UNCHANGED <<client, users, sessions>>
  BY <1>1, <1>2 DEF UnknownUser
<1>4. srv.conn \in Clients /\ toServer[srv.conn] # <<>> /\ Text[2] \in Names
  BY <1>3, NameIsGiven
<1>5. items \in Seq(Responses)
  BY <1>2, ItemsFit, ListsFit
<1>6. next.at \in {"command", "passwd"} /\ (next.at = "passwd" => next.user \in Names)
  BY <1>1, <1>4
<1> QED
  BY <1>3, <1>4, <1>5, <1>6, AnswerFits

LEMMA RecvCryptT ==
    ASSUME IInv, Types, RecvCrypt
    PROVE  Types'
<1>1. /\ srv.at = "crypt" /\ srv.conn \in Clients /\ toServer[srv.conn] # <<>> /\ TakeText
      /\ UNCHANGED <<client, users, sessions>>
  BY Partner DEF RecvCrypt, Box1, At
<1>2. srv.user \in Names
  BY <1>1 DEF Types, ServerTypes
<1>3. PICK yes, no, right, again : /\ yes = <<Num(1)>> /\ no = <<Num(0)>>
                                   /\ right = [at |-> "admit", conn |-> srv.conn, user |-> srv.user]
                                   /\ again = [at |-> "command", conn |-> srv.conn]
  OBVIOUS
<1>4. Reply(yes, right) \/ Reply(no, again)
  BY <1>3 DEF RecvCrypt
<1>5. yes \in Seq(Responses) /\ no \in Seq(Responses)
  BY <1>3, ItemsFit, ListsFit
<1>6. right.at = "admit" /\ right.user \in Names /\ again.at = "command"
  BY <1>2, <1>3
<1> QED
  BY <1>1, <1>4, <1>5, <1>6, AnswerFits

LEMMA RecvPasswdT ==
    ASSUME IInv, Types, RecvPasswd
    PROVE  Types'
<1>1. /\ srv.at = "passwd" /\ srv.conn \in Clients /\ toServer[srv.conn] # <<>>
      /\ toServer' = [toServer EXCEPT ![srv.conn] = Tail(@)]
      /\ UNCHANGED <<client, toClient, sessions>>
  BY Partner DEF RecvPasswd, TakeText, Box1, At
<1>2. PICK n, p : n = srv.user /\ p = Text[2] /\ addUser(n, p)
  BY DEF RecvPasswd
<1>3. n \in Names
  BY <1>1, <1>2 DEF Types, ServerTypes
<1>4. ItemTypes'
  BY <1>1, TakeTextFits DEF Types, ItemTypes
<1>5. ASSUME n \notin LongNames, NEW salt \in Salts,
             users' = [m \in DOMAIN users \cup {n} |->
                          IF m = n THEN [salt |-> <<"salt", salt>>, cryptpasswd |-> crypt(p, salt)]
                                   ELSE users[m]],
             srv' = [at |-> "admit", conn |-> srv.conn, user |-> n]
      PROVE  Types'
  <2>1. PICK s : s = <<"salt", salt>>
    OBVIOUS
  <2>2. s \in Saltings
    BY <2>1 DEF Saltings
  <2>3. /\ DOMAIN users' = DOMAIN users \cup {n} /\ users'[n].salt = s
        /\ \A m \in DOMAIN users \ {n} : users'[m] = users[m]
    BY <1>5, <2>1
  <2>4. UserTypes'
    BY <1>3, <1>5, <2>2, <2>3 DEF Types, UserTypes
  <2>5. srv'.at = "admit" /\ srv'.user = n
    BY <1>5
  <2>6. ServerTypes'
    BY <1>1, <1>3, <2>5 DEF Types, ServerTypes
  <2> QED
    BY <1>1, <1>4, <2>4, <2>6, ServerFits
<1>6. CASE srv' = [at |-> "command", conn |-> srv.conn] /\ UNCHANGED users
  <2>1. srv'.at = "command"
    BY <1>6
  <2>2. UserTypes' /\ ServerTypes'
    BY <1>1, <1>6, <2>1 DEF Types, ServerTypes, UserTypes
  <2> QED
    BY <1>1, <1>4, <2>2, ServerFits
<1> QED
  BY <1>2, <1>5, <1>6 DEF addUser, getRandStr

LEMMA AdmitT ==
    ASSUME IInv, Types, Admit
    PROVE  Types'
<1>1. srv.at = "admit" /\ srv.conn \in Clients /\ UNCHANGED <<client, toServer, users>>
  BY Partner DEF Admit, At
<1>2. PICK items, next, n : /\ items = <<Box(<<"token">>)>> /\ next = Waiting
                            /\ n = IF db THEN srv.user ELSE NoUser
  OBVIOUS
<1>3. /\ Reply(items, next)
      /\ addToClients(srv.conn, n) \/ UNCHANGED sessions
  BY <1>2 DEF Admit
<1>4. items \in Seq(Responses)
  BY <1>2, TextsHave, ItemsFit, ListsFit
<1>5. toClient' \in [Clients -> Seq(Responses)] /\ srv'.at \in {"wait", "hung"}
  <2>1. next.at = "wait"
    BY <1>2 DEF Waiting
  <2>2. toClient' \in [Clients -> Seq(Responses)] /\ (srv' = next \/ srv'.at = "hung")
    BY <1>1, <1>3, <1>4, ReplyFits DEF Types
  <2> QED
    BY <2>1, <2>2
<1>6. n \in Names \cup {NoUser}
  BY <1>1, <1>2 DEF Types, ServerTypes
<1>7. sessions' \subseteq [conn : Clients, user : Names \cup {NoUser}]
  <2>1. PICK e : e = [conn |-> srv.conn, user |-> n]
    OBVIOUS
  <2>2. e \in [conn : Clients, user : Names \cup {NoUser}]
    BY <1>1, <1>6, <2>1
  <2>3. sessions' \subseteq sessions \cup {e}
    BY <1>3, <2>1 DEF addToClients
  <2> QED
    BY <2>2, <2>3 DEF Types, ServerTypes
<1>8. ItemTypes' /\ ServerTypes' /\ UserTypes'
  BY <1>1, <1>5, <1>7 DEF Types, ItemTypes, ServerTypes, UserTypes
<1> QED
  BY <1>1, <1>8, ServerFits

LEMMA ServeT ==
    ASSUME Types, NEW c \in Clients, Serve(c)
    PROVE  Types'
<1>1. PICK x : x = Box(<<"path">>)
  OBVIOUS
<1>2. /\ toServer[c] # <<>> /\ toServer' = [toServer EXCEPT ![c] = Tail(@)]
      /\ toClient' = [toClient EXCEPT ![c] = Append(@, x)]
      /\ UNCHANGED <<client, srv, users, sessions>>
  BY <1>1 DEF Serve
<1>3. PICK q : q = Append(toClient[c], x)
  OBVIOUS
<1>4. q \in Seq(Responses)
  <2>1. x \in Responses
    BY <1>1, TextsHave, ItemsFit
  <2> QED
    BY <1>3, <2>1, AppendFits DEF Types, ItemTypes
<1>5. toClient' = [toClient EXCEPT ![c] = q]
  BY <1>2, <1>3
<1>6. ItemTypes'
  BY <1>2, <1>4, <1>5, TakeTextFits DEF Types, ItemTypes
<1>7. ServerTypes' /\ UserTypes'
  BY <1>2 DEF Types, ServerTypes, UserTypes
<1> QED
  BY <1>2, <1>6, <1>7, ServerFits

LEMMA IdleT ==
    ASSUME Types, UNCHANGED <<client, toServer, toClient, srv, users, sessions>>
    PROVE  Types'
<1>1. ItemTypes' /\ ServerTypes' /\ UserTypes'
  BY DEF Types, ItemTypes, ServerTypes, UserTypes
<1> QED
  BY <1>1, ServerFits

LEMMA InitT == Init => Types
<1> SUFFICES ASSUME Init
             PROVE  Types
  OBVIOUS
<1>1. /\ pc = [c \in Clients |-> "off"] /\ form = [c \in Clients |-> [how |-> "none"]]
      /\ wrong = [c \in Clients |-> 0]
      /\ toServer = [c \in Clients |-> <<>>] /\ toClient = [c \in Clients |-> <<>>]
      /\ srv.at = "wait" /\ sessions = {}
  BY DEF Init, Waiting
<1>2. ClientTypes
  <2>1. 0 \in 0 .. MaxWrong /\ "off" \notin Waits
    BY WrongAssumption DEF Waits
  <2> QED
    BY <1>1, <2>1 DEF ClientTypes
<1>3. ItemTypes /\ ServerTypes
  BY <1>1 DEF ItemTypes, ServerTypes
<1>4. UserTypes
  <2>1. PICK known \in Registered, salt \in Salts :
            users = [n \in DOMAIN known |->
                        [salt |-> <<"salt", salt>>, cryptpasswd |-> crypt(known[n], salt)]]
    BY DEF Init
  <2>2. DOMAIN users = DOMAIN known /\ \A n \in DOMAIN users : users[n].salt = <<"salt", salt>>
    BY <2>1
  <2> QED
    BY <2>2, RegisteredAssumption DEF UserTypes, Saltings
<1> QED
  BY <1>2, <1>3, <1>4 DEF Types

LEMMA ClientT ==
    ASSUME IInv, Types, NEW c \in Clients, ClientStep(c) \/ User(c)
    PROVE  Types'
<1>1. CASE LoginExists(c) \/ SigninExists(c) \/ RecvSalt(c) \/ RecvRight(c)
  BY <1>1, LoginExistsT, SigninExistsT, RecvSaltT, RecvRightT
<1>2. CASE RecvToken(c) \/ RecvPwd(c) \/ Misread(c)
  BY <1>2, RecvTokenT, RecvPwdT, MisreadT
<1>3. CASE Connect(c) \/ Quit(c) \/ Die(c)
  BY <1>3, ConnectT, QuitT, DieT
<1>4. ASSUME NEW n \in Names \cup {NoUser}, NEW p \in Passwords, TryLogin(c, n, p) \/ TrySignin(c, n, p)
      PROVE  Types'
  BY <1>4, ChooseT DEF TryLogin, TrySignin
<1> QED
  BY <1>1, <1>2, <1>3, <1>4 DEF ClientStep, User

LEMMA NextT ==
    ASSUME IInv, Types, [Next]_vars
    PROVE  Types'
<1>1. CASE \E c \in Clients : ClientStep(c) \/ User(c)
  BY <1>1, ClientT
<1>2. CASE ServerStep
  <2>1. CASE Accept \/ QuitCommand \/ NoNameCommand
    BY <2>1, AcceptT, QuitCommandT, NoNameCommandT
  <2>2. CASE LoginCommand \/ SigninCommand
    BY <2>2, KnownUserT, UnknownUserT DEF LoginCommand, SigninCommand
  <2>3. CASE RecvCrypt \/ RecvPasswd \/ Admit
    BY <2>3, RecvCryptT, RecvPasswdT, AdmitT
  <2>4. CASE \E c \in Clients : Serve(c)
    BY <2>4, ServeT
  <2> QED
    BY <1>2, <2>1, <2>2, <2>3, <2>4 DEF ServerStep
<1>3. CASE DbFails
  BY <1>3, IdleT DEF DbFails
<1>4. CASE UNCHANGED vars
  BY <1>4, IdleT DEF vars, client
<1> QED
  BY <1>1, <1>2, <1>3, <1>4 DEF Next

LEMMA TypesFit ==
    ASSUME IInv, Types
    PROVE  TypeOK
<1>1. DOMAIN Expects = Waits
  BY DEF Expects, Waits
<1>2. \A c \in Clients : form[c].how \in {"none", "again"} \/ form[c] \in Forms
  BY DEF Types, ClientTypes
<1>3. ASSUME NEW c \in Clients, NEW i \in DOMAIN toServer[c]
      PROVE  toServer[c][i].kind = "box" /\ toServer[c][i].val \in Texts
  <2>1. toServer[c][i] \in Requests
    BY DEF Types, ItemTypes
  <2> QED
    BY <2>1 DEF Requests
<1>4. ASSUME NEW c \in Clients, NEW i \in DOMAIN toClient[c]
      PROVE  IF toClient[c][i].kind = "int" THEN toClient[c][i].val \in {0, 1}
                                            ELSE toClient[c][i].val \in Texts
  <2>1. toClient[c][i] \in Responses
    BY DEF Types, ItemTypes
  <2> QED
    BY <2>1 DEF Responses, Requests
<1>5. \A i \in DOMAIN backlog : backlog[i] \in Clients
  BY DEF IInv, Typed
<1>6. pc \in [Clients -> {"off", "menu", "quit", "shell", "dead", "lost"} \cup DOMAIN Expects]
  BY <1>1 DEF Types, ClientTypes
<1>7. /\ wrong \in [Clients -> 0 .. MaxWrong] /\ db \in BOOLEAN
      /\ srv.at \in {"wait", "command", "crypt", "passwd", "admit", "hung"}
      /\ srv.at # "wait" => srv.conn \in Clients
      /\ DOMAIN users \subseteq Names \ LongNames
      /\ sessions \subseteq [conn : Clients, user : Names \cup {NoUser}]
  BY DEF IInv, Typed, Types, ClientTypes, ServerTypes, UserTypes
<1> QED
  BY <1>2, <1>3, <1>4, <1>5, <1>6, <1>7 DEF TypeOK, Forms

\* Every variable holds a value of its type, whatever clients try, repeat or
\* break off: no user is made without a name or with one that u_pwd cannot hold,
\* a client answers salts only, and after MaxWrong wrong passwords nobody can try
\* once more.
THEOREM TypeCorrect == Spec => []TypeOK
<1>1. Init => Types
  BY InitT
<1>2. IInv /\ Types /\ [Next]_vars => Types'
  BY NextT
<1>3. IInv /\ Types => TypeOK
  BY TypesFit
<1> QED
  BY <1>1, <1>2, <1>3, AlwaysJoint, PTL DEF Spec
=============================================================================
