-------------------------------- MODULE Login --------------------------------
(***************************************************************************)
(* The login dialogue: userIntro() of a client and clientIntro() of the    *)
(* server, which answer each other over the main port, and what main()     *)
(* does with a connection before it and after it, up to the first answer   *)
(* to a command.                                                           *)
(*                                                                         *)
(* The two programs share no framing: each end knows from its own place in *)
(* the dialogue what the next bytes mean. An item is a string with its     *)
(* length ("box") or a bare int; the first word of a text says for the     *)
(* reader what it is and is looked at in a command only. main() talks to   *)
(* one connection at a time, with calls that block, and to nobody else     *)
(* meanwhile.                                                              *)
(***************************************************************************)
EXTENDS Naturals, Sequences, FiniteSets

CONSTANTS Clients,      \* client processes, each with its connection
          Names, LongNames, \* user names; those '/name/' of which u_pwd cannot hold
          Passwords,    \* a password is a pair: its first eight characters, the rest
          Registered,   \* users, with their passwords, there may be at the start
          Salts,        \* what getRandStr() returns
          MaxWrong,     \* wrong passwords that end the dialogue: 3
          CLIENTMAX,    \* entries of the clients array
          NoUser        \* no name was typed; user id 0

ASSUME NameAssumption == LongNames \subseteq Names /\ NoUser \notin Names
\* Who is there at the start has come through addUser().
ASSUME RegisteredAssumption == \A known \in Registered : DOMAIN known \subseteq Names \ LongNames
ASSUME WrongAssumption == MaxWrong \in Nat

VARIABLES pc,       \* pc[c]: where client c is in userIntro() and vShell()
          form,     \* form[c]: what its user is trying, with which name and password
          wrong,    \* wrong[c]: wrongTimes
          toServer, toClient, \* items under way on each connection
          backlog,  \* connections that wait for accept()
          srv,      \* where main() is, and with which connection and user
          users,    \* UserInfo: name -> salt and cryptpasswd
          db,       \* the MYSQL handle still works
          sessions  \* the clients array: connection and user of each entry

vars == <<pc, form, wrong, toServer, toClient, backlog, srv, users, db, sessions>>

client == <<pc, form, wrong>>
server == <<backlog, srv, users, db, sessions>>

Box(text) == [kind |-> "box", val |-> text]
Num(n)    == [kind |-> "int", val |-> n]
crypt(p, salt) == <<"crypt", p[1], salt>>  \* DES looks at eight characters
Empty == <<>>
Waiting == [at |-> "wait"]

Init ==
    /\ pc = [c \in Clients |-> "off"]
    /\ form = [c \in Clients |-> [how |-> "none"]]
    /\ wrong = [c \in Clients |-> 0]
    /\ toServer = [c \in Clients |-> <<>>] /\ toClient = [c \in Clients |-> <<>>]
    /\ backlog = <<>>
    /\ srv = Waiting
    /\ \E known \in Registered, salt \in Salts :
          users = [n \in DOMAIN known |-> [salt |-> <<"salt", salt>>, cryptpasswd |-> crypt(known[n], salt)]]
    /\ db = TRUE
    /\ sessions = {}
-----------------------------------------------------------------------------
(* The client. *)

Goto(c, place) == pc' = [pc EXCEPT ![c] = place]
BackToMenu(c) == Goto(c, "menu") /\ form' = [form EXCEPT ![c] = [how |-> "again"]]
Send(c, text) == toServer' = [toServer EXCEPT ![c] = Append(@, Box(text))]

\* The next item for client c, when it is of the kind that is read there.
Arrived(c, kind) == toClient[c] # <<>> /\ Head(toClient[c]).kind = kind
Item(c) == Head(toClient[c]).val
Take(c) == toClient' = [toClient EXCEPT ![c] = Tail(@)]

\* connect(): the kernel completes it, whether main() is free or not.
Connect(c) ==
    /\ pc[c] = "off"
    /\ Goto(c, "menu")
    /\ backlog' = Append(backlog, c)
    /\ UNCHANGED <<form, wrong, toServer, toClient, srv, users, db, sessions>>

\* Mutant of Choose: wrongTimes is not looked at.
ChooseAnyway(c, how, n, p) ==
    /\ pc[c] = "menu"
    /\ form' = [form EXCEPT ![c] = [how |-> how, user |-> n, passwd |-> p]]
    /\ Send(c, IF n = NoUser THEN <<how>> ELSE <<how, n>>)
    /\ Goto(c, "exists")
    /\ UNCHANGED <<wrong, toClient, server>>

\* Choice 1 or 2 with a name and a password; the end of the input in the place
\* of the first name leaves it empty.
Choose(c, how, n, p) ==
    /\ pc[c] = "menu" /\ wrong[c] # MaxWrong
    /\ n = NoUser => form[c].how = "none"
    /\ form' = [form EXCEPT ![c] = [how |-> how, user |-> n, passwd |-> p]]
    /\ Send(c, IF n = NoUser THEN <<how>> ELSE <<how, n>>)
    /\ Goto(c, "exists")
    /\ UNCHANGED <<wrong, toClient, server>>

\* Choice 3, the user's or, after three wrong passwords, the program's.
Quit(c) ==
    /\ pc[c] = "menu"
    /\ Send(c, <<"quit">>)
    /\ Goto(c, "quit") /\ form' = [form EXCEPT ![c] = [how |-> "none"]]
    /\ UNCHANGED <<wrong, toClient, server>>

TryLogin(c, n, p) == Choose(c, "login", n, p)
TrySignin(c, n, p) == Choose(c, "signin", n, p)

\* isUserExist of a login: anything but 0 means that the salt follows.
LoginExists(c) ==
    /\ pc[c] = "exists" /\ form[c].how = "login" /\ Arrived(c, "int")
    /\ Take(c)
    /\ IF Item(c) # 0 THEN Goto(c, "salt") /\ UNCHANGED form ELSE BackToMenu(c)
    /\ UNCHANGED <<toServer, wrong, server>>

\* isUserExist of a signin: only after 1 the salt follows, and all goes on as at
\* a login. A new user sends the password and takes himself for logged in.
SigninExists(c) ==
    /\ pc[c] = "exists" /\ form[c].how = "signin" /\ Arrived(c, "int")
    /\ Take(c)
    /\ \/ Item(c) = 1 /\ Goto(c, "salt") /\ UNCHANGED toServer
       \/ Item(c) # 1 /\ Send(c, <<"passwd", form[c].passwd>>) /\ Goto(c, "token")
    /\ UNCHANGED <<form, wrong, server>>

\* crypt() returns NULL for an empty salt, and strcpy() reads it.
RecvSalt(c) ==
    /\ pc[c] = "salt" /\ Arrived(c, "box")
    /\ Take(c)
    /\ \/ Item(c) = Empty /\ Goto(c, "dead") /\ UNCHANGED toServer
       \/ /\ Item(c) # Empty
          /\ Send(c, crypt(form[c].passwd, Item(c)[2])) /\ Goto(c, "right")
    /\ UNCHANGED <<form, wrong, server>>

RecvRight(c) ==
    /\ pc[c] = "right" /\ Arrived(c, "int")
    /\ Take(c)
    /\ \/ Item(c) = 1 /\ Goto(c, "token") /\ UNCHANGED <<form, wrong>>
       \/ Item(c) = 0 /\ BackToMenu(c) /\ wrong' = [wrong EXCEPT ![c] = @ + 1]
    /\ UNCHANGED <<toServer, server>>

\* vShell() takes the token and asks for the path and its f_id.
RecvToken(c) ==
    /\ pc[c] = "token" /\ Arrived(c, "box")
    /\ Take(c)
    /\ Send(c, <<"pwd">>) /\ Goto(c, "pwd")
    /\ UNCHANGED <<form, wrong, server>>

RecvPwd(c) ==
    /\ pc[c] = "pwd" /\ Arrived(c, "box")
    /\ Take(c)
    /\ Goto(c, "shell")
    /\ UNCHANGED <<form, wrong, toServer, server>>

Expects == [exists |-> "int", salt |-> "box", right |-> "int", token |-> "box", pwd |-> "box"]

\* The bytes that come next are not what is read here: a piece of them is taken
\* for a length, and recvn() waits for that many.
Misread(c) ==
    /\ pc[c] \in DOMAIN Expects
    /\ toClient[c] # <<>> /\ ~Arrived(c, Expects[pc[c]])
    /\ Goto(c, "lost")
    /\ UNCHANGED <<form, wrong, toServer, toClient, server>>

\* The client is killed, or its machine or the connection goes.
Die(c) ==
    /\ pc[c] \notin {"off", "quit", "dead", "shell"}
    /\ Goto(c, "dead")
    /\ UNCHANGED <<form, wrong, toServer, toClient, server>>
-----------------------------------------------------------------------------
(* The server. *)

At(place) == srv.at = place

\* main() sends items to the client it talks to and goes on to place next. To a
\* client that has gone the bytes are lost, or sendn() adds up -1 for ever.
Reply(items, next) ==
    LET c == srv.conn IN
    \/ /\ toClient' = IF pc[c] = "dead" THEN toClient ELSE [toClient EXCEPT ![c] = @ \o items]
       /\ srv' = next
    \/ pc[c] = "dead" /\ srv' = [at |-> "hung", conn |-> c] /\ UNCHANGED toClient

\* recvn() of the next string from the client main() talks to.
Box1(place) == At(place) /\ toServer[srv.conn] # <<>>
Text == Head(toServer[srv.conn]).val
TakeText == toServer' = [toServer EXCEPT ![srv.conn] = Tail(@)]

\* The main port: accept(), then clientIntro().
Accept ==
    /\ At("wait") /\ backlog # <<>>
    /\ backlog' = Tail(backlog)
    /\ srv' = [at |-> "command", conn |-> Head(backlog)]
    /\ UNCHANGED <<client, toServer, toClient, users, db, sessions>>

\* Mutant of QuitCommand: the connection is closed, the loop goes on.
QuitNoBreak ==
    /\ Box1("command") /\ Text = <<"quit">>
    /\ TakeText
    /\ UNCHANGED <<client, toClient, backlog, srv, users, db, sessions>>

\* quit: clientIntro() closes the connection, and main() does so again.
QuitCommand ==
    /\ Box1("command") /\ Text = <<"quit">>
    /\ TakeText
    /\ srv' = Waiting
    /\ UNCHANGED <<client, toClient, backlog, users, db, sessions>>

\* login or signin without a name: ARGS_CHECK returns -1, and main() takes
\* everything but 0 for a successful login.
NoNameCommand ==
    /\ Box1("command") /\ Text \in {<<"login">>, <<"signin">>}
    /\ TakeText
    /\ srv' = [at |-> "admit", conn |-> srv.conn, user |-> NoUser]
    /\ UNCHANGED <<client, toClient, backlog, users, db, sessions>>

NamedCommand(how) == Box1("command") /\ Len(Text) = 2 /\ Text[1] = how

\* isUser(): the user's id, 0 if there is none, -1 if the query fails. Its
\* callers ask only whether it is 0.
isUser(n) == ~db \/ n \in DOMAIN users

\* isUserExist = 1 and the salt. After a failed query salt and cryptpasswd are
\* still empty.
KnownUser(how) ==
    /\ NamedCommand(how) /\ isUser(Text[2])
    /\ TakeText
    /\ LET u == IF db THEN users[Text[2]] ELSE [salt |-> Empty, cryptpasswd |-> Empty] IN
       Reply(<<Num(1), Box(u.salt)>>, [at |-> "crypt", conn |-> srv.conn, user |-> Text[2],
                                       cryptpasswd |-> u.cryptpasswd])
    /\ UNCHANGED <<client, backlog, users, db, sessions>>

\* isUserExist = 0: a login starts again, a signin goes on with the password.
UnknownUser(how) ==
    /\ NamedCommand(how) /\ ~isUser(Text[2])
    /\ TakeText
    /\ Reply(<<Num(0)>>, IF how = "login" THEN [at |-> "command", conn |-> srv.conn]
                         ELSE [at |-> "passwd", conn |-> srv.conn, user |-> Text[2]])
    /\ UNCHANGED <<client, backlog, users, db, sessions>>

LoginCommand == KnownUser("login") \/ UnknownUser("login")
SigninCommand == KnownUser("signin") \/ UnknownUser("signin")

\* Mutant of RecvCrypt: any string will do.
RecvAnyCrypt ==
    /\ Box1("crypt")
    /\ TakeText
    /\ Reply(<<Num(1)>>, [at |-> "admit", conn |-> srv.conn, user |-> srv.user])
    /\ UNCHANGED <<client, backlog, users, db, sessions>>

\* Mutant of RecvCrypt: a wrong password is not answered.
RecvCryptSilent ==
    /\ Box1("crypt")
    /\ TakeText
    /\ IF Text = srv.cryptpasswd
       THEN Reply(<<Num(1)>>, [at |-> "admit", conn |-> srv.conn, user |-> srv.user])
       ELSE Reply(<<>>, [at |-> "command", conn |-> srv.conn])
    /\ UNCHANGED <<client, backlog, users, db, sessions>>

RecvCrypt ==
    /\ Box1("crypt")
    /\ TakeText
    /\ IF Text = srv.cryptpasswd
       THEN Reply(<<Num(1)>>, [at |-> "admit", conn |-> srv.conn, user |-> srv.user])
       ELSE Reply(<<Num(0)>>, [at |-> "command", conn |-> srv.conn])
    /\ UNCHANGED <<client, backlog, users, db, sessions>>

\* Eight random letters and digits: never an empty salt, always one for crypt().
getRandStr(salt) == salt \in Salts

\* The insert fails if the database does, or strict columns are too short: the
\* path '/name/' is two characters longer than the name.
addUser(n, p) ==
    \/ /\ db /\ n \notin LongNames
       /\ \E salt \in Salts : getRandStr(salt) /\
              users' = [m \in DOMAIN users \cup {n} |->
                           IF m = n THEN [salt |-> <<"salt", salt>>, cryptpasswd |-> crypt(p, salt)]
                                    ELSE users[m]]
       /\ srv' = [at |-> "admit", conn |-> srv.conn, user |-> n]
    \/ /\ ~db \/ n \in LongNames
       /\ srv' = [at |-> "command", conn |-> srv.conn]
       /\ UNCHANGED users

\* A new user's password. Neither success nor failure is answered. (addHomeDir()
\* is Login of FileTable.)
RecvPasswd ==
    /\ Box1("passwd")
    /\ TakeText
    /\ addUser(srv.user, Text[2])
    /\ UNCHANGED <<client, toClient, backlog, db, sessions>>

\* addToClients(): an entry if one is free; its result is ignored. The user id is
\* what getUserId() says, 0 after a failure.
addToClients(c, n) ==
    sessions' = IF Cardinality(sessions) < CLIENTMAX
                THEN sessions \cup {[conn |-> c, user |-> n]} ELSE sessions

\* Mutant of Admit: no token is sent.
AdmitNoToken ==
    /\ At("admit")
    /\ addToClients(srv.conn, IF db THEN srv.user ELSE NoUser)
    /\ srv' = Waiting
    /\ UNCHANGED <<client, toServer, toClient, backlog, users, db>>

\* After clientIntro(): the token, then the entry in the clients array.
Admit ==
    /\ At("admit")
    /\ Reply(<<Box(<<"token">>)>>, Waiting)
    /\ IF srv' = Waiting THEN addToClients(srv.conn, IF db THEN srv.user ELSE NoUser)
                         ELSE UNCHANGED sessions
    /\ UNCHANGED <<client, toServer, backlog, users, db>>

\* A command of somebody in the array; the first is always pwd. One that dies
\* afterwards is Sessions' business.
Serve(c) ==
    /\ At("wait")
    /\ toServer[c] # <<>> /\ \E s \in sessions : s.conn = c
    /\ toServer' = [toServer EXCEPT ![c] = Tail(@)]
    /\ toClient' = [toClient EXCEPT ![c] = Append(@, Box(<<"path">>))]
    /\ UNCHANGED <<client, backlog, srv, users, db, sessions>>

\* The database closes a connection that was idle for hours; the handle does not
\* connect again.
DbFails ==
    /\ db /\ db' = FALSE
    /\ UNCHANGED <<client, toServer, toClient, backlog, srv, users, sessions>>
-----------------------------------------------------------------------------
ClientStep(c) == \/ LoginExists(c) \/ SigninExists(c) \/ RecvSalt(c) \/ RecvRight(c) \/ RecvToken(c)
                 \/ RecvPwd(c) \/ Misread(c)

User(c) == \/ Connect(c) \/ Quit(c) \/ Die(c)
           \/ \E n \in Names \cup {NoUser}, p \in Passwords : TryLogin(c, n, p) \/ TrySignin(c, n, p)

ServerStep == \/ Accept \/ QuitCommand \/ NoNameCommand
              \/ LoginCommand \/ SigninCommand
              \/ RecvCrypt \/ RecvPasswd \/ Admit
              \/ \E c \in Clients : Serve(c)

Next == (\E c \in Clients : ClientStep(c) \/ User(c)) \/ ServerStep \/ DbFails

\* Both programs run on; the program's own quit after MaxWrong wrong ones is
\* no choice of the user. epoll_wait() reports a session again and again until
\* it is served: strong fairness, since a new connection may come first.
Fairness ==
    /\ \A c \in Clients :
          WF_vars(ClientStep(c)) /\ WF_vars(wrong[c] = MaxWrong /\ Quit(c)) /\ SF_vars(Serve(c))
    /\ WF_vars(ServerStep)

Spec == Init /\ [][Next]_vars /\ Fairness
-----------------------------------------------------------------------------
Texts == {<<how>> : how \in {"login", "signin", "quit", "pwd", "token", "path"}}
         \cup ({"login", "signin"} \X Names) \cup ({"passwd"} \X Passwords)
         \cup {crypt(p, salt) : p \in Passwords, salt \in Salts}
         \cup ({"salt"} \X Salts) \cup {Empty}

\* Every variable holds a value of its type; nobody tries once too often.
TypeOK ==
    /\ pc \in [Clients -> {"off", "menu", "quit", "shell", "dead", "lost"} \cup DOMAIN Expects]
    /\ \A c \in Clients : form[c].how \in {"none", "again"}
           \/ form[c] \in [how : {"login", "signin"}, user : Names \cup {NoUser}, passwd : Passwords]
    /\ wrong \in [Clients -> 0 .. MaxWrong]
    /\ \A c \in Clients : \A i \in DOMAIN toServer[c] :
           toServer[c][i].kind = "box" /\ toServer[c][i].val \in Texts
    /\ \A c \in Clients : \A i \in DOMAIN toClient[c] :
           IF toClient[c][i].kind = "int" THEN toClient[c][i].val \in {0, 1}
                                          ELSE toClient[c][i].val \in Texts
    /\ \A i \in DOMAIN backlog : backlog[i] \in Clients
    /\ srv.at \in {"wait", "command", "crypt", "passwd", "admit", "hung"}
    /\ srv.at # "wait" => srv.conn \in Clients
    /\ DOMAIN users \subseteq Names \ LongNames
    /\ db \in BOOLEAN
    /\ sessions \subseteq [conn : Clients, user : Names \cup {NoUser}]

InDialogue(c) == ~At("wait") /\ srv.conn = c

\* The server has refused to make the user the client believes it has made.
Refused(c) == form[c].how = "signin" /\ (form[c].user \in LongNames \/ ~db)

\* The client reads an int where the server sent one and a string where it sent
\* a string, though no item says what it is; only the end of the input in the
\* place of a name gets them out of step.
NoneLost == \A c \in Clients : pc[c] = "lost" => form[c].user = NoUser

\* Neither do the two ends wait for each other, on whatever path through login,
\* signin and repetition they came, but for one: addUser() failed, of which the
\* client is not told, and clientIntro() waits for a command.
NeverBothWaiting ==
    \A c \in Clients :
        /\ srv.at \in {"command", "crypt", "passwd"} /\ srv.conn = c /\ toServer[c] = <<>>
        /\ pc[c] \in DOMAIN Expects /\ toClient[c] = <<>>
        => pc[c] = "token" /\ Refused(c)

InStep == NoneLost /\ NeverBothWaiting

\* Whoever has an entry in the clients array is the user he named and gave that
\* user's password (as far as crypt() reads it), also when he tried other names
\* and passwords before, signed in, or the user exists twice over. An entry
\* without a user comes from a login without a name or a database that fails.
Authenticated ==
    \A s \in sessions :
        IF s.user = NoUser THEN form[s.conn].user = NoUser \/ ~db
        ELSE /\ s.user = form[s.conn].user /\ s.user \in DOMAIN users
             /\ users[s.user].cryptpasswd = crypt(form[s.conn].passwd, users[s.user].salt[2])
             /\ pc[s.conn] \in {"right", "token", "pwd", "shell", "dead"}

\* When the client takes the dialogue for ended, main() leaves it too and is
\* there for the others again, unless the client dies or its name was refused.
DialogueEnds ==
    \A c \in Clients :
        (InDialogue(c) /\ pc[c] \in {"token", "quit"})
            ~> (~InDialogue(c) \/ pc[c] = "dead" \/ Refused(c))

CrowdedOut(c) == /\ Cardinality(sessions) = CLIENTMAX
                 /\ \A s \in sessions : s.conn # c

\* If no client dies, no user sits or tries at the menu for ever and no name is
\* refused, then everybody whose password was right gets into the shell with the
\* answer to the first command, whoever is talked to before, unless the clients
\* array is full: then nobody listens to the client, nor tells it.
EveryoneGetsIn ==
    (\A c \in Clients : [](pc[c] # "dead") /\ <>[](pc[c] # "menu") /\ [](~Refused(c)))
        => \A c \in Clients : pc[c] = "token" ~> (pc[c] = "shell" \/ CrowdedOut(c))
=============================================================================
