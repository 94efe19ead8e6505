------------------------------- MODULE Shell -------------------------------
(***************************************************************************)
(* The client's shell and the commands of vFinder(): what is sent for each *)
(* and what is waited for, and the text of a user's current directory,     *)
(* u_pwd: how cd takes it apart and puts it together, and how it fits the  *)
(* column and the array of the names, when any query may fail. (What the   *)
(* commands do to the table of the files is FileTable's, what becomes of   *)
(* gets and puts is Exchange's.)                                           *)
(*                                                                         *)
(* A path is the sequence of the names that a slash follows: "/gxg/a/" is  *)
(* <<"", "gxg", "a">>, "a/" is <<"a">> and the empty text <<>>. A line is  *)
(* the sequence of what stands between its blanks.                         *)
(***************************************************************************)
EXTENDS Naturals, Sequences, SequencesExt

CONSTANTS UserName,
          Lines,       \* what the user may type
          Names,       \* Names[w]: the names of the text w/
          Size,        \* Size[n]: the characters of name n
          ARGCMAX,     \* words that myParse() takes
          BUFFERSIZE,  \* characters of a line, with its end
          VARCHAR,     \* characters that u_pwd has room for
          ROUTEDEPTH   \* entries of the array of names

\* ROUTEDEPTH is 10 and VARCHAR 20: a name has a character and a slash at least.
\* No command has as many words as ARGCMAX, 10.
ASSUME ShellAssumption == /\ VARCHAR \in Nat /\ ROUTEDEPTH \in Nat \ {0, 1} /\ ARGCMAX \in Nat \ 0 .. 2
                          /\ BUFFERSIZE \in Nat
                          /\ VARCHAR <= 2 * ROUTEDEPTH
ASSUME TextsAssumption == /\ Size \in [DOMAIN Size -> Nat] /\ \A n \in DOMAIN Size : n # "" => Size[n] > 0
                          /\ {"", UserName} \subseteq DOMAIN Size /\ UserName # ""
                          /\ Names \in [DOMAIN Names -> Seq(DOMAIN Size)]

VARIABLES u_pwd,   \* the column of the user's row
          pwd,     \* the path in the client's prompt
          tail,    \* characters of a command that the prompt shows behind it
          at,      \* the client: off, at its prompt, or the command that it waits for
          buf,     \* characters of a command in msgBox.buf, where the answer goes
          line,    \* the command on its way to the server, or <<>>
          answer   \* the items on their way back

vars == <<u_pwd, pwd, tail, at, buf, line, answer>>

\* strtok() skips the empty ones.
Tokens(text) ==
    LET found[i \in 0 .. Len(text)] == IF i = 0 THEN <<>>
                                       ELSE IF text[i] = "" THEN found[i - 1]
                                       ELSE Append(found[i - 1], text[i])
    IN  found[Len(text)]

\* A slash after every name; in a line, a blank or the end after every word.
Characters(text) ==
    LET sum[i \in 0 .. Len(text)] == IF i = 0 THEN 0 ELSE sum[i - 1] + Size[text[i]] + 1
    IN  sum[Len(text)]

ASSUME LinesAssumption ==
    \A typed \in Lines : typed \in Seq(DOMAIN Size) /\ Characters(typed) <= BUFFERSIZE

\* The words of a line, up to ARGCMAX.
myParse(typed) ==
    LET words == Tokens(typed)
    IN  SubSeq(words, 1, IF Len(words) < ARGCMAX THEN Len(words) ELSE ARGCMAX)

\* The names of a path.
myLastWd(text) == Tokens(text)

HomeText == <<"", UserName>>

Init == /\ u_pwd = HomeText /\ pwd = HomeText /\ tail = 0 /\ buf = 0
        /\ at = "off" /\ line = <<>> /\ answer = <<>>
-----------------------------------------------------------------------------
(* The client. *)

\* How many words each command has.
Argc == [pwd |-> 1, ls |-> 1, exit |-> 1,
         cd |-> 2, mkdir |-> 2, rm |-> 2, rmdir |-> 2, gets |-> 2, puts |-> 2]

\* A login puts the path back, and the client asks for it.
Login ==
    /\ at = "off" /\ line = <<>>
    /\ u_pwd' = HomeText /\ pwd' = HomeText /\ tail' = 0 /\ buf' = 0
    /\ at' = "pwd" /\ line' = <<"pwd">>
    /\ UNCHANGED answer

Waits == at \notin {"off", "prompt"}

\* The command with all its words goes to the server.
Ask(name, typed) ==
    LET words == myParse(typed) IN
    /\ at = "prompt"
    /\ words # <<>> /\ words[1] = name /\ Len(words) = Argc[name]
    /\ at' = IF name = "exit" THEN "off" ELSE name
    /\ line' = typed
    /\ buf' = IF name = "pwd" THEN 0 ELSE Characters(typed) - 1
    /\ UNCHANGED <<u_pwd, pwd, tail, answer>>

\* The path is received over the command, whose end stays behind a shorter one.
\* Only the branch of pwd clears the buffer before.
Beyond(text) == IF buf > Characters(text) THEN buf - Characters(text) ELSE 0

\* All items of the answer; those that begin with a path change the prompt.
Take(name) ==
    /\ at = name /\ answer # <<>>
    /\ IF name \in {"pwd", "cd"} THEN pwd' = answer[1].val /\ tail' = Beyond(answer[1].val)
                                 ELSE UNCHANGED <<pwd, tail>>
    /\ at' = "prompt" /\ answer' = <<>>
    /\ UNCHANGED <<u_pwd, buf, line>>

\* The branches of vShell(): what each sends, and later takes.
ShellExit(typed)  == Ask("exit", typed)
ShellPwd(typed)   == Ask("pwd", typed) \/ Take("pwd")
ShellMkdir(typed) == Ask("mkdir", typed) \/ Take("mkdir")
ShellGets(typed)  == Ask("gets", typed) \/ Take("gets")
ShellPuts(typed)  == Ask("puts", typed) \/ Take("puts")
ShellLs(typed)    == Ask("ls", typed) \/ Take("ls")
ShellCd(typed)    == Ask("cd", typed) \/ Take("cd")
ShellRm(typed)    == Ask("rm", typed) \/ Take("rm")
ShellRmdir(typed) == Ask("rmdir", typed) \/ Take("rmdir")

\* The first word of a line of blanks is NULL, which strcmp() reads.
ShellBlanks(typed) ==
    /\ at = "prompt" /\ myParse(typed) = <<>>
    /\ at' = "off"
    /\ UNCHANGED <<u_pwd, pwd, tail, buf, line, answer>>

\* With ARGCMAX words or more myParse() writes a NULL behind the array cmd: the
\* shell dies of it, or says that no command has so many words.
ShellOverrun(typed) ==
    /\ at = "prompt" /\ Len(myParse(typed)) = ARGCMAX
    /\ at' \in {"off", "prompt"}
    /\ UNCHANGED <<u_pwd, pwd, tail, buf, line, answer>>

vShell(typed) == \/ ShellExit(typed) \/ ShellPwd(typed) \/ ShellMkdir(typed) \/ ShellGets(typed)
                 \/ ShellPuts(typed) \/ ShellLs(typed) \/ ShellCd(typed) \/ ShellRm(typed)
                 \/ ShellRmdir(typed) \/ ShellBlanks(typed) \/ ShellOverrun(typed)

\* The timer of an idle session closes it: recvn() of the client calls exit(0).
TimerCloses ==
    /\ Waits /\ line = <<>> /\ answer = <<>>
    /\ at' = "off"
    /\ UNCHANGED <<u_pwd, pwd, tail, buf, line, answer>>
-----------------------------------------------------------------------------
(* vFinder(), called by main(). *)

\* 0 for a query that fails: no user has that u_id.
getUserId(ok) == IF ok THEN 1 ELSE 0

\* The text is left as it was when a query fails or there is no such user.
myPwd(text, userId, ok) == IF ok /\ userId # 0 THEN u_pwd ELSE text

\* Mutant of updateUserPwd: the column takes any length.
updateAnyPwd(text, ok) == u_pwd' = IF ok THEN text ELSE u_pwd

\* A text that is too long for the column is an error of the query.
updateUserPwd(text, ok) == u_pwd' = IF ok /\ Characters(text) <= VARCHAR THEN text ELSE u_pwd

\* Both ends read the same words of the line.
Command(name) == line # <<>> /\ myParse(line)[1] = name /\ Len(myParse(line)) = Argc[name]
Answers(items) == answer' = items /\ line' = <<>>

Path(text) == [kind |-> "path", val |-> text]
Other(kind) == [kind |-> kind, val |-> <<>>]

\* The path, and the f_id that getPwdFId() finds or -1.
AnswersPath(text) == Answers(<<Path(text), Other("int")>>)

Pwd ==
    /\ Command("pwd")
    /\ \E user, ok \in BOOLEAN : AnswersPath(myPwd(<<>>, getUserId(user), ok))
    /\ UNCHANGED <<u_pwd, pwd, tail, at, buf>>

Cd(arg) == Command("cd") /\ myParse(line)[2] = arg /\ UNCHANGED <<pwd, tail, at, buf>>

CdDot ==
    /\ Cd(".")
    /\ \E user, ok \in BOOLEAN : AnswersPath(myPwd(<<>>, getUserId(user), ok))
    /\ UNCHANGED u_pwd

\* An empty text counts as one name.
AtTop(text) == Len(myLastWd(text)) <= 1

CdUp ==
    /\ Cd("..")
    /\ \E user, ok, again, saved \in BOOLEAN :
          LET id   == getUserId(user)
              text == myPwd(<<>>, id, ok)
              up   == <<"">> \o Front(myLastWd(text))
          IN  \/ AtTop(text) /\ AnswersPath(myPwd(text, id, again)) /\ UNCHANGED u_pwd
              \/ ~AtTop(text) /\ AnswersPath(up) /\ updateUserPwd(up, saved)

CdHome ==
    /\ Cd("/")
    /\ AnswersPath(HomeText)
    /\ \E saved \in BOOLEAN : updateUserPwd(HomeText, saved)

\* The name is put after the text, whatever it is.
CdName ==
    \E arg \in DOMAIN Names :
       /\ Cd(arg)
       /\ \E user, ok, again, saved \in BOOLEAN :
             LET id == getUserId(user)
                 to == myPwd(myPwd(<<>>, id, ok), id, again) \o Names[arg]
             IN  AnswersPath(to) /\ updateUserPwd(to, saved)

\* The names of the files, one after the other; nothing after a failed query.
myLs(ok) == IF ok THEN <<Other("list")>> ELSE <<>>

\* When myLs() fails vFinder() returns without an answer.
Ls ==
    /\ Command("ls")
    /\ \E ok \in BOOLEAN : Answers(myLs(ok))
    /\ UNCHANGED <<u_pwd, pwd, tail, at, buf>>

\* Mutant of Change: rmdir of a directory that is not empty is not answered.
ChangeSilent(name) ==
    /\ Command(name)
    /\ \E ok \in BOOLEAN : IF ok \/ name # "rmdir" THEN Answers(<<Other("int")>>) ELSE Answers(<<>>)
    /\ UNCHANGED <<u_pwd, pwd, tail, at, buf>>

\* mkdir, rm, rmdir: 0 or -1.
Change(name) ==
    /\ Command(name)
    /\ Answers(<<Other("int")>>)
    /\ UNCHANGED <<u_pwd, pwd, tail, at, buf>>

\* gets and puts: the number of the sub port.
Port(name) ==
    /\ Command(name)
    /\ Answers(<<Other("int")>>)
    /\ UNCHANGED <<u_pwd, pwd, tail, at, buf>>

Exit ==
    /\ Command("exit")
    /\ Answers(<<>>)
    /\ UNCHANGED <<u_pwd, pwd, tail, at, buf>>

vFinder == \/ Pwd \/ CdDot \/ CdUp \/ CdHome \/ CdName \/ Ls \/ Exit
           \/ Change("mkdir") \/ Change("rm") \/ Change("rmdir")
           \/ Port("gets") \/ Port("puts")

Next == \/ Login
        \/ \E typed \in Lines : vShell(typed)
        \/ TimerCloses
        \/ vFinder

Spec == Init /\ [][Next]_vars
-----------------------------------------------------------------------------
Expects == [pwd |-> <<"path", "int">>, cd |-> <<"path", "int">>, ls |-> <<"list">>]
Kinds == [i \in DOMAIN answer |-> answer[i].kind]

\* Whatever is typed and whichever queries fail, a shell that waits has a
\* command on its way to main() or gets the items that it reads, no less and no
\* more; but for ls, after whose failed query nothing comes any more. A shell
\* that does not wait finds nothing left over.
AnswerFitsCommand ==
    IF Waits /\ line = <<>>
    THEN \/ Kinds = IF at \in DOMAIN Expects THEN Expects[at] ELSE <<"int">>
         \/ at = "ls" /\ answer = <<>>
    ELSE answer = <<>>

AtHome(text) == Len(text) > 1 /\ text[1] = "" /\ Tokens(text) # <<>> /\ Tokens(text)[1] = UserName

\* The path that the client shows, or will when the answer is there.
HasPath == answer # <<>> /\ answer[1].kind = "path"
Shown   == IF HasPath THEN answer[1].val ELSE pwd
Trails  == IF HasPath THEN Beyond(answer[1].val) ELSE tail

\* The array of the names has room for one less: a NULL follows them.
Tree == INSTANCE PathTree WITH
            where <- Tokens(u_pwd), shown <- Tokens(Shown), lost <- ~AtHome(u_pwd),
            trailing <- Trails, home <- UserName, Depth <- ROUTEDEPTH - 1, Longest <- BUFFERSIZE,
            Steps <- {Tokens(Names[a]) : a \in DOMAIN Names}

\* However often names with doubled, leading or trailing slashes are joined and
\* taken apart again, a cd adds its names to the path, drops the last one or goes
\* home, and what is saved has no more names than the array of myCd() and
\* getPwdFId() has room for. Only failing queries make a user stray from home,
\* and then the array is one entry too short. The client shows the path that
\* was sent, with nothing behind it but the end of a line that was longer.
PathsFollowTree == Tree!Spec
=============================================================================
