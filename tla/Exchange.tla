------------------------------ MODULE Exchange ------------------------------
(***************************************************************************)
(* gets and puts from the command to the last byte, for several clients at *)
(* once: the client's shell and its threads, main() on both ports, the     *)
(* server's queue and its workers, and the rows and files they ask for.    *)
(*                                                                         *)
(* A transfer passes four parties that wait for each other: the shell asks *)
(* main() for the port and queues a task; a client thread connects to the  *)
(* sub port, where main() talks to one connection at a time with calls     *)
(* that block; a worker takes the connection over and talks to the thread. *)
(* An item is an int, a string with its length, or the size of a file with *)
(* its trains (Transfer takes those apart; what counts here is whether the *)
(* last train is a full one); "eof" is the other end's close. The queues   *)
(* and the lock of the pool are ThreadPool's.                              *)
(***************************************************************************)
EXTENDS Naturals, Sequences, FiniteSets, SequencesExt

CONSTANTS Clients,    \* client processes, one user each
          Commands, ClientOf, \* gets and puts commands 1 .. Commands, and who types each
          Nobody,     \* owner id 0: who has the rows of a failed getUserId()
          Files, Dirs, \* file names, each for one content; directories (f_id)
          Length,     \* Length[f]: "one" is 1000 bytes, "many" a larger multiple of 1000
          Where,      \* Where[t]: curF_id of the shell when command t is typed
          Menu,       \* Menu[t]: what command t may be: gets or puts, which file, and whether
                      \* the client has it (puts), or all of it by its name.temp (gets)
          FirstRows,  \* rows of FileTable at the start: owner, directory, file
          FirstStored,\* the sets of files that may be stored at the start
          Workers,    \* threads of the server's pool
          THREADNUM,  \* threads of a client's pool
          Lifetime,   \* how long a token is valid: 600 s and 60 s of tolerance
          Made,       \* Made[c]: when its token was made, before the clock starts
          MaxClock    \* bound of the clock

ASSUME ExchangeAssumption ==
    /\ Commands \in Nat /\ ClientOf \in [1 .. Commands -> Clients]
    /\ Nobody \notin Clients
    /\ Length \in [Files -> {"short", "one", "many"}]
    /\ FirstRows \subseteq (Clients \cup {Nobody}) \X Dirs \X Files
    /\ FirstStored \subseteq SUBSET Files
    /\ Where \in [1 .. Commands -> Dirs]
    /\ Menu \in [1 .. Commands -> SUBSET [type : {"gets", "puts"}, file : Files, has : BOOLEAN]]
    /\ THREADNUM \in Nat \ {0} /\ Lifetime \in Nat /\ MaxClock \in Nat
    /\ Made \in [Clients -> Nat]

VARIABLES proc,      \* proc[c]: the client process runs, has left, or called exit(0)
          clock,     \* the time
          asked,     \* asked[c]: transfers whose command waits for the port
          todo,      \* todo[c]: the queue of its thread pool
          task,      \* task[t]: curF_id and the choice from the menu
          at,        \* at[t]: where its client thread is
          up, down,  \* items under way, to the server and to the client
          backlog,   \* connections that wait for accept() on the sub port
          main,      \* where main() is, and with which connection
          queue,     \* the server's task queue
          work,      \* work[w]: where worker w is, and with which connection
          rows, stored, \* FileTable's files; the files the server can open
          late       \* history: transfers whose token had expired when main() saw it

vars == <<proc, clock, asked, todo, task, at, up, down, backlog, main, queue, work,
          rows, stored, late>>

shell  == <<proc, clock, asked, todo>>
server == <<backlog, main, queue, work, rows, stored, late>>

Num(n) == [kind |-> "int", val |-> n]
Box(s) == [kind |-> "box", val |-> s]
Bytes(n) == [kind |-> "bytes", val |-> n]
Eof    == [kind |-> "eof", val |-> 0]
NoTask == [type |-> "none"]
Free   == [at |-> "free"]

Transfers == 1 .. Commands
Of(c) == {t \in Transfers : ClientOf[t] = c}
Runs(c) == proc[c] = "runs"
Open(t) == at[t] \notin {"none", "asked", "queued", "over"} \* its thread has it connected

Init ==
    /\ proc = [c \in Clients |-> "runs"] /\ clock = 0
    /\ asked = [c \in Clients |-> {}] /\ todo = [c \in Clients |-> <<>>]
    /\ task = [t \in Transfers |-> NoTask] /\ at = [t \in Transfers |-> "none"]
    /\ up = [t \in Transfers |-> <<>>] /\ down = [t \in Transfers |-> <<>>]
    /\ backlog = <<>> /\ main = Free
    /\ queue = <<>> /\ work = [w \in Workers |-> Free]
    /\ rows = FirstRows /\ stored \in FirstStored /\ late = {}
-----------------------------------------------------------------------------
(* The client. *)

Move(t, place) == at' = [at EXCEPT ![t] = place]
SendUp(t, items) == up' = [up EXCEPT ![t] = @ \o items]
Arrived(t, kind) == down[t] # <<>> /\ Head(down[t]).kind = kind /\ Runs(ClientOf[t])
Answer(t) == Head(down[t]).val
TakeDown(t) == down' = [down EXCEPT ![t] = Tail(@)]

\* gets or puts at the prompt: the command goes to the server. The shell waits
\* for the answer before it reads another.
Command(t, what) ==
    LET c == ClientOf[t] IN
    /\ Runs(c) /\ asked[c] = {}
    /\ at[t] = "none" /\ \A u \in Of(c) : u < t => at[u] # "none"
    /\ task' = [task EXCEPT ![t] = [type |-> what.type, dir |-> Where[t], file |-> what.file, has |-> what.has]]
    /\ asked' = [asked EXCEPT ![c] = {t}]
    /\ Move(t, "asked")
    /\ UNCHANGED <<proc, clock, todo, up, down, server>>

taskEnqueue(c, t) == todo' = [todo EXCEPT ![c] = Append(@, t)]
taskDequeue(c) == todo' = [todo EXCEPT ![c] = Tail(@)]

\* main() answers with the number of the sub port, whoever asks for whatever,
\* and the shell makes a task for its threads.
AnswerPort(c) ==
    /\ main = Free
    /\ \E t \in asked[c] : taskEnqueue(c, t) /\ Move(t, "queued")
    /\ asked' = [asked EXCEPT ![c] = {}]
    /\ UNCHANGED <<proc, clock, task, up, down, server>>

\* Mutant of Connect: a thread serves one task only.
ConnectOnce(c) ==
    /\ Runs(c) /\ todo[c] # <<>>
    /\ Cardinality({t \in Of(c) : at[t] \notin {"none", "asked", "queued"}}) < THREADNUM
    /\ taskDequeue(c)
    /\ Move(Head(todo[c]), "connected")
    /\ backlog' = Append(backlog, Head(todo[c]))
    /\ UNCHANGED <<proc, clock, asked, task, up, down, main, queue, work, rows, stored, late>>

\* A free thread takes the oldest task and connects; then it sleeps a second.
Connect(c) ==
    /\ Runs(c) /\ todo[c] # <<>>
    /\ Cardinality({t \in Of(c) : Open(t)}) < THREADNUM
    /\ taskDequeue(c)
    /\ Move(Head(todo[c]), "connected")
    /\ backlog' = Append(backlog, Head(todo[c]))
    /\ UNCHANGED <<proc, clock, asked, task, up, down, main, queue, work, rows, stored, late>>

\* The user's name and the token.
SendToken(t) ==
    /\ at[t] = "connected" /\ Runs(ClientOf[t])
    /\ SendUp(t, <<Box(ClientOf[t]), Box("token")>>)
    /\ Move(t, "legal")
    /\ UNCHANGED <<shell, task, down, server>>

\* close(): the thread is free for another task.
Over(t, items) == SendUp(t, Append(items, Eof)) /\ Move(t, "over")

\* isLegal; if it is, what is wanted. A puts adds the md5, which is empty for a
\* file that is not there.
RecvLegal(t) ==
    /\ at[t] = "legal" /\ Arrived(t, "int")
    /\ TakeDown(t)
    /\ \/ Answer(t) = "no" /\ Over(t, <<>>)
       \/ /\ Answer(t) = "ok"
          /\ SendUp(t, <<Num(task[t].type), Num(task[t].dir), Box(task[t].file)>> \o
                       (IF task[t].type = "gets" THEN <<>> ELSE
                        <<Box(IF task[t].has THEN task[t].file ELSE "")>>))
          /\ Move(t, "exist")
    /\ UNCHANGED <<shell, task, server>>

\* Whether the server has the file: gets wants "yes" and says how much it has
\* already, puts sends the file after "no" - if it can open it.
RecvExist(t) ==
    /\ at[t] = "exist" /\ Arrived(t, "int")
    /\ TakeDown(t)
    /\ \/ task[t].type = "gets" /\ Answer(t) = "yes" /\ Move(t, "file")
          /\ SendUp(t, <<Num(IF task[t].has THEN "all" ELSE "part")>>)
       \/ task[t].type = "gets" /\ Answer(t) # "yes" /\ Over(t, <<>>)
       \/ /\ task[t].type = "puts" /\ Answer(t) = "no" /\ task[t].has
          /\ SendUp(t, <<Box(task[t].file)>>) /\ Move(t, "sending")
       \/ task[t].type = "puts" /\ ~(Answer(t) = "no" /\ task[t].has) /\ Over(t, <<>>)
    /\ UNCHANGED <<shell, task, server>>

SendFile(t) ==
    /\ at[t] = "sending" /\ Runs(ClientOf[t])
    /\ Over(t, <<Bytes(Length[task[t].file])>>)
    /\ UNCHANGED <<shell, task, down, server>>

\* The loop over the trains ends at one that is not full, whose bytes are read
\* after it. If it ends because nothing is missing, the same recvn() waits for
\* bytes that nobody sends.
RecvFile(t) ==
    /\ at[t] = "file" /\ Arrived(t, "bytes")
    /\ TakeDown(t)
    /\ \/ Answer(t) = "rest" /\ Over(t, <<>>)
       \/ Answer(t) = "even" /\ Move(t, "last") /\ UNCHANGED up
    /\ UNCHANGED <<shell, task, server>>

\* The process ends, and with it every thread, wherever it is.
Ends(c, how) ==
    /\ proc' = [proc EXCEPT ![c] = how]
    /\ asked' = [asked EXCEPT ![c] = {}] /\ todo' = [todo EXCEPT ![c] = <<>>]
    /\ up' = [t \in Transfers |-> IF ClientOf[t] = c /\ Open(t) THEN Append(up[t], Eof) ELSE up[t]]
    /\ at' = [t \in Transfers |-> IF ClientOf[t] = c /\ at[t] # "none" THEN "over" ELSE at[t]]
    /\ down' = [t \in Transfers |-> IF ClientOf[t] = c THEN <<>> ELSE down[t]]
    /\ UNCHANGED <<clock, task, server>>

\* exit at the prompt, a signal, or a session that was closed when idle.
Leave(c) == Runs(c) /\ Ends(c, "left")

\* recvn() of a thread finds the connection closed: exit(0).
RecvEof(t) == Open(t) /\ at[t] \notin {"connected", "sending"} /\ Arrived(t, "eof") /\ Ends(ClientOf[t], "exited")
-----------------------------------------------------------------------------
(* main(). *)

\* The items for a client that is gone are lost.
SendDown(t, items) ==
    down' = IF at[t] = "over" THEN down ELSE [down EXCEPT ![t] = @ \o items]

SubAccept ==
    /\ main = Free /\ backlog # <<>>
    /\ main' = [at |-> "token", conn |-> Head(backlog)]
    /\ backlog' = Tail(backlog)
    /\ UNCHANGED <<shell, task, at, up, down, queue, work, rows, stored, late>>

\* The next items from client t: first one of that kind.
Comes(t, kind) == up[t] # <<>> /\ Head(up[t]).kind = kind
Got(t) == Head(up[t]).val
TakeUp(t) == up' = [up EXCEPT ![t] = Tail(@)]

\* Mutant of decodeToken: the expiry is not validated.
decodeAnyToken(c) == TRUE

\* The signature and the issuer are right for a token from the login; it is
\* never renewed.
decodeToken(c) == clock + Made[c] <= Lifetime

\* sendn() to a client that is gone: the bytes are lost, or -1 is added up for
\* ever.
Stuck(t) == at[t] = "over"

\* The history: what a clock of the server's says of the token.
Note(t) == late' = IF clock + Made[ClientOf[t]] > Lifetime THEN late \cup {t} ELSE late

\* Mutant of RecvToken: the connection is closed before the verdict is sent.
RecvTokenSilent ==
    LET t == main.conn IN
    /\ main.at = "token" /\ Comes(t, "box")
    /\ up' = [up EXCEPT ![t] = Tail(Tail(@))] /\ Note(t)
    /\ main' = Free
    /\ IF decodeToken(ClientOf[t]) THEN SendDown(t, <<Num("ok")>>) /\ queue' = Append(queue, t)
                                   ELSE SendDown(t, <<Eof>>) /\ UNCHANGED queue
    /\ UNCHANGED <<shell, task, at, backlog, work, rows, stored>>

\* The name and the token, the verdict, and a task for the workers or the end.
RecvToken ==
    LET t == main.conn IN
    /\ main.at = "token" /\ Comes(t, "box")
    /\ up' = [up EXCEPT ![t] = Tail(Tail(@))] /\ Note(t)
    /\ \/ /\ decodeToken(ClientOf[t])
          /\ SendDown(t, <<Num("ok")>>)
          /\ queue' = Append(queue, t) /\ main' = Free
       \/ /\ ~decodeToken(ClientOf[t])
          /\ SendDown(t, <<Num("no"), Eof>>)
          /\ main' = Free /\ UNCHANGED queue
       \/ Stuck(t) /\ main' = [at |-> "hung", conn |-> t] /\ UNCHANGED <<queue, down>>
    /\ UNCHANGED <<shell, task, at, backlog, work, rows, stored>>

\* recvn() never ends at the end of a stream: it adds 0 to what it has.
MainEof ==
    /\ main.at = "token" /\ Comes(main.conn, "eof")
    /\ main' = [main EXCEPT !.at = "hung"]
    /\ UNCHANGED <<shell, task, at, up, down, backlog, queue, work, rows, stored, late>>

Tick ==
    /\ clock < MaxClock
    /\ clock' = clock + 1
    /\ UNCHANGED <<proc, asked, todo, task, at, up, down, server>>
-----------------------------------------------------------------------------
(* The workers. *)

WorkAt(w, place) == work[w].at = place
Recv(w, place, kind) == WorkAt(w, place) /\ Comes(work[w].conn, kind) /\ TakeUp(work[w].conn)
Goto(w, place) == work' = [work EXCEPT ![w].at = place]

\* Mutant of TakeTask: the task is not dequeued.
TakeTaskAgain(w) ==
    /\ WorkAt(w, "free") /\ queue # <<>>
    /\ work' = [work EXCEPT ![w] = [at |-> "type", conn |-> Head(queue)]]
    /\ UNCHANGED <<shell, task, at, up, down, backlog, main, queue, rows, stored, late>>

TakeTask(w) ==
    /\ WorkAt(w, "free") /\ queue # <<>>
    /\ work' = [work EXCEPT ![w] = [at |-> "type", conn |-> Head(queue)]]
    /\ queue' = Tail(queue)
    /\ UNCHANGED <<shell, task, at, up, down, backlog, main, rows, stored, late>>

\* taskType and curF_id, which come together.
RecvType(w) ==
    LET t == work[w].conn IN
    /\ WorkAt(w, "type") /\ Comes(t, "int")
    /\ up' = [up EXCEPT ![t] = Tail(Tail(@))]
    /\ work' = [work EXCEPT ![w] = [at |-> "filename", conn |-> t, type |-> Got(t), dir |-> up[t][2].val]]
    /\ UNCHANGED <<shell, task, at, down, backlog, main, queue, rows, stored, late>>

\* The id of the user of a connection, or 0 when the query fails.
getUserId(t) == {ClientOf[t], Nobody}

\* gets: does the row exist? A query fails when another thread uses the handle
\* at the same time; a failure is a "no".
isFileExistInPwd(row) == IF row \in rows THEN {"yes", "no"} ELSE {"no"}

\* puts: "no", or the f_id or the failure that both mean: do not send.
isFileExistInTable(f, md5) ==
    IF md5 = f /\ \E r \in rows : r[3] = f THEN {"yes"} ELSE {"no", "failed"}

\* Worker w is done with its connection and closes it, after sending items.
Close(w, items) == SendDown(work[w].conn, Append(items, Eof)) /\ work' = [work EXCEPT ![w] = Free]

Hang(w) == Goto(w, "hung") /\ UNCHANGED down

\* Mutant of RecvGets: a file that is not there is not answered.
RecvGetsSilent(w) ==
    /\ WorkAt(w, "filename") /\ work[w].type = "gets"
    /\ Recv(w, "filename", "box")
    /\ LET t == work[w].conn f == Got(t) IN
       \E user \in getUserId(t) :
       \E answer \in isFileExistInPwd(<<user, work[w].dir, f>>) :
          IF answer = "yes" /\ f \in stored
          THEN SendDown(t, <<Num(answer)>>) /\ work' = [work EXCEPT ![w] = [at |-> "total", conn |-> t, file |-> f]]
          ELSE UNCHANGED down /\ work' = [work EXCEPT ![w] = Free]
    /\ UNCHANGED <<shell, task, at, backlog, main, queue, rows, stored, late>>

\* The file name of a gets, the answer, and sendFile(), which returns at once
\* when it cannot open the file.
RecvGets(w) ==
    /\ WorkAt(w, "filename") /\ work[w].type = "gets"
    /\ Recv(w, "filename", "box")
    /\ LET t == work[w].conn f == Got(t) IN
       \E user \in getUserId(t) :
       \E answer \in isFileExistInPwd(<<user, work[w].dir, f>>) :
          \/ /\ answer = "yes" /\ f \in stored /\ SendDown(t, <<Num(answer)>>)
             /\ work' = [work EXCEPT ![w] = [at |-> "total", conn |-> t, file |-> f]]
          \/ ~(answer = "yes" /\ f \in stored) /\ Close(w, <<Num(answer)>>)
          \/ Stuck(t) /\ Hang(w)
    /\ UNCHANGED <<shell, task, at, backlog, main, queue, rows, stored, late>>

\* An upload that is not done has emptied the file.
Cut(f) == \E v \in Workers : /\ work[v].at \in {"bytes", "hung"}
                             /\ "file" \in DOMAIN work[v] /\ work[v].file = f

\* The part the client has; then the size and the trains, with send() whose
\* result is ignored. The last train is not full if there is a rest of 1000;
\* of an empty file neither end maps or awaits anything.
RecvTotal(w) ==
    /\ Recv(w, "total", "int")
    /\ LET f == work[w].file
           rest == Length[f] = "short" /\ Got(work[w].conn) = "part" IN
       \/ Close(w, <<Bytes(IF rest THEN "rest" ELSE "even")>>)
       \/ Cut(f) /\ Close(w, <<Bytes("rest")>>)
    /\ UNCHANGED <<shell, task, at, backlog, main, queue, rows, stored, late>>

RecvPuts(w) ==
    /\ WorkAt(w, "filename") /\ work[w].type = "puts"
    /\ Recv(w, "filename", "box")
    /\ \E user \in getUserId(work[w].conn) :
          work' = [work EXCEPT ![w] = [at |-> "md5", conn |-> @.conn, dir |-> @.dir,
                                       file |-> Got(work[w].conn), user |-> user]]
    /\ UNCHANGED <<shell, task, at, down, backlog, main, queue, rows, stored, late>>

\* Mutant of RecvMd5: the file is waited for whatever the answer was.
RecvMd5AndFile(w) ==
    /\ Recv(w, "md5", "box")
    /\ LET t == work[w].conn IN
       \E answer \in isFileExistInTable(work[w].file, Got(t)) :
          SendDown(t, <<Num(answer)>>) /\ Goto(w, "name")
    /\ UNCHANGED <<shell, task, at, backlog, main, queue, rows, stored, late>>

\* The md5 and the answer; only after "no" the file is waited for.
RecvMd5(w) ==
    /\ Recv(w, "md5", "box")
    /\ LET t == work[w].conn IN
       \E answer \in isFileExistInTable(work[w].file, Got(t)) :
          \/ SendDown(t, <<Num(answer)>>) /\ Goto(w, IF answer = "no" THEN "name" ELSE "add")
          \/ Stuck(t) /\ Hang(w)
    /\ UNCHANGED <<shell, task, at, backlog, main, queue, rows, stored, late>>

\* recvFile() opens the name that comes with the file and so creates it.
RecvFileName(w) ==
    /\ Recv(w, "name", "box")
    /\ stored' = stored \cup {Got(work[w].conn)}
    /\ Goto(w, "bytes")
    /\ UNCHANGED <<shell, task, at, down, backlog, main, queue, rows, late>>

\* A client's trains are longer than the server's: only after a file of 1000
\* bytes recvn() waits for more, and it does not end at the end of a stream.
RecvBytes(w) ==
    /\ Recv(w, "bytes", "bytes")
    /\ Goto(w, IF Got(work[w].conn) = "one" THEN "hung" ELSE "add")
    /\ UNCHANGED <<shell, task, at, down, backlog, main, queue, rows, stored, late>>

\* The row hangs where the shell was when the command was typed. The stored
\* file is opened for its size: without it there is no row. The query may fail.
addFileToTable(row) ==
    \/ row[3] \in stored /\ rows' = rows \cup {row}
    \/ UNCHANGED rows

Add(w) ==
    /\ WorkAt(w, "add")
    /\ addFileToTable(<<work[w].user, work[w].dir, work[w].file>>)
    /\ Close(w, <<>>)
    /\ UNCHANGED <<shell, task, at, up, backlog, main, queue, stored, late>>

\* The end of the stream where something is expected, as in main().
WorkEof(w) ==
    /\ work[w].at \notin {"free", "add", "hung"} /\ Comes(work[w].conn, "eof")
    /\ Goto(w, "hung")
    /\ UNCHANGED <<shell, task, at, up, down, backlog, main, queue, rows, stored, late>>
-----------------------------------------------------------------------------
Thread(t) == SendToken(t) \/ RecvLegal(t) \/ RecvExist(t) \/ SendFile(t) \/ RecvFile(t) \/ RecvEof(t)

Work(w) == \/ TakeTask(w) \/ RecvType(w) \/ RecvGets(w) \/ RecvTotal(w)
           \/ RecvPuts(w) \/ RecvMd5(w) \/ RecvFileName(w) \/ RecvBytes(w) \/ Add(w) \/ WorkEof(w)

SubPort == SubAccept \/ RecvToken \/ MainEof

\* What the programs do on their own.
Run == \/ \E t \in Transfers : Thread(t)
       \/ \E c \in Clients : Connect(c) \/ AnswerPort(c)
       \/ SubPort
       \/ \E w \in Workers : Work(w)

Next == \/ Run \/ Tick
        \/ \E t \in Transfers : \E what \in Menu[t] : Command(t, what)
        \/ \E c \in Clients : Leave(c)

\* No thread stops for ever where it can go on. There are finitely many
\* commands, so it need not be said that each thread gets its turn.
Spec == Init /\ [][Next]_vars /\ WF_vars(Run)
-----------------------------------------------------------------------------
Places == {"none", "asked", "queued", "connected", "legal", "exist", "sending", "file", "last", "over"}
WorkPlaces == {"free", "type", "filename", "total", "md5", "name", "bytes", "add", "hung"}

\* Every variable holds a value of its type, and a connection is in one place of
\* the server only.
TypeOK ==
    /\ proc \in [Clients -> {"runs", "left", "exited"}]
    /\ clock \in 0 .. MaxClock
    /\ \A c \in Clients : asked[c] \subseteq Of(c) /\ ToSet(todo[c]) \subseteq Of(c)
    /\ \A t \in Transfers : task[t] = NoTask \/ task[t] \in [type : {"gets", "puts"}, dir : Dirs, file : Files, has : BOOLEAN]
    /\ at \in [Transfers -> Places]
    /\ main.at \in {"free", "token", "hung"}
    /\ \A w \in Workers : work[w].at \in WorkPlaces
    /\ rows \subseteq (Clients \cup {Nobody}) \X Dirs \X Files /\ stored \subseteq Files
    /\ late \subseteq Transfers
    /\ IsInjective(backlog \o queue)
    /\ \A w \in Workers : ~WorkAt(w, "free") =>
           /\ work[w].conn \notin ToSet(backlog \o queue)
           /\ main # Free => main.conn # work[w].conn
           /\ \A v \in Workers \ {w} : ~WorkAt(v, "free") => work[v].conn # work[w].conn

Expects == [legal |-> "int", exist |-> "int", file |-> "bytes", last |-> "bytes"]
WorkExpects == [type |-> "int", filename |-> "box", total |-> "int", md5 |-> "box",
                name |-> "box", bytes |-> "bytes"]

\* The thread can do nothing with what has come, and so can the server's end, if
\* the connection still has one.
ThreadWaits(t) == /\ at[t] \in DOMAIN Expects
                  /\ \A kind \in {Expects[at[t]], "eof"} : ~Arrived(t, kind)
ServerActs(t) ==
    \/ t \in ToSet(backlog \o queue)
    \/ main.at = "token" /\ main.conn = t /\ \E kind \in {"box", "eof"} : Comes(t, kind)
    \/ \E w \in Workers : /\ ~WorkAt(w, "free") /\ work[w].conn = t
                          /\ \/ WorkAt(w, "add")
                             \/ work[w].at \in DOMAIN WorkExpects /\ \E kind \in {WorkExpects[work[w].at], "eof"} : Comes(t, kind)

\* A thread of the client never waits for a party that waits for it, expects
\* something else or has forgotten it: through main(), the queue and the worker,
\* after every verdict and every answer, whether the query failed or not.
InStep == \A t \in Transfers : ThreadWaits(t) => ServerActs(t)

\* A row that was not there at the start comes from a puts whose token had not
\* expired; it is the user's - or nobody's, if its id could not be found - hangs
\* where the shell was when the command was typed, wherever it went since, and
\* the server can open the file.
RowsAreEarned ==
    \A r \in rows \ FirstRows :
        /\ r[3] \in stored
        /\ \E t \in Transfers \ late : /\ r[1] \in {ClientOf[t], Nobody}
                                       /\ task[t].type = "puts"
                                       /\ task[t].dir = r[2] /\ task[t].file = r[3]

\* A client only calls exit(0), and ends its other transfers with it, in a gets
\* whose row was there from the start, maybe without its file, or of a file that
\* ends with a full train, or that name.temp says it has: neither a refusal nor a
\* "no" is taken for a lost connection, and of what has just been put only such
\* files cannot be got.
ExitHasCause ==
    \A c \in Clients : proc[c] = "exited" =>
        \E t \in Of(c) :
            /\ task[t].type = "gets"
            /\ \/ \E o \in {c, Nobody} : <<o, task[t].dir, task[t].file>> \in FirstRows
               \/ Length[task[t].file] # "short"
               \/ task[t].has

\* A puts that keeps its worker though the client stays: the file is not in the
\* client's directory, or has 1000 bytes.
Keeps(t) == task[t].type = "puts" /\ (~task[t].has \/ Length[task[t].file] = "one")

Held(t) == \/ main # Free /\ main.conn = t
           \/ \E w \in Workers : ~WorkAt(w, "free") /\ work[w].conn = t

\* When the last command has been typed, main() and every worker come back from
\* every connection, unless the client's process has ended or the puts is one
\* that keeps its worker.
ServerComesBack ==
    <>[](\A t \in Transfers : Held(t) => ~Runs(ClientOf[t]) \/ Keeps(t))

\* If no client ends and fewer puts than there are workers keep one, every command
\* has then ended in a verdict, an answer or a file: no cycle of waits closes
\* between shells, threads, main() and workers, however few of them there are.
EveryTransferEnds ==
    <>[](\/ \A t \in Transfers : at[t] \in {"none", "over"}
         \/ \E c \in Clients : ~Runs(c)
         \/ Cardinality({u \in Transfers : Keeps(u)}) >= Cardinality(Workers))
=============================================================================
