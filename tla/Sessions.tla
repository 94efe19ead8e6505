------------------------------ MODULE Sessions ------------------------------
(***************************************************************************)
(* The sessions of the server: the clients array, the time wheel slotMap   *)
(* that drops idle sessions, the descriptors behind them, and main()'s     *)
(* epoll loop, which serves one event after the other.                     *)
(*                                                                         *)
(* Descriptors are numbers: a closed one is handed out again, the lowest   *)
(* first. A client is what it has done last: it sits idle, has sent a      *)
(* command or exit, or has gone away without a word (eof).                 *)
(*                                                                         *)
(* A step that reads freed memory or an uninitialised pointer sets fault,  *)
(* after which the model says nothing more.                                *)
(***************************************************************************)
EXTENDS Integers, Sequences, FiniteSets, FiniteSetsExt, SequencesExt

CONSTANTS Conns,        \* the connections clients make to the main port
          UserOf,       \* UserOf[c]: the user id main() finds for c: 0 after a login
                        \* without a name, or when the query fails
          TIMEOUT,      \* number of slots of the wheel
          CLIENTMAX,    \* size of the clients array
          MaxFd,        \* bound: highest descriptor number
          MaxTransfers, \* bound: transfer connections the workers hold
          MallocGarbage,\* can malloc() return a node whose next is not NULL?
          None,         \* a closed descriptor
          Xfer          \* a descriptor of a transfer connection

ASSUME TimeoutAtLeastThree == TIMEOUT \in Nat /\ TIMEOUT >= 3
ASSUME SomeClients == CLIENTMAX \in Nat \ {0}
ASSUME DescriptorNumbers == MaxFd \in Nat
ASSUME NoConnections == None \notin Conns /\ Xfer \notin Conns /\ None # Xfer
ASSUME GarbageChoice == MallocGarbage \subseteq BOOLEAN /\ MallocGarbage # {}

Users == {UserOf[c] : c \in Conns}
ASSUME UserIds == UserOf \in [Conns -> Nat]

VARIABLES clients,    \* clients[i]: netFd, userId, slotIndex
          clientNum, timeIndex,
          slotMap,    \* slotMap[s]: the users of its nodes in order (netFd of a
                      \* node is never read), whether clearSlot has freed the
                      \* nodes, whether the next of the tail is garbage
          fdTable,    \* fdTable[f]: what descriptor f refers to
          watched,    \* the session descriptors in the epoll set
          held,       \* held[f]: how often the workers will still close f
          peer,       \* peer[c]: new, idle, cmd, exit, eof or gone
          main,       \* where main() is
          fault,
          idle,       \* history: timer ticks since c last logged in or was served
          regular,    \* history: nobody has used exit, no id has two sessions
          fired,      \* history: the timer has dropped a session
          strays      \* history: how often it has dropped an empty entry instead

tableVars == <<clients, clientNum, slotMap>>
history   == <<regular, fired, strays>>
vars == <<tableVars, timeIndex, fdTable, watched, held, peer, main, fault,
          history, idle>>

Fds   == 1 .. MaxFd
Slots == 0 .. TIMEOUT - 1
Index == 1 .. CLIENTMAX
Empty == [netFd |-> -1, userId |-> 0, slotIndex |-> -1]
Wait  == [at |-> "wait"]

Main(at) == ~fault /\ main.at = at

\* Mutant of Before: timers start on the slot that is cleared next.
BeforeNoMinus(i) == (TIMEOUT + i) % TIMEOUT

Before(i) == (TIMEOUT + i - 1) % TIMEOUT
Occupied  == {i \in Index : clients[i].netFd # -1}
FreeFds   == {f \in Fds : fdTable[f] = None}
Ready     == {f \in watched : peer[fdTable[f]] \in {"cmd", "exit", "eof"}}

\* initSlotMap().
NoTimers == [s \in Slots |-> [nodes |-> <<>>, freed |-> FALSE, garbage |-> FALSE]]

\* initClients().
Init == /\ clients = [i \in Index |-> Empty]
        /\ clientNum = 0
        /\ timeIndex = 0
        /\ slotMap = NoTimers
        /\ fdTable = [f \in Fds |-> None]
        /\ watched = {}
        /\ held = [f \in Fds |-> 0]
        /\ peer = [c \in Conns |-> "new"]
        /\ main = Wait
        /\ fault = FALSE
        /\ idle = [c \in Conns |-> 0]
        /\ regular = TRUE
        /\ fired = FALSE
        /\ strays = 0

(***************************************************************************)
(* The slots. Each operation yields the slot it leaves and whether it      *)
(* reads memory it must not.                                               *)
(***************************************************************************)
\* Mutant of removeFromSlot: the node stays.
RemoveNothing(s, u) == [slot |-> s, bad |-> FALSE]

\* removeFromSlot(): unlinks the first node of user u. It reads head->userId
\* of a slot whose nodes are freed, walks off a tail whose next is garbage,
\* and makes that garbage the end of the list when it removes such a tail.
removeFromSlot(s, u) ==
    LET at == {p \in DOMAIN s.nodes : s.nodes[p] = u}
        p == Min(at)
        n == Len(s.nodes)
    IN  IF s.freed THEN [slot |-> s, bad |-> TRUE]
        ELSE IF at = {} THEN [slot |-> s, bad |-> n > 0 /\ s.garbage]
        ELSE [slot |-> [s EXCEPT !.nodes = RemoveAt(@, p), !.garbage = @ /\ n > 1],
              bad  |-> p = n /\ n > 1 /\ s.garbage]

\* attachToSlot(): appends a node; its next is whatever malloc() left there.
\* A slot whose nodes are freed still has its size and its tail: the new node
\* is written behind a freed one.
attachToSlot(s, u, g) ==
    [slot |-> [s EXCEPT !.nodes = Append(@, u), !.garbage = g], bad |-> s.freed]

\* What a close() of descriptor f does to the connection behind it.
Close(f) ==
    /\ fdTable' = [fdTable EXCEPT ![f] = None]
    /\ watched' = watched \ {f}
    /\ peer' = IF fdTable[f] \in Conns THEN [peer EXCEPT ![fdTable[f]] = "gone"] ELSE peer

(***************************************************************************)
(* main(): logins, commands, timeouts.                                     *)
(***************************************************************************)
\* The client of c has logged in: accept() took the lowest free descriptor,
\* addToClients() the first free entry. With the array full it returns -1,
\* which main() ignores: the connection stays open and nobody watches it.
Login(c) ==
    /\ Main("wait")
    /\ peer[c] = "new"
    /\ FreeFds # {}
    /\ LET f == Min(FreeFds)
           free == Index \ Occupied
           s == Before(Before(timeIndex))
           u == UserOf[c]
       IN  /\ fdTable' = [fdTable EXCEPT ![f] = c]
           /\ IF free = {} THEN UNCHANGED <<tableVars, watched, fault>>
              ELSE \E g \in MallocGarbage :
                     LET a == attachToSlot(slotMap[s], u, g) IN
                     /\ clients' = [clients EXCEPT ![Min(free)] =
                                      [netFd |-> f, userId |-> u, slotIndex |-> s]]
                     /\ slotMap' = [slotMap EXCEPT ![s] = a.slot]
                     /\ watched' = watched \cup {f}
                     /\ clientNum' = clientNum + 1
                     /\ fault' = a.bad
    /\ peer' = [peer EXCEPT ![c] = "idle"]
    /\ idle' = [idle EXCEPT ![c] = 0]
    /\ regular' = (regular /\ \A i \in Occupied : clients[i].userId # UserOf[c])
    /\ UNCHANGED <<timeIndex, held, main, fired, strays>>

\* epoll_wait() reports a session descriptor; the loop over clients starts.
Dispatch(f) ==
    /\ Main("wait")
    /\ f \in Ready
    /\ main' = [at |-> "dispatch", fd |-> f, from |-> 1]
    /\ UNCHANGED <<tableVars, timeIndex, fdTable, watched, held, peer, fault, history, idle>>

\* Mutant of Matches: the loop stops one entry early.
MatchesButLast == {j \in main.from .. clientNum - 1 : j \in Index /\ clients[j].netFd = main.fd}

\* The entries the loop has yet to find.
Matches == {j \in main.from .. clientNum : j \in Index /\ clients[j].netFd = main.fd}

\* Mutant of RenewTimer: the entry keeps its old slotIndex.
RenewButForget(j) ==
    LET old == clients[j].slotIndex
        new == Before(timeIndex)
        r == removeFromSlot(slotMap[old], clients[j].userId)
        without == [slotMap EXCEPT ![old] = r.slot]
        a == attachToSlot(without[new], clients[j].userId, FALSE)
    IN  /\ slotMap' = [without EXCEPT ![new] = a.slot]
        /\ fault' = (r.bad \/ a.bad)
        /\ UNCHANGED clients

\* The timer of entry j is renewed: off its old slot, onto the slot that is
\* cleared last.
RenewTimer(j) ==
    LET old == clients[j].slotIndex
        new == Before(timeIndex)
        r == removeFromSlot(slotMap[old], clients[j].userId)
        without == [slotMap EXCEPT ![old] = r.slot]
    IN  /\ \E g \in MallocGarbage :
             LET a == attachToSlot(without[new], clients[j].userId, g) IN
             /\ slotMap' = [without EXCEPT ![new] = a.slot]
             /\ fault' = (r.bad \/ a.bad)
        /\ clients' = [clients EXCEPT ![j].slotIndex = new]

\* vFinder() on connection c: exit closes the descriptor, every other command
\* is answered.
RunCommand(c) ==
    \/ /\ peer[c] = "cmd"
       /\ peer' = [peer EXCEPT ![c] = "idle"]
       /\ UNCHANGED <<fdTable, watched, regular>>
    \/ /\ peer[c] = "exit"
       /\ Close(main.fd)
       /\ regular' = FALSE

\* The loop body for the next entry with this descriptor. recvn() waits for a
\* command that has not come, and spins for ever on a descriptor that is
\* closed or whose client went away: the step is not enabled. After exit the
\* entry keeps its place and gets its timer renewed.
Serve ==
    /\ Main("dispatch")
    /\ Matches # {}
    /\ fdTable[main.fd] \in Conns
    /\ RunCommand(fdTable[main.fd])
    /\ RenewTimer(Min(Matches))
    /\ idle' = [idle EXCEPT ![fdTable[main.fd]] = 0]
    /\ main' = [main EXCEPT !.from = Min(Matches) + 1]
    /\ UNCHANGED <<clientNum, timeIndex, held, fired, strays>>

EndDispatch ==
    /\ Main("dispatch")
    /\ Matches = {}
    /\ main' = Wait
    /\ UNCHANGED <<tableVars, timeIndex, fdTable, watched, held, peer, fault, history, idle>>

\* Mutant of Advance: no wrap around the wheel.
AdvanceNoWrap ==
    /\ main' = Wait
    /\ timeIndex' = timeIndex + 1
    /\ idle' = [c \in Conns |-> IF peer'[c] \in {"new", "gone"} THEN 0
                                ELSE IF idle[c] < TIMEOUT THEN idle[c] + 1 ELSE TIMEOUT]

\* The end of a tick: the wheel moves on, every session is one tick more idle.
Advance ==
    /\ main' = Wait
    /\ timeIndex' = (timeIndex + 1) % TIMEOUT
    /\ idle' = [c \in Conns |-> IF peer'[c] \in {"new", "gone"} THEN 0
                                ELSE IF idle[c] < TIMEOUT THEN idle[c] + 1 ELSE TIMEOUT]

\* Mutant of Tick: clearSlot() stops after the first node.
TickFirstOnly ==
    /\ Main("wait")
    /\ Ready = {}
    /\ clientNum > 0
    /\ UNCHANGED <<tableVars, fdTable, watched, held, peer, history>>
    /\ LET s == slotMap[timeIndex] IN
       /\ fault' = s.freed
       /\ IF s.nodes = <<>> THEN Advance
          ELSE /\ main' = [at |-> "clear", rest |-> <<Head(s.nodes)>>]
               /\ UNCHANGED <<timeIndex, idle>>

\* epoll_wait() times out with nothing ready: clearSlot() starts on the slot
\* at timeIndex. A slot cleared one revolution ago still points to its nodes.
Tick ==
    /\ Main("wait")
    /\ Ready = {}
    /\ clientNum > 0
    /\ UNCHANGED <<tableVars, fdTable, watched, held, peer, history>>
    /\ LET s == slotMap[timeIndex] IN
       /\ fault' = s.freed
       /\ IF s.nodes = <<>> THEN Advance
          ELSE /\ main' = [at |-> "clear", rest |-> s.nodes]
               /\ UNCHANGED <<timeIndex, idle>>

\* One round of clearSlot(): delFromClients() closes and erases the first
\* entry of the node's user, the node is freed, the counter goes down. For id
\* 0 that may be an empty entry, which has it, too: close(-1) does nothing,
\* and the session keeps its entry without a timer. The head, tail and size of
\* the slot are left as they were: it is not empty, it is freed.
ClearOne ==
    /\ Main("clear")
    /\ LET mine == {i \in Index : clients[i].userId = Head(main.rest)} IN
       IF mine # {} /\ Min(mine) \in Occupied
       THEN /\ clients' = [clients EXCEPT ![Min(mine)] = Empty]
            /\ Close(clients[Min(mine)].netFd)
            /\ UNCHANGED strays
       ELSE /\ strays' = IF mine = {} THEN strays ELSE strays + 1
            /\ UNCHANGED <<clients, fdTable, watched, peer>>
    /\ clientNum' = clientNum - 1
    /\ fired' = TRUE
    /\ IF Len(main.rest) > 1
       THEN /\ main' = [main EXCEPT !.rest = Tail(@)]
            /\ UNCHANGED <<slotMap, timeIndex, idle, fault>>
       ELSE /\ slotMap' = [slotMap EXCEPT ![timeIndex] =
                                [nodes |-> <<>>, freed |-> TRUE, garbage |-> FALSE]]
            /\ fault' = slotMap[timeIndex].garbage
            /\ Advance
    /\ UNCHANGED <<held, regular>>

(***************************************************************************)
(* The clients, and the descriptors of the transfers.                      *)
(***************************************************************************)
\* A client whose connection is open sends a command or exit, or goes away.
ClientSends(c, what) ==
    /\ ~fault
    /\ peer[c] = "idle"
    /\ peer' = [peer EXCEPT ![c] = what]
    /\ UNCHANGED <<tableVars, timeIndex, fdTable, watched, held, main, fault, history, idle>>

\* main() accepts a connection on the sub port for a worker.
TransferOpen ==
    /\ Main("wait")
    /\ FreeFds # {}
    /\ Cardinality({f \in Fds : held[f] > 0}) < MaxTransfers
    /\ LET f == Min(FreeFds) IN
       /\ fdTable' = [fdTable EXCEPT ![f] = Xfer]
       /\ held' = [held EXCEPT ![f] = @ + 1]
    /\ UNCHANGED <<tableVars, timeIndex, watched, peer, main, fault, history, idle>>

\* A worker closes the descriptor it was given, whatever that is by now.
TransferClose(f) ==
    /\ ~fault
    /\ held[f] > 0
    /\ held' = [held EXCEPT ![f] = @ - 1]
    /\ Close(f)
    /\ UNCHANGED <<tableVars, timeIndex, main, fault, history, idle>>

Next == \/ \E c \in Conns : Login(c)
        \/ \E f \in Fds : Dispatch(f)
        \/ Serve
        \/ EndDispatch
        \/ Tick
        \/ ClearOne
        \/ \E c \in Conns, what \in {"cmd", "exit", "eof"} : ClientSends(c, what)
        \/ TransferOpen
        \/ \E f \in Fds : TransferClose(f)

Spec == Init /\ [][Next]_vars

(***************************************************************************)
(* main() goes on while it is not blocked in recvn(), and epoll_wait()     *)
(* reports all descriptors that are ready (up to 1000), so each of them is *)
(* dispatched in turn. Clients and time owe nothing.                       *)
(***************************************************************************)
FairSpec == /\ Spec
            /\ WF_vars(Serve \/ EndDispatch \/ ClearOne)
            /\ \A f \in Fds : SF_vars(Dispatch(f))
-----------------------------------------------------------------------------
\* Every variable holds a value of its type.
TypeOK ==
    /\ clients \in [Index -> [netFd : Fds \cup {-1}, userId : Users \cup {0},
                              slotIndex : Slots \cup {-1}]]
    /\ clientNum \in 0 .. CLIENTMAX
    /\ timeIndex \in Slots
    /\ \A s \in Slots : /\ slotMap[s].nodes \in Seq(Users)
                        /\ slotMap[s].freed \in BOOLEAN /\ slotMap[s].garbage \in BOOLEAN
    /\ fdTable \in [Fds -> Conns \cup {None, Xfer}]
    /\ watched \subseteq Fds
    /\ held \in [Fds -> Nat]
    /\ peer \in [Conns -> {"new", "idle", "cmd", "exit", "eof", "gone"}]
    /\ main.at \in {"wait", "dispatch", "clear"}
    /\ fault \in BOOLEAN /\ regular \in BOOLEAN /\ fired \in BOOLEAN /\ strays \in Nat
    /\ idle \in [Conns -> 0 .. TIMEOUT]

\* The nodes of slot s that have not been freed.
LiveNodes(s) == IF main.at = "clear" /\ s = timeIndex THEN main.rest
                ELSE IF slotMap[s].freed THEN <<>> ELSE slotMap[s].nodes

LiveTimers(u) == UNION {{s} \X {p \in DOMAIN LiveNodes(s) : LiveNodes(s)[p] = u} : s \in Slots}
EntriesOf(u) == {i \in Occupied : clients[i].userId = u}

\* clientNum counts the occupied entries, and each session has one timer: a
\* user has as many live slot nodes as entries. clearSlot decrements the
\* counter whether or not delFromClients found an entry, removeFromSlot's
\* failure is ignored, and exit leaves its entry behind: for all that, table
\* and wheel drift apart only by the times an empty entry was dropped for one
\* of id 0.
OneTimerPerSession ==
    ~fault => /\ clientNum + strays = Cardinality(Occupied)
              /\ \A u \in Users : Cardinality(LiveTimers(u)) + (IF u = 0 THEN strays ELSE 0)
                                      = Cardinality(EntriesOf(u))

\* A session of user u has lost its timer to an empty entry.
Lost(u) == u = 0 /\ strays > 0

\* While nobody has used exit and no id has two sessions, the slotIndex of an
\* entry says where its timer is, unless that is lost, and its descriptor is the
\* connection of its user: commands run under the name of the user who sent them.
EntryIsCurrent ==
    ~fault /\ regular =>
        \A i \in Occupied :
            /\ fdTable[clients[i].netFd] \in Conns
            /\ UserOf[fdTable[clients[i].netFd]] = clients[i].userId
            /\ \/ Lost(clients[i].userId)
               \/ \E p \in DOMAIN LiveNodes(clients[i].slotIndex) :
                      LiveNodes(clients[i].slotIndex)[p] = clients[i].userId
            /\ \A j \in Occupied : clients[i].netFd = clients[j].netFd => i = j

\* The connections of the clients array.
InTable == {fdTable[clients[i].netFd] : i \in Occupied} \cap Conns

\* No session outlives TIMEOUT quiet ticks, ticks in a row in which the wheel
\* turned and the client sent nothing, but one of id 0 that has lost its timer.
NeverLate == ~fault /\ regular => \A c \in InTable : idle[c] < TIMEOUT \/ Lost(UserOf[c])

\* The timer closes connections of idle sessions only: c has been quiet for
\* TIMEOUT - 1 ticks, this one included (a login starts the timer one slot
\* shorter than a command does).
ClosesOnlyIdle ==
    ClearOne => \A f \in Fds :
        fdTable[f] # None /\ fdTable'[f] = None =>
            /\ fdTable[f] \in Conns
            /\ idle[fdTable[f]] >= TIMEOUT - 2
TimerClosesOnlyIdle == [][regular => ClosesOnlyIdle]_vars

\* A command is served, unless the loop over the first clientNum entries can
\* miss its entry (a timeout has left a hole), main() waits for ever in
\* recvn(), or one of the irregular histories has begun.
Excused == fault \/ ~regular \/ \E c \in Conns : peer[c] = "eof"
Waiting(c) == peer[c] = "cmd" /\ c \in InTable
CommandServedBeforeTimeouts ==
    \A c \in Conns : Waiting(c) ~> (~Waiting(c) \/ Excused \/ fired)

\* "circular queue of slot lists" (server.h): the slots can be used again.
SlotsAreReusable == ~fault
=============================================================================
