----------------------------- MODULE ThreadPool -----------------------------
(***************************************************************************)
(* The thread pool of the server: the queue of task_t nodes, its mutex and *)
(* condition variable, the workers of worker.c and the two branches of     *)
(* main() in server.c that touch the pool (a connection on the sub port,   *)
(* a byte on the exit pipe).                                               *)
(*                                                                         *)
(* A step of a worker runs from one point where another thread can act to  *)
(* the next one: the program counter names the point.                      *)
(*   lock     wants the mutex, at the top of the loop or inside            *)
(*            pthread_cond_wait after a wake-up                            *)
(*   check    holds it, evaluates size == 0 && exitFlag == 0               *)
(*   sleep    holds it, about to call pthread_cond_wait                    *)
(*   blocked  waits on the condition variable, mutex released              *)
(*   test     holds it, left the while, about to test exitFlag             *)
(*   work     handles a task, no mutex                                     *)
(*   dead     left through pthread_exit                                    *)
(***************************************************************************)
EXTENDS Integers, Sequences, FiniteSets

CONSTANTS Workers,   \* threadPool_t.tid[0 .. threadNum - 1]
          Tasks,     \* the connections accepted on the sub port
          Nodes,     \* the addresses calloc can return for a task_t
          Stuck,     \* tasks whose client goes away: recvn() spins for ever
          NULL,      \* the null pointer
          None       \* "no task", "no thread"

ASSUME WorkersFinite == IsFiniteSet(Workers)
ASSUME StuckTasks == Stuck \subseteq Tasks
ASSUME NullIsNoNode == NULL \notin Nodes
ASSUME NoneIsNobody == None \notin Workers /\ None \notin Tasks

VARIABLES heap,      \* heap[n]: the contents of the task_t at address n
          live,      \* the addresses calloc returned and free has not taken back
          pFront, pRear, size,   \* taskQueue_t
          exitFlag,  \* threadPool_t.exitFlag
          mutex,     \* the worker that holds taskQueue.mutex, or None
          pc,        \* pc[w]: where worker w is
          job,       \* job[w]: the task w copied out of the front node, or None
          mainPc,    \* where main() is: loop, submit, broadcast, join or gone
          pending,   \* the connection main() is about to enqueue, or None
          incoming,  \* connections the sub port has yet to accept
          closed,    \* connections the server has closed
          order      \* history variable: the nodes enqueued and not dequeued

queueVars == <<heap, live, pFront, pRear, size, order>>
connVars  == <<pending, incoming, closed>>
vars == <<queueVars, exitFlag, mutex, pc, job, mainPc, connVars>>

Holding == {"check", "sleep", "test"}   \* where a worker holds the mutex
Awake   == {w \in Workers : pc[w] \in {"lock", "check", "test"}}
Blocked == {w \in Workers : pc[w] = "blocked"}

\* threadPoolInit() and makeWorker(): an empty queue, every worker started.
Init == /\ heap = [n \in Nodes |-> [task |-> None, pNext |-> NULL]]
        /\ live = {}
        /\ pFront = NULL /\ pRear = NULL /\ size = 0
        /\ exitFlag = 0
        /\ mutex = None
        /\ pc = [w \in Workers |-> "lock"]
        /\ job = [w \in Workers |-> None]
        /\ mainPc = "loop"
        /\ pending = None /\ incoming = Tasks /\ closed = {}
        /\ order = <<>>

(***************************************************************************)
(* The queue.                                                              *)
(***************************************************************************)
\* Mutants of taskEnqueue: malloc() where the code calls calloc(), the old rear
\* node not linked to the new one, the new node put at the front.
EnqueueWith(n, t, newHeap, front, newOrder) ==
    /\ n \in Nodes \ live
    /\ heap' = newHeap
    /\ live' = live \cup {n}
    /\ pFront' = front
    /\ pRear' = IF front = n /\ size > 0 THEN pRear ELSE n
    /\ size' = size + 1
    /\ order' = newOrder
EnqueueMalloc(n, t) ==
    EnqueueWith(n, t, [heap EXCEPT ![n] = [task |-> t, pNext |-> None]],
                IF size = 0 THEN n ELSE pFront, Append(order, n))
EnqueueNoLink(n, t) ==
    EnqueueWith(n, t, [heap EXCEPT ![n] = [task |-> t, pNext |-> NULL]],
                IF size = 0 THEN n ELSE pFront, Append(order, n))
EnqueueFront(n, t) ==
    EnqueueWith(n, t, [heap EXCEPT ![n] = [task |-> t, pNext |-> pFront]],
                n, <<n>> \o order)

\* taskEnqueue(): a zeroed node at a free address n becomes the rear.
taskEnqueue(n, t) ==
    /\ n \in Nodes \ live
    /\ heap' = LET filled == [heap EXCEPT ![n] = [task |-> t, pNext |-> NULL]]
               IN  IF size = 0 THEN filled
                   ELSE [filled EXCEPT ![pRear].pNext = n]
    /\ live' = live \cup {n}
    /\ pFront' = IF size = 0 THEN n ELSE pFront
    /\ pRear' = n
    /\ size' = size + 1
    /\ order' = Append(order, n)

\* taskDequeue(): the front node is unlinked and freed. pRear is left alone,
\* so it dangles when the queue becomes empty.
taskDequeue ==
    /\ pFront' = heap[pFront].pNext
    /\ live' = live \ {pFront}
    /\ size' = size - 1
    /\ order' = Tail(order)
    /\ UNCHANGED <<heap, pRear>>

(***************************************************************************)
(* The main thread.                                                        *)
(***************************************************************************)
\* A connection on the sub port whose token is refused: closed at once.
MainReject(t) ==
    /\ mainPc = "loop"
    /\ t \in incoming
    /\ incoming' = incoming \ {t}
    /\ closed' = closed \cup {t}
    /\ UNCHANGED <<queueVars, exitFlag, mutex, pc, job, mainPc, pending>>

\* A connection whose token is accepted: main() goes for the mutex.
MainAccept(t) ==
    /\ mainPc = "loop"
    /\ t \in incoming
    /\ incoming' = incoming \ {t}
    /\ pending' = t
    /\ mainPc' = "submit"
    /\ UNCHANGED <<queueVars, exitFlag, mutex, pc, job, closed>>

\* Mutants of Signal: no signal at all, a signal for an empty queue only.
SignalNever == UNCHANGED pc
SignalIfEmpty ==
    IF Blocked = {} \/ size > 0 THEN UNCHANGED pc
    ELSE \E w \in Blocked : pc' = [pc EXCEPT ![w] = "lock"]

\* pthread_cond_signal(): one blocked worker, if any, goes for the mutex.
Signal == IF Blocked = {} THEN UNCHANGED pc
          ELSE \E w \in Blocked : pc' = [pc EXCEPT ![w] = "lock"]

\* The critical section of main(): lock, taskEnqueue, signal, unlock. Every
\* other access to the queue is made under the mutex, so it is one step.
MainEnqueue ==
    /\ mainPc = "submit"
    /\ mutex = None
    /\ \E n \in Nodes : taskEnqueue(n, pending)
    /\ Signal
    /\ pending' = None
    /\ mainPc' = "loop"
    /\ UNCHANGED <<exitFlag, mutex, job, incoming, closed>>

\* A byte on the exit pipe: the flag is set with no lock held ...
MainExit ==
    /\ mainPc = "loop"
    /\ exitFlag' = 1
    /\ mainPc' = "broadcast"
    /\ UNCHANGED <<queueVars, mutex, pc, job, connVars>>

\* Mutant of MainBroadcast: pthread_cond_signal() instead of a broadcast.
MainSignalOnce ==
    /\ mainPc = "broadcast"
    /\ Signal
    /\ mainPc' = "join"
    /\ UNCHANGED <<queueVars, exitFlag, mutex, job, connVars>>

\* ... then the workers blocked at that moment are woken ...
MainBroadcast ==
    /\ mainPc = "broadcast"
    /\ pc' = [w \in Workers |-> IF pc[w] = "blocked" THEN "lock" ELSE pc[w]]
    /\ mainPc' = "join"
    /\ UNCHANGED <<queueVars, exitFlag, mutex, job, connVars>>

\* ... and joined; then the main thread leaves too.
MainJoin ==
    /\ mainPc = "join"
    /\ \A w \in Workers : pc[w] = "dead"
    /\ mainPc' = "gone"
    /\ UNCHANGED <<queueVars, exitFlag, mutex, pc, job, connVars>>

(***************************************************************************)
(* A worker: handEvent().                                                  *)
(***************************************************************************)
Goto(w, at) == pc' = [pc EXCEPT ![w] = at]

WLock(w) ==
    /\ pc[w] = "lock"
    /\ mutex = None
    /\ mutex' = w
    /\ Goto(w, "check")
    /\ UNCHANGED <<queueVars, exitFlag, job, mainPc, connVars>>

\* Mutant of WCheck: if where the code has while.
WCheckNoLoop(w) ==
    /\ pc[w] = "check"
    /\ Goto(w, "test")
    /\ UNCHANGED <<queueVars, exitFlag, mutex, job, mainPc, connVars>>

WCheck(w) ==
    /\ pc[w] = "check"
    /\ Goto(w, IF size = 0 /\ exitFlag = 0 THEN "sleep" ELSE "test")
    /\ UNCHANGED <<queueVars, exitFlag, mutex, job, mainPc, connVars>>

\* pthread_cond_wait(): releases the mutex and blocks, atomically.
WSleep(w) ==
    /\ pc[w] = "sleep"
    /\ mutex' = None
    /\ Goto(w, "blocked")
    /\ UNCHANGED <<queueVars, exitFlag, job, mainPc, connVars>>

\* POSIX lets pthread_cond_wait return with no signal.
SpuriousWake(w) ==
    /\ pc[w] = "blocked"
    /\ Goto(w, "lock")
    /\ UNCHANGED <<queueVars, exitFlag, mutex, job, mainPc, connVars>>

\* Mutant of WExit: no cleanup handler.
WExitKeepsMutex(w) ==
    /\ pc[w] = "test"
    /\ exitFlag = 1
    /\ Goto(w, "dead")
    /\ UNCHANGED <<queueVars, exitFlag, mutex, job, mainPc, connVars>>

\* pthread_exit() runs cleanFunc(), which unlocks the mutex.
WExit(w) ==
    /\ pc[w] = "test"
    /\ exitFlag = 1
    /\ mutex' = None
    /\ Goto(w, "dead")
    /\ UNCHANGED <<queueVars, exitFlag, job, mainPc, connVars>>

\* The front node is copied and dequeued; pthread_cleanup_pop(1) unlocks.
WTake(w) ==
    /\ pc[w] = "test"
    /\ exitFlag = 0
    /\ job' = [job EXCEPT ![w] = heap[pFront].task]
    /\ taskDequeue
    /\ mutex' = None
    /\ Goto(w, "work")
    /\ UNCHANGED <<exitFlag, mainPc, connVars>>

\* The GETS or PUTS exchange ends and close(netFd) runs. A client that went
\* away never lets it end: recvn() loops on a return value of 0.
WFinish(w) ==
    /\ pc[w] = "work"
    /\ job[w] \notin Stuck
    /\ closed' = closed \cup {job[w]}
    /\ job' = [job EXCEPT ![w] = None]
    /\ Goto(w, "lock")
    /\ UNCHANGED <<queueVars, exitFlag, mutex, mainPc, pending, incoming>>

MainStep == \/ \E t \in Tasks : MainReject(t) \/ MainAccept(t)
            \/ MainEnqueue \/ MainExit \/ MainBroadcast \/ MainJoin

\* The steps a worker takes of its own accord.
WorkerStep(w) == \/ WLock(w) \/ WCheck(w) \/ WSleep(w)
                 \/ WExit(w) \/ WTake(w) \/ WFinish(w)

Next == MainStep \/ \E w \in Workers : WorkerStep(w) \/ SpuriousWake(w)

Spec == Init /\ [][Next]_vars

(***************************************************************************)
(* A thread that can run is run by the kernel, and a mutex that is free    *)
(* again and again is granted at some point to a main() that waits for it. *)
(* Nobody has to connect or to signal the server.                          *)
(***************************************************************************)
Fairness == /\ \A w \in Workers : WF_vars(WorkerStep(w))
            /\ SF_vars(MainEnqueue)
            /\ WF_vars(MainBroadcast) /\ WF_vars(MainJoin)

FairSpec == Spec /\ Fairness
-----------------------------------------------------------------------------
(***************************************************************************)
(* Properties.                                                             *)
(***************************************************************************)
PCs == {"lock", "check", "sleep", "blocked", "test", "work", "dead"}

\* Every variable holds a value of its type.
TypeOK ==
    /\ heap \in [Nodes -> [task : Tasks \cup {None}, pNext : Nodes \cup {NULL}]]
    /\ live \subseteq Nodes
    /\ pFront \in Nodes \cup {NULL}
    /\ pRear \in Nodes \cup {NULL}
    /\ size \in Nat
    /\ exitFlag \in {0, 1}
    /\ mutex \in Workers \cup {None}
    /\ pc \in [Workers -> PCs]
    /\ job \in [Workers -> Tasks \cup {None}]
    /\ mainPc \in {"loop", "submit", "broadcast", "join", "gone"}
    /\ pending \in Tasks \cup {None}
    /\ incoming \subseteq Tasks
    /\ closed \subseteq Tasks
    /\ order \in Seq(Nodes)

\* The list of taskEnqueue and taskDequeue stays well linked: from pFront the
\* pNext pointers lead through the enqueued nodes in order to pRear, all of
\* them allocated, and the counter is their number. A node that calloc hands
\* out again, or the dangling pRear of an empty queue, never breaks it.
QueueLinked ==
    /\ size = Len(order)
    /\ size = 0 => pFront = NULL
    /\ size > 0 => pFront = order[1] /\ pRear = order[size]
    /\ size > 0 => heap[pRear].pNext = NULL
    /\ \A i \in 1 .. size - 1 : heap[order[i]].pNext = order[i + 1]
    /\ \A i, j \in 1 .. size : order[i] = order[j] => i = j
    /\ live = {order[i] : i \in 1 .. size}

\* The mutex is held exactly by the worker that is inside the critical section
\* of handEvent: a worker that leaves through pthread_exit, that sleeps or
\* that serves a client holds nothing.
MutexInv == \A w \in Workers : pc[w] \in Holding <=> mutex = w

\* A worker that leaves the while loop and is not told to exit finds a task at
\* pFront, and the node has not been freed: a wake-up that was spurious, or
\* whose task another worker took, never makes it read through NULL.
TakeFindsTask ==
    \A w \in Workers :
        pc[w] = "test" /\ exitFlag = 0 =>
            pFront \in live /\ heap[pFront].task \in Tasks

\* No lost wake-up while the server runs: as long as a worker sleeps on the
\* condition variable, every queued task has a worker that is awake and on its
\* way to it (pthread_cond_signal in server.c is sent once per task).
NoSleeperWhileWork ==
    exitFlag = 0 /\ Blocked # {} => size <= Cardinality(Awake)

\* The pool keeps the promise of TaskPool: first come first served, each task
\* taken by one worker, each connection closed once.
Abs == INSTANCE TaskPool
           WITH incoming <- incoming \cup ({pending} \ {None}),
                queue <- [i \in 1 .. Len(order) |-> heap[order[i]].task],
                serving <- job
PoolRefinesTaskPool == Abs!Spec

\* While fewer clients than workers have gone away in mid transfer, a connection
\* that main() has accepted is queued and taken by a worker, unless it is turned
\* away or the server is told to exit first: nobody who sleeps, serves or has
\* died keeps the mutex that main() waits for, and no queued task is forgotten.
Queued(t) == \E i \in 1 .. Len(order) : heap[order[i]].task = t
AcceptedTaskTaken ==
    \A t \in Tasks :
        pending = t \/ Queued(t)
            ~> (\E w \in Workers : job[w] = t) \/ t \in closed \/ exitFlag = 1

\* The exit completes when exitFlag is set at a moment when no worker stands
\* between the test of exitFlag and pthread_cond_wait, and no worker is kept
\* by a client that has gone away: nobody else keeps pthread_join waiting.
ExitCompletesIfNoneFallsAsleep ==
    (mainPc = "broadcast" /\ \A w \in Workers : pc[w] # "sleep")
        ~> (mainPc = "gone" \/ \E w \in Workers : job[w] \in Stuck)

\* What server.c announces: after the byte on the exit pipe the pool dies and
\* the process ends.
ExitCompletes == exitFlag = 1 ~> mainPc = "gone"
=============================================================================
