------------------------------ MODULE TaskPool ------------------------------
(***************************************************************************)
(* What the server's thread pool promises the clients that connect to the  *)
(* sub port, with no list nodes, mutex, condition variable or exit pipe in *)
(* sight: transfer connections are served first come first served, each of *)
(* them by one worker, and each is closed once.                            *)
(***************************************************************************)
EXTENDS Sequences, FiniteSets

CONSTANTS Workers,   \* the threads of threadPool_t.tid
          Tasks,     \* the connections accepted on the sub port
          None       \* "no task", not a member of Tasks

VARIABLES incoming,  \* connections not yet handed to the pool
          queue,     \* the tasks that wait, oldest first
          serving,   \* serving[w]: the task worker w handles, or None
          closed     \* connections the server has closed

absVars == <<incoming, queue, serving, closed>>

Init == /\ incoming = Tasks
        /\ queue = <<>>
        /\ serving = [w \in Workers |-> None]
        /\ closed = {}

\* The token of t is refused: t is closed without entering the pool.
Reject(t) == /\ t \in incoming
             /\ incoming' = incoming \ {t}
             /\ closed' = closed \cup {t}
             /\ UNCHANGED <<queue, serving>>

\* t joins the end of the queue.
Submit(t) == /\ t \in incoming
             /\ incoming' = incoming \ {t}
             /\ queue' = Append(queue, t)
             /\ UNCHANGED <<serving, closed>>

\* An idle worker takes the oldest task.
Take(w) == /\ serving[w] = None
           /\ queue # <<>>
           /\ serving' = [serving EXCEPT ![w] = Head(queue)]
           /\ queue' = Tail(queue)
           /\ UNCHANGED <<incoming, closed>>

\* Worker w has handled its task and closes the connection.
Finish(w) == /\ serving[w] # None
             /\ closed' = closed \cup {serving[w]}
             /\ serving' = [serving EXCEPT ![w] = None]
             /\ UNCHANGED <<incoming, queue>>

Next == \/ \E t \in Tasks : Reject(t) \/ Submit(t)
        \/ \E w \in Workers : Take(w) \/ Finish(w)

Spec == Init /\ [][Next]_absVars
=============================================================================
