-------------------------- MODULE ThreadPoolProofs --------------------------
(***************************************************************************)
(* Proofs about ThreadPool, for any finite set of workers and any sets of  *)
(* connections and addresses: the inductive invariant, the safety          *)
(* invariants it implies, and that the pool implements TaskPool.           *)
(***************************************************************************)
EXTENDS ThreadPool, FiniteSetTheorems, SequenceTheorems, TLAPS

(***************************************************************************)
(* The inductive invariant. To the checked invariants it adds what each    *)
(* program counter knows about the queue and the connections.              *)
(***************************************************************************)
\* Nothing enters the queue between a worker's test of size and its wait.
SleepInv == \A w \in Workers : pc[w] = "sleep" => size = 0

\* Nothing leaves the queue between a worker's test of size and its dequeue.
TestInv == \A w \in Workers : pc[w] = "test" /\ exitFlag = 0 => size > 0

NodesHoldTasks == \A n \in live : heap[n].task \in Tasks

\* A worker has a job exactly while it works, main() a connection to enqueue
\* exactly while it goes for the mutex; that one is not accepted again.
JobInv == /\ \A w \in Workers : pc[w] = "work" <=> job[w] # None
          /\ mainPc = "submit" <=> pending # None
          /\ pending \notin incoming

IInv == /\ TypeOK
        /\ QueueLinked
        /\ MutexInv
        /\ SleepInv
        /\ TestInv
        /\ NodesHoldTasks
        /\ JobInv
        /\ NoSleeperWhileWork

(***************************************************************************)
(* The two queue operations.                                               *)
(***************************************************************************)
\* taskEnqueue puts a well linked node at the end of a well linked list.
LEMMA EnqueueLinks ==
    ASSUME TypeOK, QueueLinked, NodesHoldTasks,
           NEW n \in Nodes, NEW t \in Tasks, taskEnqueue(n, t)
    PROVE  /\ heap' \in [Nodes -> [task : Tasks \cup {None}, pNext : Nodes \cup {NULL}]]
           /\ live' \subseteq Nodes
           /\ pFront' \in Nodes /\ pRear' \in Nodes
           /\ size' = size + 1
           /\ order' \in Seq(Nodes)
           /\ QueueLinked'
           /\ NodesHoldTasks'
<1>1. /\ n \in Nodes \ live
      /\ live' = live \cup {n}
      /\ pFront' = IF size = 0 THEN n ELSE pFront
      /\ pRear' = n
      /\ size' = size + 1
      /\ order' = Append(order, n)
  BY DEF taskEnqueue
<1>2. /\ size = Len(order) /\ size \in Nat /\ order \in Seq(Nodes)
      /\ \A i \in 1 .. size : order[i] \in live /\ order[i] \in Nodes
      /\ \A i \in 1 .. size : order[i] # n
  <2>1. size = Len(order) /\ size \in Nat /\ order \in Seq(Nodes) /\ live \subseteq Nodes
    BY DEF TypeOK, QueueLinked
  <2>2. live = {order[i] : i \in 1 .. size}
    BY DEF QueueLinked
  <2>3. \A i \in 1 .. size : order[i] \in live
    BY <2>2
  <2> QED BY <1>1, <2>1, <2>3
<1>3. size > 0 => pRear = order[size] /\ pRear \in Nodes /\ pRear # n
  BY <1>2 DEF QueueLinked
<1>4. /\ size = 0 => heap' = [heap EXCEPT ![n] = [task |-> t, pNext |-> NULL]]
      /\ size > 0 => heap' = [[heap EXCEPT ![n] = [task |-> t, pNext |-> NULL]]
                                    EXCEPT ![pRear].pNext = n]
  BY <1>2 DEF taskEnqueue
<1>5. /\ heap' \in [Nodes -> [task : Tasks \cup {None}, pNext : Nodes \cup {NULL}]]
      /\ heap'[n] = [task |-> t, pNext |-> NULL]
      /\ \A m \in Nodes \ {n} : heap'[m].task = heap[m].task
      /\ \A m \in Nodes \ {n} : size > 0 /\ m = pRear => heap'[m].pNext = n
      /\ \A m \in Nodes \ {n} : m # pRear => heap'[m].pNext = heap[m].pNext
  <2>1. CASE size = 0
    BY <2>1, <1>4 DEF TypeOK
  <2>2. CASE size > 0
    <3> DEFINE filled == [heap EXCEPT ![n] = [task |-> t, pNext |-> NULL]]
    <3>1. /\ filled \in [Nodes -> [task : Tasks \cup {None}, pNext : Nodes \cup {NULL}]]
          /\ filled[n] = [task |-> t, pNext |-> NULL]
          /\ \A m \in Nodes \ {n} : filled[m] = heap[m]
      BY DEF TypeOK
    <3>2. heap' = [filled EXCEPT ![pRear].pNext = n]
      BY <2>2, <1>4
    <3> HIDE DEF filled
    <3>3. heap' = [filled EXCEPT ![pRear] = [filled[pRear] EXCEPT !.pNext = n]]
      BY <3>2
    <3>4. [filled[pRear] EXCEPT !.pNext = n] = [task |-> filled[pRear].task, pNext |-> n]
      BY <3>1, <2>2, <1>3
    <3>5. /\ heap' \in [Nodes -> [task : Tasks \cup {None}, pNext : Nodes \cup {NULL}]]
          /\ heap'[pRear] = [task |-> filled[pRear].task, pNext |-> n]
          /\ \A m \in Nodes \ {pRear} : heap'[m] = filled[m]
      BY <3>1, <3>3, <3>4, <2>2, <1>3
    <3> QED BY <3>1, <3>5, <2>2, <1>3
  <2> QED BY <2>1, <2>2, <1>2
<1>6. order' \in Seq(Nodes) /\ Len(order') = size + 1
  BY <1>1, <1>2
<1>7. /\ order'[size + 1] = n
      /\ \A i \in 1 .. size : order'[i] = order[i]
  BY <1>1, <1>2
<1>8. QueueLinked'
  <2>1. size' = Len(order') /\ size' > 0
    BY <1>1, <1>2, <1>6
  <2>2. pFront' = order'[1] /\ pRear' = order'[size']
    <3>1. CASE size = 0
      BY <3>1, <1>1, <1>7
    <3>2. CASE size > 0
      BY <3>2, <1>1, <1>2, <1>7 DEF QueueLinked
    <3> QED BY <3>1, <3>2, <1>2
  <2>3. heap'[pRear'].pNext = NULL
    BY <1>1, <1>5
  <2>4. \A i \in 1 .. size' - 1 : heap'[order'[i]].pNext = order'[i + 1]
    <3> SUFFICES ASSUME NEW i \in 1 .. size
                 PROVE  heap'[order'[i]].pNext = order'[i + 1]
      BY <1>1, <1>2
    <3>1. order'[i] = order[i] /\ order[i] \in Nodes \ {n}
      BY <1>2, <1>7
    <3>2. CASE i = size
      BY <3>1, <3>2, <1>2, <1>3, <1>5, <1>7
    <3>3. CASE i # size
      <4>1. i \in 1 .. size - 1 /\ i + 1 \in 1 .. size
        BY <3>3, <1>2
      <4>2. order[i] # pRear
        BY <4>1, <1>2, <1>3 DEF QueueLinked
      <4>3. heap[order[i]].pNext = order[i + 1]
        BY <4>1 DEF QueueLinked
      <4> QED BY <4>1, <4>2, <4>3, <3>1, <1>5, <1>7
    <3> QED BY <3>2, <3>3
  <2>5. \A i, j \in 1 .. size' : order'[i] = order'[j] => i = j
    <3>1. ASSUME NEW i \in 1 .. size, NEW j \in 1 .. size, order[i] = order[j]
          PROVE  i = j
      BY <3>1 DEF QueueLinked
    <3>2. 1 .. size' = (1 .. size) \cup {size + 1}
      BY <1>1, <1>2
    <3> QED BY <3>1, <3>2, <1>2, <1>7
  <2>6. live' = {order'[i] : i \in 1 .. size'}
    <3>1. 1 .. size' = (1 .. size) \cup {size + 1}
      BY <1>1, <1>2
    <3>2. live = {order[i] : i \in 1 .. size}
      BY DEF QueueLinked
    <3>3. \A m \in live : \E i \in 1 .. size' : m = order'[i]
      BY <3>1, <3>2, <1>7
    <3>4. \A i \in 1 .. size : order'[i] \in live
      BY <3>2, <1>7
    <3> QED BY <3>1, <3>3, <3>4, <1>1, <1>7
  <2> QED BY <2>1, <2>2, <2>3, <2>4, <2>5, <2>6 DEF QueueLinked
<1>9. NodesHoldTasks'
  BY <1>1, <1>5 DEF NodesHoldTasks, TypeOK
<1>10. pFront' \in Nodes /\ live' \subseteq Nodes
  BY <1>1, <1>2 DEF QueueLinked, TypeOK
<1> QED BY <1>1, <1>5, <1>6, <1>8, <1>9, <1>10

\* taskDequeue unlinks the first node of a list that is not empty.
LEMMA DequeueLinks ==
    ASSUME TypeOK, QueueLinked, NodesHoldTasks, size > 0, taskDequeue
    PROVE  /\ heap' = heap
           /\ live' \subseteq Nodes
           /\ pFront' \in Nodes \cup {NULL} /\ pRear' = pRear
           /\ size' = size - 1 /\ size' \in Nat
           /\ order' \in Seq(Nodes)
           /\ QueueLinked'
           /\ NodesHoldTasks'
           /\ pFront \in live
<1>1. /\ pFront' = heap[pFront].pNext
      /\ live' = live \ {pFront}
      /\ size' = size - 1
      /\ order' = Tail(order)
      /\ heap' = heap /\ pRear' = pRear
  BY DEF taskDequeue
<1>2. /\ size = Len(order) /\ size \in Nat /\ order \in Seq(Nodes)
      /\ \A i \in 1 .. size : order[i] \in live /\ order[i] \in Nodes
      /\ pFront = order[1]
  BY DEF TypeOK, QueueLinked
<1>3. /\ order' \in Seq(Nodes) /\ Len(order') = size'
      /\ \A i \in 1 .. size' : order'[i] = order[i + 1]
  BY <1>1, <1>2
<1>4. size' = 0 => pFront' = NULL
  BY <1>1, <1>2 DEF QueueLinked
<1>5. size' > 0 => pFront' = order'[1] /\ pRear' = order'[size']
  <2>1. ASSUME size' > 0 PROVE pFront' = order'[1]
    BY <2>1, <1>1, <1>2, <1>3 DEF QueueLinked
  <2>2. ASSUME size' > 0 PROVE pRear' = order'[size']
    BY <2>2, <1>1, <1>2, <1>3 DEF QueueLinked
  <2> QED BY <2>1, <2>2
<1>6. size' > 0 => heap'[pRear'].pNext = NULL
  BY <1>1, <1>2 DEF QueueLinked
<1>7. \A i \in 1 .. size' - 1 : heap'[order'[i]].pNext = order'[i + 1]
  BY <1>1, <1>2, <1>3 DEF QueueLinked
<1>8. \A i, j \in 1 .. size' : order'[i] = order'[j] => i = j
  <2> SUFFICES ASSUME NEW i \in 1 .. size', NEW j \in 1 .. size',
                      order'[i] = order'[j]
               PROVE  i = j
    OBVIOUS
  <2>1. i + 1 \in 1 .. size /\ j + 1 \in 1 .. size /\ order[i + 1] = order[j + 1]
    BY <1>1, <1>2, <1>3
  <2>2. i + 1 = j + 1
    BY <2>1 DEF QueueLinked
  <2> QED BY <2>2
<1>9. live' = {order'[i] : i \in 1 .. size'}
  <2>1. ASSUME NEW n \in live' PROVE \E i \in 1 .. size' : n = order'[i]
    <3>1. PICK j \in 1 .. size : n = order[j]
      BY <2>1, <1>1 DEF QueueLinked
    <3>2. j # 1
      BY <3>1, <2>1, <1>1, <1>2
    <3>3. j - 1 \in 1 .. size' /\ order'[j - 1] = order[(j - 1) + 1]
      BY <3>1, <3>2, <1>1, <1>2, <1>3
    <3> QED BY <3>1, <3>3, <1>2
  <2>2. ASSUME NEW i \in 1 .. size' PROVE order'[i] \in live'
    <3>1. i + 1 \in 1 .. size /\ i + 1 # 1 /\ 1 \in 1 .. size
      BY <1>1, <1>2
    <3>2. order[i + 1] # order[1]
      BY <3>1 DEF QueueLinked
    <3> QED BY <3>1, <3>2, <1>1, <1>2, <1>3
  <2> QED BY <2>1, <2>2
<1>10. QueueLinked'
  BY <1>3, <1>4, <1>5, <1>6, <1>7, <1>8, <1>9 DEF QueueLinked
<1>11. NodesHoldTasks'
  BY <1>1 DEF NodesHoldTasks
<1>12. /\ pFront \in live /\ pFront' \in Nodes \cup {NULL}
       /\ live' \subseteq Nodes /\ size' \in Nat
  BY <1>1, <1>2 DEF TypeOK
<1> QED BY <1>1, <1>3, <1>10, <1>11, <1>12

(***************************************************************************)
(* How the set of awake workers changes.                                   *)
(***************************************************************************)
LEMMA AwakeFinite == IsFiniteSet(Awake) /\ Cardinality(Awake) \in Nat
BY WorkersFinite, FS_Subset, FS_CardinalityType DEF Awake

\* A worker that goes for the mutex, from the wait or from a finished task.
LEMMA AwakeGrows ==
    ASSUME TypeOK, NEW w \in Workers, pc[w] \in {"blocked", "work"},
           pc' = [pc EXCEPT ![w] = "lock"]
    PROVE  Cardinality(Awake') = Cardinality(Awake) + 1
<1>1. Awake' = Awake \cup {w} /\ w \notin Awake
  BY DEF Awake, TypeOK
<1> QED BY <1>1, AwakeFinite, FS_AddElement

\* A worker that takes a task.
LEMMA AwakeShrinks ==
    ASSUME TypeOK, NEW w \in Workers, pc[w] = "test",
           pc' = [pc EXCEPT ![w] = "work"]
    PROVE  Cardinality(Awake') = Cardinality(Awake) - 1
<1>1. Awake' = Awake \ {w} /\ w \in Awake
  BY DEF Awake, TypeOK
<1> QED BY <1>1, AwakeFinite, FS_RemoveElement

-----------------------------------------------------------------------------
LEMMA InitIInv == Init => IInv
<1> SUFFICES ASSUME Init PROVE IInv
  OBVIOUS
<1> USE NoneIsNobody, NullIsNoNode DEF Init
<1>1. TypeOK
  BY DEF TypeOK, PCs
<1>2. QueueLinked
  BY DEF QueueLinked
<1>3. MutexInv /\ SleepInv /\ TestInv /\ NodesHoldTasks /\ JobInv
  BY DEF MutexInv, SleepInv, TestInv, NodesHoldTasks, JobInv, Holding
<1>4. NoSleeperWhileWork
  BY DEF NoSleeperWhileWork, Blocked
<1> QED BY <1>1, <1>2, <1>3, <1>4 DEF IInv

\* The steps of the main thread.
LEMMA MainKeepsIInv == IInv /\ MainStep => IInv'
<1> SUFFICES ASSUME IInv, MainStep PROVE IInv'
  OBVIOUS
<1> USE NoneIsNobody, NullIsNoNode
<1>0. TypeOK /\ QueueLinked /\ NodesHoldTasks
  BY DEF IInv
<1>1. ASSUME NEW t \in Tasks, MainReject(t) PROVE IInv'
  <2>1. TypeOK'
    BY <1>0, <1>1 DEF TypeOK, MainReject, queueVars
  <2>2. QueueLinked'
    BY <1>0, <1>1 DEF QueueLinked, MainReject, queueVars
  <2> QED
    BY <2>1, <2>2, <1>1 DEF IInv, MainReject, queueVars, MutexInv, SleepInv, TestInv,
       NodesHoldTasks, JobInv, NoSleeperWhileWork, Awake, Blocked
<1>2. ASSUME NEW t \in Tasks, MainAccept(t) PROVE IInv'
  <2>1. TypeOK'
    BY <1>0, <1>2 DEF TypeOK, MainAccept, queueVars
  <2>2. QueueLinked'
    BY <1>0, <1>2 DEF QueueLinked, MainAccept, queueVars
  <2>3. JobInv'
    BY <1>2 DEF IInv, JobInv, MainAccept
  <2> QED
    BY <2>1, <2>2, <2>3, <1>2 DEF IInv, MainAccept, queueVars, MutexInv, SleepInv, TestInv,
       NodesHoldTasks, NoSleeperWhileWork, Awake, Blocked
<1>3. CASE MainEnqueue
  <2>1. PICK n \in Nodes : taskEnqueue(n, pending)
    BY <1>3 DEF MainEnqueue
  <2>2. pending \in Tasks
    BY <1>3 DEF MainEnqueue, IInv, JobInv, TypeOK
  <2>3. /\ heap' \in [Nodes -> [task : Tasks \cup {None}, pNext : Nodes \cup {NULL}]]
        /\ live' \subseteq Nodes
        /\ pFront' \in Nodes /\ pRear' \in Nodes
        /\ size' = size + 1
        /\ order' \in Seq(Nodes)
        /\ QueueLinked'
        /\ NodesHoldTasks'
    BY <1>0, <2>1, <2>2, EnqueueLinks
  <2>4. Signal /\ mutex = None /\ mutex' = None /\ mainPc' = "loop" /\ pending' = None
        /\ UNCHANGED <<exitFlag, job, incoming, closed>>
    BY <1>3 DEF MainEnqueue
  <2>5. /\ pc' \in [Workers -> PCs]
        /\ \A w \in Workers : pc'[w] = pc[w] \/ (pc[w] = "blocked" /\ pc'[w] = "lock")
    BY <1>0, <2>4 DEF Signal, Blocked, TypeOK, PCs
  <2>6. TypeOK'
    BY <1>0, <2>3, <2>4, <2>5 DEF TypeOK
  <2>7. MutexInv' /\ SleepInv' /\ TestInv'
    BY <2>3, <2>4, <2>5, <1>0 DEF IInv, MutexInv, SleepInv, TestInv, Holding, TypeOK
  <2>8. JobInv'
    BY <2>2, <2>4, <2>5, <1>0 DEF IInv, JobInv, TypeOK
  <2>9. NoSleeperWhileWork'
    <3>1. CASE Blocked = {}
      BY <3>1, <2>4 DEF Signal, Blocked, NoSleeperWhileWork
    <3>2. CASE Blocked # {}
      <4>1. PICK w \in Blocked : pc' = [pc EXCEPT ![w] = "lock"]
        BY <3>2, <2>4 DEF Signal
      <4>2. Cardinality(Awake') = Cardinality(Awake) + 1
        BY <4>1, <1>0, AwakeGrows DEF Blocked
      <4> QED
        BY <3>2, <4>2, <2>3, <2>4, <1>0, AwakeFinite DEF IInv, NoSleeperWhileWork, TypeOK
    <3> QED BY <3>1, <3>2
  <2> QED BY <2>3, <2>6, <2>7, <2>8, <2>9 DEF IInv
<1>4. CASE MainExit
  <2>1. TypeOK'
    BY <1>0, <1>4 DEF TypeOK, MainExit, queueVars, connVars
  <2>2. QueueLinked'
    BY <1>0, <1>4 DEF QueueLinked, MainExit, queueVars
  <2>3. JobInv'
    BY <1>4 DEF IInv, JobInv, MainExit, connVars
  <2> QED
    BY <2>1, <2>2, <2>3, <1>4 DEF IInv, MainExit, queueVars, connVars, MutexInv, SleepInv,
       TestInv, NodesHoldTasks, NoSleeperWhileWork
<1>5. CASE MainBroadcast
  <2>1. /\ pc' \in [Workers -> PCs]
        /\ \A w \in Workers : pc'[w] = IF pc[w] = "blocked" THEN "lock" ELSE pc[w]
    BY <1>0, <1>5 DEF MainBroadcast, TypeOK, PCs
  <2>2. TypeOK'
    BY <1>0, <1>5, <2>1 DEF TypeOK, MainBroadcast, queueVars, connVars
  <2>3. QueueLinked'
    BY <1>0, <1>5 DEF QueueLinked, MainBroadcast, queueVars
  <2>4. MutexInv' /\ SleepInv' /\ TestInv' /\ NodesHoldTasks'
    BY <1>5, <2>1 DEF IInv, MainBroadcast, queueVars, connVars, MutexInv, SleepInv,
       TestInv, NodesHoldTasks, Holding
  <2>5. JobInv'
    BY <1>5, <2>1 DEF IInv, MainBroadcast, connVars, JobInv
  <2>6. NoSleeperWhileWork'
    BY <2>1 DEF NoSleeperWhileWork, Blocked
  <2> QED BY <2>2, <2>3, <2>4, <2>5, <2>6 DEF IInv
<1>6. CASE MainJoin
  <2>1. TypeOK'
    BY <1>0, <1>6 DEF TypeOK, MainJoin, queueVars, connVars
  <2>2. QueueLinked'
    BY <1>0, <1>6 DEF QueueLinked, MainJoin, queueVars
  <2>3. JobInv'
    BY <1>6 DEF IInv, JobInv, MainJoin, connVars
  <2> QED
    BY <2>1, <2>2, <2>3, <1>6 DEF IInv, MainJoin, queueVars, connVars, MutexInv, SleepInv,
       TestInv, NodesHoldTasks, NoSleeperWhileWork, Awake, Blocked
<1> QED BY <1>1, <1>2, <1>3, <1>4, <1>5, <1>6 DEF MainStep

\* The steps of a worker that leave the queue alone: what is left to show of
\* each is what it does to the program counters.
LEMMA QueueUntouched ==
    ASSUME QueueLinked, NodesHoldTasks, UNCHANGED queueVars
    PROVE  QueueLinked' /\ NodesHoldTasks'
BY DEF QueueLinked, NodesHoldTasks, queueVars

LEMMA WorkerKeepsIInv ==
    ASSUME IInv, NEW w \in Workers, WorkerStep(w) \/ SpuriousWake(w)
    PROVE  IInv'
<1> USE NoneIsNobody, NullIsNoNode DEF Goto
<1>0. TypeOK /\ QueueLinked /\ NodesHoldTasks
  BY DEF IInv
<1>1. CASE WLock(w)
  <2>1. TypeOK'
    BY <1>0, <1>1 DEF TypeOK, PCs, WLock, queueVars, connVars
  <2>2. QueueLinked' /\ NodesHoldTasks'
    BY <1>0, <1>1, QueueUntouched DEF WLock
  <2>3. MutexInv' /\ SleepInv' /\ TestInv' /\ JobInv'
    BY <1>0, <1>1 DEF IInv, TypeOK, WLock, queueVars, connVars, MutexInv, SleepInv,
       TestInv, JobInv, Holding
  <2>4. Awake' = Awake /\ Blocked' = Blocked
    BY <1>0, <1>1 DEF TypeOK, WLock, Awake, Blocked
  <2> QED
    BY <2>1, <2>2, <2>3, <2>4, <1>1 DEF IInv, NoSleeperWhileWork, WLock, queueVars
<1>2. CASE WCheck(w)
  <2>1. TypeOK'
    BY <1>0, <1>2 DEF TypeOK, PCs, WCheck, queueVars, connVars
  <2>2. QueueLinked' /\ NodesHoldTasks'
    BY <1>0, <1>2, QueueUntouched DEF WCheck
  <2>3. MutexInv' /\ SleepInv' /\ TestInv' /\ JobInv'
    BY <1>0, <1>2 DEF IInv, TypeOK, WCheck, queueVars, connVars, MutexInv, SleepInv,
       TestInv, JobInv, Holding
  <2>4. NoSleeperWhileWork'
    <3>1. CASE size = 0
      <4>1. Cardinality(Awake') \in Nat
        BY WorkersFinite, FS_Subset, FS_CardinalityType DEF Awake
      <4>2. size' = 0
        BY <3>1, <1>2 DEF WCheck, queueVars
      <4> QED BY <4>1, <4>2 DEF NoSleeperWhileWork
    <3>2. CASE size # 0
      <4>1. Awake' = Awake /\ Blocked' = Blocked
        BY <3>2, <1>0, <1>2 DEF TypeOK, WCheck, Awake, Blocked
      <4> QED BY <4>1, <1>2 DEF IInv, NoSleeperWhileWork, WCheck, queueVars
    <3> QED BY <3>1, <3>2
  <2> QED BY <2>1, <2>2, <2>3, <2>4 DEF IInv
<1>3. CASE WSleep(w)
  <2>1. TypeOK'
    BY <1>0, <1>3 DEF TypeOK, PCs, WSleep, queueVars, connVars
  <2>2. QueueLinked' /\ NodesHoldTasks'
    BY <1>0, <1>3, QueueUntouched DEF WSleep
  <2>3. MutexInv' /\ SleepInv' /\ TestInv' /\ JobInv'
    BY <1>0, <1>3 DEF IInv, TypeOK, WSleep, queueVars, connVars, MutexInv, SleepInv,
       TestInv, JobInv, Holding
  <2>4. Awake' = Awake /\ size = 0 /\ size' = size
    BY <1>0, <1>3 DEF IInv, SleepInv, TypeOK, WSleep, Awake, queueVars
  <2>5. NoSleeperWhileWork'
    BY <2>4, AwakeFinite DEF NoSleeperWhileWork
  <2> QED BY <2>1, <2>2, <2>3, <2>5 DEF IInv
<1>4. CASE WExit(w)
  <2>1. TypeOK'
    BY <1>0, <1>4 DEF TypeOK, PCs, WExit, queueVars, connVars
  <2>2. QueueLinked' /\ NodesHoldTasks'
    BY <1>0, <1>4, QueueUntouched DEF WExit
  <2>3. MutexInv' /\ SleepInv' /\ TestInv' /\ JobInv'
    BY <1>0, <1>4 DEF IInv, TypeOK, WExit, queueVars, connVars, MutexInv, SleepInv,
       TestInv, JobInv, Holding
  <2>4. NoSleeperWhileWork'
    BY <1>4 DEF WExit, NoSleeperWhileWork
  <2> QED BY <2>1, <2>2, <2>3, <2>4 DEF IInv
<1>5. CASE WTake(w)
  <2>1. size > 0 /\ taskDequeue
    BY <1>5 DEF WTake, IInv, TestInv
  <2>2. /\ heap' = heap
        /\ live' \subseteq Nodes
        /\ pFront' \in Nodes \cup {NULL} /\ pRear' = pRear
        /\ size' = size - 1 /\ size' \in Nat
        /\ order' \in Seq(Nodes)
        /\ QueueLinked'
        /\ NodesHoldTasks'
        /\ pFront \in live
    BY <1>0, <2>1, DequeueLinks
  <2>3. heap[pFront].task \in Tasks
    BY <2>2, <1>0 DEF NodesHoldTasks
  <2>4. TypeOK'
    BY <1>0, <1>5, <2>2, <2>3 DEF TypeOK, PCs, WTake, connVars
  <2>5. MutexInv'
    BY <1>0, <1>5 DEF IInv, TypeOK, WTake, MutexInv, Holding
  <2>6. SleepInv' /\ TestInv'
    BY <1>0, <1>5 DEF IInv, TypeOK, WTake, MutexInv, Holding, SleepInv, TestInv
  <2>7. JobInv'
    BY <1>0, <1>5, <2>3 DEF IInv, TypeOK, WTake, JobInv, connVars
  <2>8. NoSleeperWhileWork'
    <3>1. Cardinality(Awake') = Cardinality(Awake) - 1
      BY <1>0, <1>5, AwakeShrinks DEF WTake
    <3>2. Blocked' = Blocked /\ exitFlag' = exitFlag
      BY <1>0, <1>5 DEF TypeOK, WTake, Blocked
    <3> QED
      BY <3>1, <3>2, <2>2, <1>0, AwakeFinite DEF IInv, NoSleeperWhileWork, TypeOK
  <2> QED BY <2>2, <2>4, <2>5, <2>6, <2>7, <2>8 DEF IInv
<1>6. CASE WFinish(w)
  <2>0. job[w] \in Tasks
    BY <1>0, <1>6 DEF IInv, JobInv, TypeOK, WFinish
  <2>1. TypeOK'
    BY <1>0, <1>6, <2>0 DEF TypeOK, PCs, WFinish, queueVars
  <2>2. QueueLinked' /\ NodesHoldTasks'
    BY <1>0, <1>6, QueueUntouched DEF WFinish
  <2>3. MutexInv' /\ SleepInv' /\ TestInv' /\ JobInv'
    BY <1>0, <1>6 DEF IInv, TypeOK, WFinish, queueVars, MutexInv, SleepInv,
       TestInv, JobInv, Holding
  <2>4. NoSleeperWhileWork'
    <3>1. Cardinality(Awake') = Cardinality(Awake) + 1
      BY <1>0, <1>6, AwakeGrows DEF WFinish
    <3>2. Blocked' = Blocked /\ exitFlag' = exitFlag /\ size' = size
      BY <1>0, <1>6 DEF TypeOK, WFinish, Blocked, queueVars
    <3> QED
      BY <3>1, <3>2, <1>0, AwakeFinite DEF IInv, NoSleeperWhileWork, TypeOK
  <2> QED BY <2>1, <2>2, <2>3, <2>4 DEF IInv
<1>7. CASE SpuriousWake(w)
  <2>1. TypeOK'
    BY <1>0, <1>7 DEF TypeOK, PCs, SpuriousWake, queueVars, connVars
  <2>2. QueueLinked' /\ NodesHoldTasks'
    BY <1>0, <1>7, QueueUntouched DEF SpuriousWake
  <2>3. MutexInv' /\ SleepInv' /\ TestInv' /\ JobInv'
    BY <1>0, <1>7 DEF IInv, TypeOK, SpuriousWake, queueVars, connVars, MutexInv, SleepInv,
       TestInv, JobInv, Holding
  <2>4. NoSleeperWhileWork'
    <3>1. Cardinality(Awake') = Cardinality(Awake) + 1
      BY <1>0, <1>7, AwakeGrows DEF SpuriousWake
    <3>2. Blocked # {} /\ exitFlag' = exitFlag /\ size' = size
      BY <1>7 DEF SpuriousWake, Blocked, queueVars
    <3> QED
      BY <3>1, <3>2, <1>0, AwakeFinite DEF IInv, NoSleeperWhileWork, TypeOK
  <2> QED BY <2>1, <2>2, <2>3, <2>4 DEF IInv
<1> QED BY <1>1, <1>2, <1>3, <1>4, <1>5, <1>6, <1>7 DEF WorkerStep

-----------------------------------------------------------------------------
\* Every step, a stutter included, keeps the inductive invariant.
LEMMA NextKeepsIInv == IInv /\ [Next]_vars => IInv'
<1> SUFFICES ASSUME IInv, [Next]_vars PROVE IInv'
  OBVIOUS
<1>1. CASE MainStep
  BY <1>1, MainKeepsIInv
<1>2. ASSUME NEW w \in Workers, WorkerStep(w) \/ SpuriousWake(w) PROVE IInv'
  BY <1>2, WorkerKeepsIInv
<1>3. CASE UNCHANGED vars
  <2>1. TypeOK'
    BY <1>3 DEF IInv, TypeOK, vars, queueVars, connVars
  <2>2. QueueLinked' /\ NodesHoldTasks'
    BY <1>3, QueueUntouched DEF IInv, vars
  <2> QED
    BY <2>1, <2>2, <1>3 DEF IInv, vars, queueVars, connVars, MutexInv, SleepInv, TestInv,
       JobInv, NoSleeperWhileWork, Awake, Blocked
<1> QED BY <1>1, <1>2, <1>3 DEF Next

LEMMA SpecIInv == Spec => []IInv
BY InitIInv, NextKeepsIInv, PTL DEF Spec

\* Type correctness of the pool, for any number of workers, connections and
\* addresses.
THEOREM TypeCorrect == Spec => []TypeOK
<1>1. IInv => TypeOK
  BY DEF IInv
<1> QED BY <1>1, SpecIInv, PTL

\* The linked list that taskEnqueue and taskDequeue keep is well formed in
\* every reachable state: no dangling link, no shared node, an exact counter.
THEOREM QueueStaysLinked == Spec => []QueueLinked
<1>1. IInv => QueueLinked
  BY DEF IInv
<1> QED BY <1>1, SpecIInv, PTL

\* The mutex of the pool is held exactly by the worker inside the critical
\* section; a worker that dies in it has let go.
THEOREM MutexCorrect == Spec => []MutexInv
<1>1. IInv => MutexInv
  BY DEF IInv
<1> QED BY <1>1, SpecIInv, PTL

\* No worker dequeues from an empty queue or from freed memory, whatever wakes
\* it up.
THEOREM TakeIsSafe == Spec => []TakeFindsTask
<1>1. IInv => TakeFindsTask
  <2> SUFFICES ASSUME IInv, NEW w \in Workers, pc[w] = "test", exitFlag = 0
               PROVE  pFront \in live /\ heap[pFront].task \in Tasks
    BY DEF TakeFindsTask
  <2>1. size > 0 /\ size \in Nat
    BY DEF IInv, TestInv, TypeOK
  <2>2. pFront = order[1] /\ 1 \in 1 .. size
    BY <2>1 DEF IInv, QueueLinked
  <2>3. pFront \in live
    BY <2>2 DEF IInv, QueueLinked
  <2> QED BY <2>3 DEF IInv, NodesHoldTasks
<1> QED BY <1>1, SpecIInv, PTL

\* No lost wake-up before the exit: one signal per task is enough, for any
\* number of workers.
THEOREM NoLostWakeup == Spec => []NoSleeperWhileWork
<1>1. IInv => NoSleeperWhileWork
  BY DEF IInv
<1> QED BY <1>1, SpecIInv, PTL

-----------------------------------------------------------------------------
(***************************************************************************)
(* The pool implements TaskPool.                                           *)
(***************************************************************************)
absQueue == [i \in 1 .. Len(order) |-> heap[order[i]].task]
absIncoming == incoming \cup ({pending} \ {None})

\* A step that leaves the queue alone leaves the abstract queue alone.
LEMMA AbsQueueUntouched ==
    ASSUME UNCHANGED queueVars
    PROVE  absQueue' = absQueue
BY DEF absQueue, queueVars

\* taskEnqueue appends to the abstract queue.
LEMMA EnqueueAppends ==
    ASSUME TypeOK, QueueLinked, NodesHoldTasks,
           NEW n \in Nodes, NEW t \in Tasks, taskEnqueue(n, t)
    PROVE  absQueue' = Append(absQueue, t)
<1>1. /\ n \in Nodes \ live
      /\ order' = Append(order, n)
      /\ size = Len(order) /\ size \in Nat /\ order \in Seq(Nodes)
      /\ \A i \in 1 .. size : order[i] \in live /\ order[i] \in Nodes \ {n}
  BY DEF taskEnqueue, TypeOK, QueueLinked
<1>2. /\ size = 0 => heap' = [heap EXCEPT ![n] = [task |-> t, pNext |-> NULL]]
      /\ size > 0 => heap' = [[heap EXCEPT ![n] = [task |-> t, pNext |-> NULL]]
                                    EXCEPT ![pRear].pNext = n]
      /\ size > 0 => pRear \in Nodes \ {n}
  BY <1>1 DEF taskEnqueue, QueueLinked
<1>3. /\ heap'[n].task = t
      /\ \A m \in Nodes \ {n} : heap'[m].task = heap[m].task
  <2> DEFINE filled == [heap EXCEPT ![n] = [task |-> t, pNext |-> NULL]]
  <2>1. /\ filled \in [Nodes -> [task : Tasks \cup {None}, pNext : Nodes \cup {NULL}]]
        /\ filled[n].task = t
        /\ \A m \in Nodes \ {n} : filled[m].task = heap[m].task
    BY DEF TypeOK
  <2>2. size = 0 => heap' = filled
    BY <1>2
  <2>3. size > 0 => heap' = [filled EXCEPT ![pRear] = [filled[pRear] EXCEPT !.pNext = n]]
    BY <1>2
  <2> HIDE DEF filled
  <2>4. [filled[pRear] EXCEPT !.pNext = n].task = filled[pRear].task
        \/ pRear \notin Nodes
    BY <2>1
  <2>5. size > 0 => \A m \in Nodes : heap'[m].task = filled[m].task
    BY <2>1, <2>3, <2>4, <1>2
  <2> QED BY <2>1, <2>2, <2>5, <1>1
<1>4. /\ Len(order') = size + 1
      /\ order'[size + 1] = n
      /\ \A i \in 1 .. size : order'[i] = order[i]
  BY <1>1
<1>5. /\ absQueue \in Seq(Tasks) /\ Len(absQueue) = size
      /\ \A i \in 1 .. size : absQueue[i] = heap[order[i]].task
  BY <1>1 DEF absQueue, NodesHoldTasks
<1>6. absQueue' = [i \in 1 .. size + 1 |-> heap'[order'[i]].task]
  BY <1>4 DEF absQueue
<1>7. /\ Append(absQueue, t) \in Seq(Tasks)
      /\ Len(Append(absQueue, t)) = size + 1
      /\ \A i \in 1 .. size + 1 :
            Append(absQueue, t)[i] = IF i = size + 1 THEN t ELSE absQueue[i]
  BY <1>5, <1>1, AppendProperties
<1>8. ASSUME NEW i \in 1 .. size + 1
      PROVE  heap'[order'[i]].task = IF i = size + 1 THEN t ELSE absQueue[i]
  <2>1. CASE i = size + 1
    BY <2>1, <1>3, <1>4
  <2>2. CASE i # size + 1
    <3>1. i \in 1 .. size
      BY <2>2, <1>1
    <3> QED BY SMTT(30), <3>1, <2>2, <1>1, <1>3, <1>4, <1>5
  <2> QED BY <2>1, <2>2
<1>9. absQueue' \in Seq(Tasks) /\ Len(absQueue') = size + 1
  <2>1. \A i \in 1 .. size + 1 : heap'[order'[i]].task \in Tasks
    BY <1>1, <1>5, <1>8
  <2> QED BY <2>1, <1>1, <1>6
<1> QED BY <1>6, <1>7, <1>8, <1>9, SeqEqual

\* taskDequeue removes the head of the abstract queue, which is the task that
\* handEvent copied out of the front node.
LEMMA DequeueTakesHead ==
    ASSUME TypeOK, QueueLinked, NodesHoldTasks, size > 0, taskDequeue
    PROVE  /\ absQueue # <<>>
           /\ heap[pFront].task = Head(absQueue)
           /\ absQueue' = Tail(absQueue)
<1>1. /\ size = Len(order) /\ size \in Nat /\ order \in Seq(Nodes)
      /\ \A i \in 1 .. size : order[i] \in live
      /\ pFront = order[1]
      /\ order' = Tail(order) /\ heap' = heap
  BY DEF taskDequeue, TypeOK, QueueLinked
<1>2. /\ absQueue \in Seq(Tasks) /\ Len(absQueue) = size
      /\ \A i \in 1 .. size : absQueue[i] = heap[order[i]].task
  BY <1>1 DEF absQueue, NodesHoldTasks
<1>3. absQueue # <<>> /\ heap[pFront].task = Head(absQueue)
  BY <1>1, <1>2
<1>4. absQueue' = [i \in 1 .. size - 1 |-> heap[Tail(order)[i]].task]
  BY <1>1 DEF absQueue
<1>5. /\ Tail(absQueue) \in Seq(Tasks)
      /\ Len(Tail(absQueue)) = size - 1
      /\ \A i \in 1 .. size - 1 : Tail(absQueue)[i] = absQueue[i + 1]
  BY <1>2, <1>3, HeadTailProperties
<1>6. ASSUME NEW i \in 1 .. size - 1
      PROVE  heap[Tail(order)[i]].task = Tail(absQueue)[i]
  BY <1>1, <1>2, <1>5
<1>7. absQueue' \in Seq(Tasks) /\ Len(absQueue') = size - 1
  <2>1. \A i \in 1 .. size - 1 : heap[Tail(order)[i]].task \in Tasks
    <3> TAKE i \in 1 .. size - 1
    <3>1. Tail(absQueue)[i] \in Tasks
      BY <1>1, <1>5
    <3> QED BY <3>1, <1>6
  <2> QED BY <2>1, <1>1, <1>4
<1>8. absQueue' = Tail(absQueue)
  BY <1>4, <1>5, <1>6, <1>7, SeqEqual
<1> QED BY <1>3, <1>8

\* The initial state of the pool is an initial state of TaskPool.
LEMMA InitRefines == Init => Abs!Init
<1> SUFFICES ASSUME Init PROVE Abs!Init
  OBVIOUS
<1>1. absIncoming = Tasks
  BY NoneIsNobody DEF Init, absIncoming
<1>2. absQueue = <<>>
  BY DEF Init, absQueue
<1> QED BY <1>1, <1>2 DEF Init, Abs!Init, absIncoming, absQueue

\* A step of the pool is one step of TaskPool, or none.
LEMMA StepRefines == IInv /\ [Next]_vars => [Abs!Next]_(Abs!absVars)
<1> SUFFICES ASSUME IInv, [Next]_vars PROVE [Abs!Next]_(Abs!absVars)
  OBVIOUS
<1> USE NoneIsNobody
<1>0. TypeOK /\ QueueLinked /\ NodesHoldTasks
  BY DEF IInv
<1>a. ASSUME absIncoming' = absIncoming, absQueue' = absQueue, job' = job, closed' = closed
      PROVE  UNCHANGED Abs!absVars
  BY <1>a DEF Abs!absVars, absIncoming, absQueue
<1>1. ASSUME NEW t \in Tasks, MainReject(t) PROVE Abs!Next
  <2>1. pending = None /\ absIncoming = incoming /\ absIncoming' = incoming'
    BY <1>0, <1>1 DEF IInv, JobInv, MainReject, absIncoming
  <2>2. absQueue' = absQueue
    BY <1>1, AbsQueueUntouched DEF MainReject
  <2>3. Abs!Reject(t)
    BY <1>1, <2>1, <2>2 DEF Abs!Reject, MainReject, absIncoming, absQueue
  <2> QED BY <2>3 DEF Abs!Next
<1>2. ASSUME NEW t \in Tasks, MainAccept(t) PROVE UNCHANGED Abs!absVars
  <2>1. absIncoming' = absIncoming
    BY <1>0, <1>2 DEF IInv, JobInv, MainAccept, absIncoming
  <2>2. absQueue' = absQueue
    BY <1>2, AbsQueueUntouched DEF MainAccept
  <2> QED BY <1>2, <1>a, <2>1, <2>2 DEF MainAccept
<1>3. ASSUME MainEnqueue PROVE Abs!Next \/ UNCHANGED Abs!absVars
  <2>1. PICK n \in Nodes : taskEnqueue(n, pending)
    BY <1>3 DEF MainEnqueue
  <2>2. pending \in Tasks
    BY <1>0, <1>3 DEF MainEnqueue, IInv, JobInv, TypeOK
  <2>3. absQueue' = Append(absQueue, pending)
    BY <1>0, <2>1, <2>2, EnqueueAppends
  <2>4. pending \in absIncoming
    BY <2>2 DEF absIncoming
  <2>5. absIncoming' = absIncoming \ {pending}
    <3>1. pending \notin incoming
      BY <1>3, <2>2 DEF IInv, JobInv, MainEnqueue
    <3> QED BY <3>1, <1>3, <2>2 DEF MainEnqueue, absIncoming
  <2>6. PICK t \in Tasks : t = pending
    BY <2>2
  <2>7. Abs!Submit(t)
    BY <1>3, <2>3, <2>4, <2>5, <2>6 DEF Abs!Submit, MainEnqueue, absIncoming, absQueue
  <2> QED BY <2>7 DEF Abs!Next
<1>4. ASSUME MainExit \/ MainBroadcast \/ MainJoin PROVE UNCHANGED Abs!absVars
  <2>1. UNCHANGED queueVars /\ UNCHANGED <<job, pending, incoming, closed>>
    BY <1>4 DEF MainExit, MainBroadcast, MainJoin, connVars
  <2> QED BY <2>1, <1>a, AbsQueueUntouched DEF absIncoming
<1>5. ASSUME NEW w \in Workers,
             WLock(w) \/ WCheck(w) \/ WSleep(w) \/ WExit(w) \/ SpuriousWake(w)
      PROVE  UNCHANGED Abs!absVars
  <2>1. UNCHANGED queueVars /\ UNCHANGED <<job, pending, incoming, closed>>
    BY <1>5 DEF WLock, WCheck, WSleep, WExit, SpuriousWake, connVars
  <2> QED BY <2>1, <1>a, AbsQueueUntouched DEF absIncoming
<1>6. ASSUME NEW w \in Workers, WTake(w) PROVE Abs!Next
  <2>1. size > 0 /\ taskDequeue
    BY <1>6 DEF WTake, IInv, TestInv
  <2>2. /\ absQueue # <<>>
        /\ heap[pFront].task = Head(absQueue)
        /\ absQueue' = Tail(absQueue)
    BY <1>0, <2>1, DequeueTakesHead
  <2>3. job[w] = None
    BY <1>0, <1>6 DEF IInv, JobInv, WTake
  <2>4. absIncoming' = absIncoming
    BY <1>6 DEF WTake, connVars, absIncoming
  <2>5. Abs!Take(w)
    BY <1>6, <2>2, <2>3, <2>4 DEF Abs!Take, WTake, connVars, absIncoming, absQueue
  <2> QED BY <2>5 DEF Abs!Next
<1>7. ASSUME NEW w \in Workers, WFinish(w) PROVE Abs!Next
  <2>1. job[w] # None
    BY <1>7 DEF IInv, JobInv, WFinish
  <2>2. absQueue' = absQueue /\ absIncoming' = absIncoming
    BY <1>7, AbsQueueUntouched DEF WFinish, absIncoming
  <2>3. Abs!Finish(w)
    BY <1>7, <2>1, <2>2 DEF Abs!Finish, WFinish, absIncoming, absQueue
  <2> QED BY <2>3 DEF Abs!Next
<1>8. ASSUME UNCHANGED vars PROVE UNCHANGED Abs!absVars
  <2>1. UNCHANGED queueVars /\ UNCHANGED <<job, pending, incoming, closed>>
    BY <1>8 DEF vars, connVars
  <2> QED BY <2>1, <1>a, AbsQueueUntouched DEF absIncoming
<1> QED
  BY <1>1, <1>2, <1>3, <1>4, <1>5, <1>6, <1>7, <1>8 DEF Next, MainStep, WorkerStep

\* The linked list, the mutex and the condition variable together keep what
\* TaskPool promises: first come first served, each task to one worker, each
\* connection closed once.
THEOREM PoolImplementsTaskPool == Spec => PoolRefinesTaskPool
<1>1. Spec => Abs!Init
  BY InitRefines DEF Spec
<1>2. Spec => [][Abs!Next]_(Abs!absVars)
  BY SpecIInv, StepRefines, PTL DEF Spec
<1> QED BY <1>1, <1>2 DEF PoolRefinesTaskPool, Abs!Spec
=============================================================================
