CONSTANTS
    w1 = w1  w2 = w2  w3 = w3
    t1 = t1  t2 = t2  t3 = t3
    n1 = n1  n2 = n2
    NULL = NULL
    None = None
    Workers <- ThreeWorkers
    Tasks <- ThreeTasks
    Nodes <- TwoNodes
    Stuck <- OneStuck
SPECIFICATION FairSpec
CHECK_DEADLOCK FALSE
INVARIANTS
    TypeOK
    QueueLinked
    MutexInv
    TakeFindsTask
    NoSleeperWhileWork
PROPERTIES
    PoolRefinesTaskPool
    AcceptedTaskTaken
    ExitCompletesIfNoneFallsAsleep
