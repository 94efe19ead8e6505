---------------------------- MODULE MCThreadPool ----------------------------
(* TLC instances of ThreadPool: three workers, as THREADNUM in server.h.   *)
EXTENDS ThreadPool

CONSTANTS w1, w2, w3, t1, t2, t3, n1, n2

TwoWorkers   == {w1, w2}
ThreeWorkers == {w1, w2, w3}
ThreeTasks   == {t1, t2, t3}
TwoNodes     == {n1, n2}     \* bound: two tasks wait at a time
OneStuck     == {t1}
NoneStuck    == {}
=============================================================================
