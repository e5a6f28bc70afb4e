------------------------------ MODULE Workers -------------------------------
(***************************************************************************)
(* Threads that hand tasks to a ThreadPool and others that wait on a       *)
(* CountDownLatch for the tasks to be done: each task counts down once.    *)
(***************************************************************************)
EXTENDS CountDownLatch, ThreadPool, FiniteSets

ASSUME OneCountPerTask == IsFiniteSet(Callers) /\ InitialCount = Cardinality(Callers)

vars == <<latch, pool>>

TypeOK == LatchTypeOK /\ PoolTypeOK
Init == LatchInit /\ PoolInit

LatchStep == \E w \in Waiters : wait(w) \/ spuriousWakeup(w)

PoolStep ==
    \/ start \/ startThread \/ started \/ stop \/ stopRunning \/ join
    \/ \E w \in Workers : runInThread(w)
    \/ \E c \in Callers : run(c)
    \/ \E t \in PoolThreads : lock(t)

Task(c) == taskReturns(c) /\ countdown

Next ==
    \/ LatchStep /\ UNCHANGED pool
    \/ PoolStep /\ UNCHANGED latch
    \/ \E c \in Callers : Task(c)

Spec == Init /\ [][Next]_vars

(* A thread that has been woken, or that runs a task, goes on.             *)
Fairness ==
    /\ \A w \in Waiters : WF_vars(waiter[w] = "woken" /\ wait(w) /\ UNCHANGED pool)
    /\ \A c \in Callers : WF_vars(run(c) /\ UNCHANGED latch) /\ WF_vars(Task(c))

FairSpec == Spec /\ Fairness

-----------------------------------------------------------------------------
(* Nobody who waits on the latch goes on before every task is done, nor on *)
(* a wakeup that came for no reason (CountDownLatch.cc:9); and no task is  *)
(* counted that was not run.                                               *)
WaitMeansDone ==
    /\ \A w \in Waiters : waiter[w] = "returned" => \A c \in Callers : pc[c] = "done"
    /\ count_ = Cardinality({c \in Callers : pc[c] # "done"})

(* All waiters are released, not just one, when the tasks are run; and     *)
(* they are, if the pool has no threads (CountDownLatch.cc:20,             *)
(* ThreadPool.cc:66).                                                      *)
WaitersReleased ==
    /\ \A w \in Waiters : (waiter[w] = "waiting" /\ numThreads = 0) ~> waiter[w] = "returned"
    /\ (count_ = 0) ~> Sleeping = {}

(* A caller that found threads in the pool, and is in run for good.        *)
Handed(c) == pc[c] \in {"lock", "again"}

(* A pool with threads runs no task: the first to enter run or take stays  *)
(* at its second lock of mutex_ and keeps it, so stop, which joins that    *)
(* thread if it is a worker, never returns; and one task handed to such a  *)
(* pool is enough for the latch never to open: not one waiter goes on      *)
(* (ThreadPool.cc:66, 84-85, 104, 110).                                    *)
SecondLockHangs ==
    [][/\ \A t \in PoolThreads : pc[t] = "again" => pc'[t] = "again" /\ mutex_' = mutex_
       /\ \A c \in Callers : Handed(c) =>
             Handed(c)' /\ count_' > 0 /\ \A w \in Waiters : waiter'[w] # "returned"]_vars
=============================================================================
