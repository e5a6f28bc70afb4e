----------------------------- MODULE ThreadPool -----------------------------
(***************************************************************************)
(* The task queue with its worker threads (src/src/ThreadPool.{h,cc},      *)
(* src/src/Thread.{h,cc}), lock by lock.  mutex_ is a MutexLock            *)
(* (src/src/Mutex.h): a pthread mutex of the default kind, which a thread  *)
(* that holds it cannot lock again.  run and take hold it when they call   *)
(* isFull and isEmpty, which lock it.                                      *)
(*                                                                         *)
(* "again" is the place of that second lock, "inside" what follows it: the *)
(* rest of run and take.  No thread gets there, so it has no actions, and  *)
(* neither tasks_ nor the two conditions are ever touched.                 *)
(***************************************************************************)
EXTENDS Integers

CONSTANTS Callers,     \* threads with a task to run each
          NumThreads   \* what the owner may pass to start()

ASSUME NumThreadsAssumption == NumThreads \subseteq Nat
ASSUME CallersAssumption == \A c \in Callers : c \notin Int    \* no worker, nor the owner

Workers == UNION {1 .. n : n \in NumThreads}
Nobody == -1
Owner == 0             \* the thread that starts, stops and destroys it
PoolThreads == Workers \cup Callers \cup {Owner}

VARIABLES running_,
          threads_,    \* how many are in the vector
          numThreads,  \* start()'s argument
          mutex_,      \* its holder
          pc           \* where each thread is

pool == <<running_, threads_, numThreads, mutex_, pc>>

PoolTypeOK ==
    /\ running_ \in BOOLEAN
    /\ numThreads \in NumThreads /\ threads_ \in 0 .. numThreads
    /\ mutex_ \in PoolThreads \cup {Nobody}
    /\ pc \in [PoolThreads -> {"new", "start", "ready", "task", "test", "lock", "again",
                               "inside", "stop", "join", "done"}]

PoolInit ==
    /\ running_ = FALSE
    /\ threads_ = 0
    /\ numThreads \in NumThreads
    /\ mutex_ = Nobody
    /\ pc = [t \in PoolThreads |-> IF t \in Callers THEN "ready" ELSE "new"]

Goes(t, from, to) ==
    /\ pc[t] = from
    /\ pc' = [pc EXCEPT ![t] = to]

(* Mutant: a recursive mutex.                                              *)
FreeOrHeldBy(t) == mutex_ \in {Nobody, t}

MayLock(t) == mutex_ = Nobody

(* Workers in take and callers in run, and then in isEmpty and isFull.     *)
take(t) == t \in Workers /\ Goes(t, "lock", "again")
isEmpty(t) == t \in Workers /\ Goes(t, "again", "inside")
runQueued(t) == t \in Callers /\ Goes(t, "lock", "again")
isFull(t) == t \in Callers /\ Goes(t, "again", "inside")

(* The MutexLockGuard of each.                                             *)
lock(t) ==
    /\ MayLock(t)
    /\ mutex_' = t
    /\ take(t) \/ isEmpty(t) \/ runQueued(t) \/ isFull(t)
    /\ UNCHANGED <<running_, threads_, numThreads>>

-----------------------------------------------------------------------------
(* The owner.  start() adds and starts one thread after the other.         *)
start ==
    /\ Goes(Owner, "new", "start")
    /\ running_' = TRUE
    /\ UNCHANGED <<threads_, numThreads, mutex_>>

(* Mutant: one thread too many.                                            *)
OneMoreToStart == threads_ <= numThreads

MoreToStart == threads_ < numThreads

startThread ==
    /\ pc[Owner] = "start" /\ MoreToStart
    /\ threads_' = threads_ + 1
    /\ Goes(threads_', "new", "test")
    /\ UNCHANGED <<running_, numThreads, mutex_>>

started ==
    /\ ~MoreToStart
    /\ Goes(Owner, "start", "ready")
    /\ UNCHANGED <<running_, threads_, numThreads, mutex_>>

(* stop(), also from the destructor, keeps mutex_ until all threads are    *)
(* joined.  A destructor that finds running_ down does not call it again.  *)
stop ==
    /\ MayLock(Owner)
    /\ Goes(Owner, "ready", "stop")
    /\ mutex_' = Owner
    /\ UNCHANGED <<running_, threads_, numThreads>>

stopRunning ==
    /\ Goes(Owner, "stop", "join")
    /\ running_' = FALSE
    /\ UNCHANGED <<threads_, numThreads, mutex_>>

AllEnded == \A w \in 1 .. threads_ : pc[w] = "done"

join ==
    /\ AllEnded
    /\ Goes(Owner, "join", "done")
    /\ mutex_' = Nobody
    /\ UNCHANGED <<running_, threads_, numThreads>>

-----------------------------------------------------------------------------
(* runInThread: while (running_) take().                                   *)
runInThread(w) ==
    /\ Goes(w, "test", IF running_ THEN "lock" ELSE "done")
    /\ UNCHANGED <<running_, threads_, numThreads, mutex_>>

(* run(): threads_ is read without mutex_, while start() may add to it.    *)
run(c) ==
    /\ Goes(c, "ready", IF threads_ = 0 THEN "task" ELSE "lock")
    /\ UNCHANGED <<running_, threads_, numThreads, mutex_>>

(* The caller's own task() returns.                                        *)
taskReturns(c) ==
    /\ Goes(c, "task", "done")
    /\ UNCHANGED <<running_, threads_, numThreads, mutex_>>
=============================================================================
