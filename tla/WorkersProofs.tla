--------------------------- MODULE WorkersProofs ----------------------------
(***************************************************************************)
(* What the latch and the mutex of the pool guarantee, for any threads.    *)
(***************************************************************************)
EXTENDS Workers, FiniteSetTheorems, TLAPS

(* Whoever is at its second lock holds mutex_, the owner holds it while it *)
(* stops the pool, and nobody is past a second lock.                       *)
HeldWhere ==
    /\ \A t \in PoolThreads : pc[t] = "again" => mutex_ = t
    /\ pc[Owner] \in {"stop", "join"} => mutex_ = Owner
    /\ \A t \in PoolThreads : pc[t] # "inside"

(* The owner is in none of the places of workers and callers.              *)
OwnerPlaces == pc[Owner] \in {"new", "start", "ready", "stop", "join", "done"}

(* What SecondLockHangs says of the pool in a step.                        *)
HeldFast ==
    /\ \A t \in PoolThreads : pc[t] = "again" => pc'[t] = "again" /\ mutex_' = mutex_
    /\ \A c \in Callers : Handed(c) => Handed(c)'

Places == {"new", "start", "ready", "task", "test", "lock", "again", "inside", "stop", "join",
           "done"}

LockInv == PoolTypeOK /\ HeldWhere /\ OwnerPlaces

LEMMA ThreadsDiffer ==
    /\ Workers \subseteq PoolThreads /\ Callers \subseteq PoolThreads
    /\ Owner \in PoolThreads /\ Nobody \notin PoolThreads
    /\ Owner \notin Workers /\ Owner \notin Callers
    /\ Workers \cap Callers = {}
    /\ \A n \in NumThreads : n \in Nat /\ 1 .. n \subseteq Workers
<1>1. \A w \in Workers : w \in Int /\ 1 <= w
  BY NumThreadsAssumption DEF Workers, NumThreadsAssumption
<1>2. \A n \in NumThreads : n \in Nat /\ 1 .. n \subseteq Workers
  BY NumThreadsAssumption DEF Workers, NumThreadsAssumption
<1>3. \A c \in Callers : c \notin Int
  BY CallersAssumption DEF CallersAssumption
<1> QED  BY <1>1, <1>2, <1>3 DEF PoolThreads, Owner, Nobody

LEMMA ThreadsInPool == PoolTypeOK => \A w \in 1 .. threads_ : w \in PoolThreads /\ w # Owner
BY ThreadsDiffer DEF PoolTypeOK

LEMMA InitLockInv == Init => LockInv
<1> SUFFICES ASSUME Init PROVE LockInv
  OBVIOUS
<1> USE DEF Init, PoolInit
<1>1. numThreads \in NumThreads /\ threads_ \in 0 .. numThreads
  BY ThreadsDiffer
<1>2. pc \in [PoolThreads -> Places] /\ pc[Owner] = "new"
  BY ThreadsDiffer DEF Places
<1>3. \A t \in PoolThreads : pc[t] \in {"ready", "new"}
  OBVIOUS
<1>4. PoolTypeOK
  BY <1>1, <1>2 DEF PoolTypeOK, Places
<1> QED  BY <1>2, <1>3, <1>4 DEF LockInv, HeldWhere, OwnerPlaces

(* What a thread's move does to pc.                                        *)
LEMMA Moves ==
    ASSUME PoolTypeOK, NEW t \in PoolThreads, NEW from, NEW to \in Places, Goes(t, from, to)
    PROVE  /\ pc' \in [PoolThreads -> Places]
           /\ pc[t] = from /\ pc'[t] = to
           /\ \A u \in PoolThreads : u # t => pc'[u] = pc[u]
BY DEF PoolTypeOK, Places, Goes

(* What the mutex is for: a thread may lock it only if nobody holds it.    *)
LEMMA LockStep ==
    ASSUME LockInv, NEW t \in PoolThreads, lock(t)
    PROVE  LockInv' /\ HeldFast
<1>1. /\ mutex_ = Nobody /\ mutex_' = t
      /\ running_' = running_ /\ threads_' = threads_ /\ numThreads' = numThreads
  BY DEF lock, MayLock
<1>2. \A u \in PoolThreads : pc[u] # "again"
  BY <1>1, ThreadsDiffer DEF LockInv, HeldWhere
<1>3. Goes(t, "lock", "again")
  BY <1>2 DEF lock, take, isEmpty, runQueued, isFull, Goes
<1>4. /\ pc' \in [PoolThreads -> Places]
      /\ pc[t] = "lock" /\ pc'[t] = "again"
      /\ \A u \in PoolThreads : u # t => pc'[u] = pc[u]
  BY <1>3, Moves DEF LockInv, Places
<1>5. t # Owner /\ Owner \in PoolThreads /\ pc'[Owner] = pc[Owner]
  BY <1>4, ThreadsDiffer DEF LockInv, OwnerPlaces
<1>6. PoolTypeOK'
  BY <1>1, <1>4 DEF LockInv, PoolTypeOK, Places
<1>7. HeldWhere'
  <2>1. \A u \in PoolThreads : pc'[u] = "again" => mutex_' = u
    BY <1>1, <1>2, <1>4
  <2>2. pc'[Owner] \notin {"stop", "join"}
    BY <1>1, <1>5, ThreadsDiffer DEF LockInv, HeldWhere
  <2>3. \A u \in PoolThreads : pc'[u] # "inside"
    BY <1>4 DEF LockInv, HeldWhere
  <2> QED  BY <2>1, <2>2, <2>3 DEF HeldWhere
<1>8. OwnerPlaces'
  BY <1>5 DEF LockInv, OwnerPlaces
<1>9. HeldFast
  BY <1>2, <1>4, ThreadsDiffer DEF HeldFast, Handed
<1> QED  BY <1>6, <1>7, <1>8, <1>9 DEF LockInv

(* A worker or a caller that moves without the mutex.                      *)
LEMMA OtherMoves ==
    ASSUME LockInv, NEW t \in PoolThreads, t # Owner,
           NEW from \in {"new", "ready", "test", "task"},
           NEW to \in {"test", "lock", "task", "done"},
           Goes(t, from, to),
           running_' = running_, mutex_' = mutex_, numThreads' = numThreads,
           threads_' = threads_ \/ (pc[Owner] = "start" /\ threads_' \in 0 .. numThreads)
    PROVE  LockInv' /\ HeldFast
<1>1. /\ pc' \in [PoolThreads -> Places]
      /\ pc[t] = from /\ pc'[t] = to
      /\ \A u \in PoolThreads : u # t => pc'[u] = pc[u]
  <2>1. to \in Places
    BY DEF Places
  <2> QED  BY <2>1, Moves DEF LockInv
<1>2. Owner \in PoolThreads /\ pc'[Owner] = pc[Owner]
  BY <1>1, ThreadsDiffer
<1>3. PoolTypeOK'
  BY <1>1 DEF LockInv, PoolTypeOK, Places
<1>4. HeldWhere'
  BY <1>1, <1>2 DEF LockInv, HeldWhere
<1>5. OwnerPlaces'
  BY <1>2 DEF LockInv, OwnerPlaces
<1>6. HeldFast
  BY <1>1, ThreadsDiffer DEF LockInv, HeldWhere, HeldFast, Handed
<1> QED  BY <1>3, <1>4, <1>5, <1>6 DEF LockInv

(* The owner moves, and may take the mutex or give it back.                *)
LEMMA OwnerMoves ==
    ASSUME LockInv,
           NEW from \in {"new", "start", "ready", "stop", "join"},
           NEW to \in {"start", "ready", "stop", "join", "done"},
           Goes(Owner, from, to),
           running_' \in BOOLEAN, threads_' = threads_, numThreads' = numThreads,
           mutex_' \in {mutex_, Owner, Nobody},
           mutex_' = mutex_ \/ mutex_ \in {Owner, Nobody},
           to \in {"stop", "join"} => mutex_' = Owner,
           to = "done" => AllEnded
    PROVE  LockInv' /\ HeldFast
<1>1. /\ pc' \in [PoolThreads -> Places] /\ Owner \in PoolThreads
      /\ pc[Owner] = from /\ pc'[Owner] = to
      /\ \A u \in PoolThreads : u # Owner => pc'[u] = pc[u]
  <2>1. to \in Places
    BY DEF Places
  <2> QED  BY <2>1, ThreadsDiffer, Moves DEF LockInv
<1>2. PoolTypeOK'
  BY <1>1 DEF LockInv, PoolTypeOK, Places
<1>3. \A u \in PoolThreads : pc[u] = "again" => mutex_ = u /\ u # Owner /\ mutex_' = mutex_
  BY <1>1, ThreadsDiffer DEF LockInv, HeldWhere
<1>4. HeldWhere'
  BY <1>1, <1>3 DEF LockInv, HeldWhere
<1>5. OwnerPlaces'
  BY <1>1 DEF OwnerPlaces
<1>6. HeldFast
  BY <1>1, <1>3, ThreadsDiffer DEF HeldFast, Handed
<1> QED  BY <1>2, <1>4, <1>5, <1>6 DEF LockInv

LEMMA PoolStepKeeps ==
    ASSUME LockInv, PoolStep
    PROVE  LockInv' /\ HeldFast
<1>0. /\ running_ \in BOOLEAN /\ mutex_ \in PoolThreads \cup {Nobody}
      /\ threads_ \in 0 .. numThreads /\ numThreads \in Nat /\ 1 .. numThreads \subseteq Workers
      /\ pc[Owner] \in {"stop", "join"} => mutex_ = Owner
  BY ThreadsDiffer DEF LockInv, PoolTypeOK, HeldWhere
<1>1. CASE start
  BY <1>1, <1>0, OwnerMoves DEF start
<1>2. CASE startThread
  <2>1. /\ threads_' = threads_ + 1 /\ pc[Owner] = "start"
        /\ Goes(threads_', "new", "test")
        /\ running_' = running_ /\ numThreads' = numThreads /\ mutex_' = mutex_
    BY <1>2 DEF startThread
  <2>2. threads_' \in 1 .. numThreads
    BY <1>2, <2>1, <1>0 DEF startThread, MoreToStart
  <2>3. threads_' \in PoolThreads /\ threads_' # Owner
    BY <2>2, <1>0, ThreadsDiffer
  <2>4. threads_' \in 0 .. numThreads
    BY <2>2, <1>0
  <2> QED  BY <2>1, <2>3, <2>4, OtherMoves
<1>3. CASE started
  BY <1>3, <1>0, OwnerMoves DEF started
<1>4. CASE stop
  BY <1>4, <1>0, OwnerMoves DEF stop, MayLock
<1>5. CASE stopRunning
  <2>1. mutex_ = Owner
    BY <1>5, <1>0 DEF stopRunning, Goes
  <2> QED  BY <1>5, <2>1, OwnerMoves DEF stopRunning
<1>6. CASE join
  <2>1. mutex_ = Owner
    BY <1>6, <1>0 DEF join, Goes
  <2> QED  BY <1>6, <1>0, <2>1, OwnerMoves DEF join
<1>7. ASSUME NEW w \in Workers, runInThread(w) PROVE LockInv' /\ HeldFast
  BY <1>7, ThreadsDiffer, OtherMoves DEF runInThread
<1>8. ASSUME NEW c \in Callers, run(c) PROVE LockInv' /\ HeldFast
  BY <1>8, ThreadsDiffer, OtherMoves DEF run
<1>9. ASSUME NEW t \in PoolThreads, lock(t) PROVE LockInv' /\ HeldFast
  BY <1>9, LockStep
<1> QED  BY <1>1, <1>2, <1>3, <1>4, <1>5, <1>6, <1>7, <1>8, <1>9 DEF PoolStep

LEMMA StepKeeps ==
    ASSUME LockInv, [Next]_vars
    PROVE  LockInv' /\ (HeldFast \/ UNCHANGED vars)
<1>1. CASE UNCHANGED pool
  BY <1>1 DEF pool, LockInv, PoolTypeOK, HeldWhere, OwnerPlaces, HeldFast, Handed
<1>2. CASE PoolStep
  BY <1>2, PoolStepKeeps
<1>3. ASSUME NEW c \in Callers, Task(c) PROVE LockInv' /\ HeldFast
  BY <1>3, ThreadsDiffer, OtherMoves DEF Task, taskReturns
<1> QED  BY <1>1, <1>2, <1>3 DEF Next, vars

LEMMA LockInvariant == Spec => []LockInv
<1>1. LockInv /\ [Next]_vars => LockInv'
  BY StepKeeps
<1> QED  BY InitLockInv, <1>1, PTL DEF Spec

-----------------------------------------------------------------------------
(* The latch.  Its count is the number of tasks that are not done.         *)
Left == {c \in Callers : pc[c] # "done"}

CountInv == LockInv /\ LatchTypeOK /\ WaitMeansDone

LEMMA LeftFinite == IsFiniteSet(Left) /\ Cardinality(Left) \in Nat
<1>1. IsFiniteSet(Callers) /\ Left \subseteq Callers
  BY OneCountPerTask DEF OneCountPerTask, Left
<1> QED  BY <1>1, FS_Subset, FS_CardinalityType

LEMMA InitCountInv == Init => CountInv
<1> SUFFICES ASSUME Init PROVE CountInv
  OBVIOUS
<1>1. Left = Callers
  BY ThreadsDiffer DEF Init, PoolInit, Left
<1>2. LatchTypeOK
  BY CountAssumption DEF Init, LatchInit, LatchTypeOK, CountAssumption
<1>3. WaitMeansDone
  BY <1>1, OneCountPerTask DEF Init, LatchInit, WaitMeansDone, Left, OneCountPerTask
<1> QED  BY <1>2, <1>3, InitLockInv DEF CountInv

(* What the pool does, short of a task's end, leaves all tasks undone.     *)
LEMMA PoolStepLeft ==
    ASSUME LockInv, PoolStep
    PROVE  \A c \in Callers : pc'[c] = "done" <=> pc[c] = "done"
<1> DEFINE Same == \A c \in Callers : pc'[c] = "done" <=> pc[c] = "done"
<1>1. ASSUME NEW t \in PoolThreads, NEW from \in Places \ {"done"}, NEW to \in Places,
             Goes(t, from, to), t \in Callers => to # "done"
      PROVE  Same
  BY <1>1, Moves, ThreadsDiffer DEF LockInv
<1>2. Owner \in PoolThreads /\ Owner \notin Callers
  BY ThreadsDiffer
<1>3. CASE start
  BY <1>1, <1>2, <1>3 DEF start, Places
<1>4. CASE startThread
  <2>1. threads_' \in Workers
    BY <1>4, ThreadsDiffer DEF startThread, MoreToStart, LockInv, PoolTypeOK
  <2> QED  BY <1>1, <2>1, <1>4, ThreadsDiffer DEF startThread, Places
<1>5. CASE started
  BY <1>1, <1>2, <1>5 DEF started, Places
<1>6. CASE stop
  BY <1>1, <1>2, <1>6 DEF stop, Places
<1>7. CASE stopRunning
  BY <1>1, <1>2, <1>7 DEF stopRunning, Places
<1>8. CASE join
  BY <1>1, <1>2, <1>8 DEF join, Places
<1>9. ASSUME NEW w \in Workers, runInThread(w) PROVE Same
  BY <1>1, <1>9, ThreadsDiffer DEF runInThread, Places
<1>10. ASSUME NEW c \in Callers, run(c) PROVE Same
  BY <1>1, <1>10, ThreadsDiffer DEF run, Places
<1>11. ASSUME NEW t \in PoolThreads, lock(t) PROVE Same
  BY <1>1, <1>11 DEF lock, take, isEmpty, runQueued, isFull, Places
<1> QED  BY <1>3, <1>4, <1>5, <1>6, <1>7, <1>8, <1>9, <1>10, <1>11 DEF PoolStep

LEMMA LatchStepCounts ==
    ASSUME CountInv, LatchStep, UNCHANGED pool
    PROVE  (LatchTypeOK /\ WaitMeansDone)'
<1>1. pc' = pc /\ count_' = count_
  BY DEF pool, LatchStep, wait, spuriousWakeup
<1>2. LatchTypeOK'
  BY <1>1 DEF CountInv, LatchTypeOK, LatchStep, wait, spuriousWakeup
<1>3. ASSUME NEW w \in Waiters, waiter'[w] = "returned" PROVE \A c \in Callers : pc[c] = "done"
  <2>1. CASE waiter[w] = "returned"
    BY <2>1 DEF CountInv, WaitMeansDone
  <2>2. CASE waiter[w] # "returned"
    <3>1. ~(count_ > 0)
      BY <1>3, <2>2 DEF LatchStep, wait, spuriousWakeup, MustWait, CountInv, LatchTypeOK
    <3>2. Cardinality(Left) = 0
      BY <3>1, LeftFinite DEF CountInv, WaitMeansDone, Left
    <3>3. Left = {}
      BY <3>2, LeftFinite, FS_EmptySet
    <3> QED  BY <3>3 DEF Left
  <2> QED  BY <2>1, <2>2
<1> QED  BY <1>1, <1>2, <1>3 DEF CountInv, WaitMeansDone

LEMMA TaskCounts ==
    ASSUME CountInv, NEW c \in Callers, Task(c)
    PROVE  (LatchTypeOK /\ WaitMeansDone)'
<1>1. /\ c \in PoolThreads /\ pc[c] = "task" /\ pc'[c] = "done"
      /\ \A d \in Callers : d # c => pc'[d] = pc[d]
  BY ThreadsDiffer, Moves DEF Task, taskReturns, CountInv, LockInv, Places
<1>2. count_' = count_ - 1 /\ count_ \in Int /\ count_ <= InitialCount
  BY DEF Task, countdown, CountInv, LatchTypeOK
<1>3. c \in Left /\ Left' = Left \ {c}
  BY <1>1 DEF Left
<1>4. count_' = Cardinality(Left')
  BY <1>2, <1>3, LeftFinite, FS_RemoveElement DEF CountInv, WaitMeansDone, Left
<1>5. PICK woken : waiter' = [w \in Waiters |-> IF w \in woken THEN "woken" ELSE waiter[w]]
  BY DEF Task, countdown
<1>6. LatchTypeOK'
  BY <1>2, <1>5, CountAssumption DEF CountInv, LatchTypeOK, CountAssumption
<1>7. ASSUME NEW w \in Waiters, waiter'[w] = "returned" PROVE FALSE
  BY <1>1, <1>5, <1>7 DEF CountInv, WaitMeansDone
<1> QED  BY <1>4, <1>6, <1>7 DEF WaitMeansDone, Left

LEMMA StepCounts == CountInv /\ [Next]_vars => CountInv'
<1> SUFFICES ASSUME CountInv, [Next]_vars PROVE CountInv'
  OBVIOUS
<1>1. LockInv'
  BY StepKeeps DEF CountInv
<1>2. CASE LatchStep /\ UNCHANGED pool
  BY <1>1, <1>2, LatchStepCounts DEF CountInv
<1>3. CASE PoolStep /\ UNCHANGED latch
  <2>1. \A c \in Callers : pc'[c] = "done" <=> pc[c] = "done"
    BY <1>3, PoolStepLeft DEF CountInv
  <2>2. Left' = Left
    BY <2>1 DEF Left
  <2> QED  BY <1>1, <1>3, <2>1, <2>2 DEF CountInv, LatchTypeOK, WaitMeansDone, latch, Left
<1>4. ASSUME NEW c \in Callers, Task(c) PROVE CountInv'
  BY <1>1, <1>4, TaskCounts DEF CountInv
<1>5. CASE UNCHANGED vars
  BY <1>1, <1>5 DEF CountInv, LatchTypeOK, WaitMeansDone, vars, latch, pool
<1> QED  BY <1>2, <1>3, <1>4, <1>5 DEF Next

LEMMA CountInvariant == Spec => []CountInv
BY InitCountInv, StepCounts, PTL DEF Spec

(* The variables of latch and pool keep their types.                       *)
THEOREM TypeCorrect == Spec => []TypeOK
<1>1. CountInv => TypeOK
  BY DEF CountInv, LockInv, TypeOK
<1> QED  BY <1>1, CountInvariant, PTL

(* wait returns only when all tasks are done, and each is counted once     *)
(* (CountDownLatch.cc:9-12, 19), for any threads, tasks and pool.          *)
THEOREM WaitReturnsWhenDone == Spec => []WaitMeansDone
<1>1. CountInv => WaitMeansDone
  BY DEF CountInv
<1> QED  BY <1>1, CountInvariant, PTL

(* A thread of a pool that has locked mutex_ twice stays there and keeps   *)
(* it, a task handed to such a pool is never done, and so no waiter is     *)
(* released (ThreadPool.cc:66, 104).                                       *)
THEOREM NeverUnlocked == Spec => SecondLockHangs
<1> DEFINE Stuck ==
      /\ \A t \in PoolThreads : pc[t] = "again" => pc'[t] = "again" /\ mutex_' = mutex_
      /\ \A c \in Callers : Handed(c) =>
            Handed(c)' /\ count_' > 0 /\ \A w \in Waiters : waiter'[w] # "returned"
<1>1. CountInv /\ [Next]_vars => [Stuck]_vars
  <2> SUFFICES ASSUME CountInv, [Next]_vars, ~UNCHANGED vars PROVE Stuck
    OBVIOUS
  <2>1. HeldFast /\ CountInv'
    BY StepKeeps, StepCounts DEF CountInv
  <2>2. ASSUME NEW c \in Callers, Handed(c)
        PROVE  Handed(c)' /\ count_' > 0 /\ \A w \in Waiters : waiter'[w] # "returned"
    <3>1. Handed(c)' /\ pc'[c] # "done"
      BY <2>1, <2>2 DEF HeldFast, Handed
    <3>2. \A w \in Waiters : waiter'[w] # "returned"
      BY <2>1, <3>1 DEF CountInv, WaitMeansDone
    <3>3. count_' = Cardinality(Left')
      BY <2>1 DEF CountInv, WaitMeansDone, Left
    <3>4. Left' # {}
      BY <3>1 DEF Left
    <3>5. IsFiniteSet(Left') /\ Cardinality(Left') \in Nat
      <4>1. Left' \subseteq Callers
        BY DEF Left
      <4> QED  BY <4>1, OneCountPerTask, FS_Subset, FS_CardinalityType DEF OneCountPerTask
    <3>6. Cardinality(Left') # 0
      BY <3>4, <3>5, FS_EmptySet
    <3> QED  BY <3>1, <3>2, <3>3, <3>5, <3>6
  <2> QED  BY <2>1, <2>2 DEF HeldFast
<1> QED  BY <1>1, CountInvariant, PTL DEF Spec, SecondLockHangs
=============================================================================
