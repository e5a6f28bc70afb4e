---------------------- MODULE EventLoopThreadPoolProofs ----------------------
(***************************************************************************)
(* The life of the loops of a pool, for any number of threads.             *)
(***************************************************************************)
EXTENDS EventLoopThreadPool, SequenceTheorems, TLAPS

Starting == {"start", "check", "wait", "woken", "return"}
Destroying == {"destroy", "quit", "wakeup", "join"}

BaseInRange ==
    /\ base.at \in {"new", "ready"} => base.t = 0
    /\ base.at \in Starting \cup Destroying => base.t \in Threads
    /\ base.at = "destroyed" => base.t = numThreads_ + 1

(* The loops stand in the vector in the order of their threads.            *)
Returned == IF base.at = "new" THEN 0
            ELSE IF base.at \in Starting THEN base.t - 1 ELSE numThreads_

LoopsInOrder == Len(loops_) = Returned /\ \A i \in 1 .. Returned : loops_[i] = i

(* Whose thread has been started, and whose loop published.                *)
Begun(t) == t <= Returned \/ (base.at \in Starting \ {"start"} /\ t = base.t)

Published(t) == t <= Returned \/ (base.at = "return" /\ t = base.t)

ThreadsBegun ==
    \A t \in Threads : /\ ~Begun(t) => thread[t] = "none"
                       /\ Published(t) => thread[t] \notin {"none", "publish"}

(* The pointer is lent while the thread is inside loop().                  *)
LentInLoop ==
    \A t \in Threads : loop_[t] <=> thread[t] \in {"reset", "test", "poll", "run", "leave"}

(* A loop is handed out only by the started pool, so it is told to quit    *)
(* by its own user code or by the destructor of its EventLoopThread.       *)
HandedOutWhenReady ==
    base.at \in Starting \cup {"new"} =>
        quitters = {} /\ \A t \in Threads : assigned[t] = 0

Quitting(t) == t \in quitters \/ Told(t) \/ Destroyed(t)

QuitsWhenTold ==
    \A t \in Threads :
        quit_[t] \/ thread[t] \in {"leave", "unwind", "done"} => Quitting(t)

PoolInv ==
    /\ TypeOK /\ BaseInRange /\ LoopsInOrder /\ ThreadsBegun /\ LentInLoop
    /\ HandedOutWhenReady /\ QuitsWhenTold /\ NotUsedAfterDestroy
    /\ failed = "null" => base.t \in quitters

-----------------------------------------------------------------------------
LEMMA InitPoolInv == Init => PoolInv
<1> SUFFICES ASSUME Init PROVE PoolInv
  OBVIOUS
<1> USE PoolAssumption DEF PoolAssumption, Init, At, Threads
<1>1. TypeOK
  BY DEF TypeOK, BaseLocations, ThreadLocations
<1>2. BaseInRange /\ LoopsInOrder /\ LentInLoop
  BY DEF BaseInRange, LoopsInOrder, LentInLoop, Returned, Starting, Destroying
<1>3. ThreadsBegun
  BY DEF ThreadsBegun, Begun, Published, Returned, Starting
<1>4. HandedOutWhenReady /\ QuitsWhenTold /\ NotUsedAfterDestroy
  BY DEF HandedOutWhenReady, QuitsWhenTold, NotUsedAfterDestroy, Destroyed
<1> QED  BY <1>1, <1>2, <1>3, <1>4 DEF PoolInv

(* What the rest of the proofs use of the types.                           *)
LEMMA PoolTypes ==
    ASSUME PoolInv
    PROVE  /\ base = At(base.at, base.t) /\ base.at \in BaseLocations
           /\ base.t \in 0 .. numThreads_ + 1 /\ numThreads_ \in Nat
           /\ loops_ \in Seq(Threads) /\ DOMAIN loops_ = 1 .. Returned /\ Returned \in Nat
BY PoolAssumption, LenProperties
   DEF PoolAssumption, PoolInv, TypeOK, At, LoopsInOrder, Returned, BaseInRange, Threads,
       Starting, Destroying

(* Where the thread of the base loop goes when it writes only base.        *)
BaseMove ==
    \/ /\ base.at = "new"
       /\ IF numThreads_ = 0 THEN base'.at = "ready" /\ base'.t = 0
                             ELSE base'.at = "start" /\ base'.t = 1
    \/ /\ base.at \in {"check", "wait", "woken"} /\ base'.t = base.t
       /\ \/ base'.at \in {"wait", "woken"}
          \/ base'.at = "return" /\ loop_[base.t]
    \/ /\ \/ base.at = "ready"
          \/ base.at = "destroy" /\ ~loop_[base.t]
          \/ base.at = "join" /\ thread[base.t] = "done"
       /\ base'.t = base.t + 1
       /\ base'.at = IF base.t < numThreads_ THEN "destroy" ELSE "destroyed"
    \/ base.at = "destroy" /\ loop_[base.t] /\ base'.at = "quit" /\ base'.t = base.t

LEMMA BaseMoves ==
    ASSUME PoolInv, Running, UNCHANGED <<loops_, nextId_, perThread, history, failed>>,
           \/ start \/ checkLoop \/ spuriousWakeup \/ destroyPool \/ testLoop \/ join
    PROVE  PoolInv'
<1>1. BaseMove /\ base' = At(base'.at, base'.t)
  BY PoolTypes, PoolAssumption
     DEF PoolAssumption, BaseMove, At, Threads, BaseAt, BaseGoes, NextToStart, NextToDestroy,
         start, checkLoop, spuriousWakeup, destroyPool, testLoop, join, Awaited, Joined,
         PoolInv, BaseInRange
<1>2. UNCHANGED <<loops_, nextId_, loop_, thread, quit_, wakeupFd_, assigned, quitters, failed>>
  BY DEF perThread, history
<1> USE PoolTypes DEF Starting, Destroying, Threads
<1>3. BaseInRange'
  BY <1>1 DEF BaseMove, PoolInv, BaseInRange
<1>4. TypeOK'
  BY <1>1, <1>2, <1>3 DEF BaseMove, PoolInv, TypeOK, BaseInRange, At, BaseLocations
<1>5. Returned' = Returned
  BY <1>1 DEF BaseMove, PoolInv, BaseInRange, Returned
<1>6. LoopsInOrder' /\ LentInLoop'
  BY <1>2, <1>5 DEF PoolInv, LoopsInOrder, LentInLoop
<1>7. ASSUME NEW u \in Threads
      PROVE  /\ Begun(u)' <=> Begun(u)
             /\ Published(u)' => Published(u) \/ loop_[u]
             /\ Destroyed(u)' => Destroyed(u) \/ ~loop_[u] \/ thread[u] = "done"
             /\ Quitting(u) => Quitting(u)'
  <2>1. u \in 1 .. numThreads_ /\ base'.t \in Int /\ base.t \in Int
    BY <1>4, PoolTypes DEF TypeOK, BaseInRange
  <2>2. Begun(u)' <=> Begun(u)
    BY <2>1, <1>1, <1>5 DEF BaseMove, Begun, PoolInv, BaseInRange, Returned
  <2>3. Published(u)' => Published(u) \/ loop_[u]
    BY <2>1, <1>1, <1>5 DEF BaseMove, Published
  <2>4. Destroyed(u)' => Destroyed(u) \/ ~loop_[u] \/ thread[u] = "done"
    BY <2>1, <1>1 DEF BaseMove, Destroyed, PoolInv, BaseInRange
  <2>5. Quitting(u) => Quitting(u)'
    BY <2>1, <1>1, <1>2 DEF BaseMove, Quitting, Told, Destroyed, PoolInv, BaseInRange
  <2> QED  BY <2>2, <2>3, <2>4, <2>5
<1>8. ThreadsBegun'
  BY <1>2, <1>7 DEF PoolInv, ThreadsBegun, LentInLoop
<1>9. HandedOutWhenReady'
  BY <1>1, <1>2 DEF BaseMove, PoolInv, HandedOutWhenReady
<1>10. QuitsWhenTold'
  BY <1>2, <1>7 DEF PoolInv, QuitsWhenTold
<1>11. NotUsedAfterDestroy'
  <2> SUFFICES ASSUME NEW u \in Threads, Destroyed(u)' PROVE thread[u] \in {"unwind", "done"}
    BY <1>2 DEF NotUsedAfterDestroy
  <2>1. CASE Destroyed(u) \/ thread[u] = "done"
    BY <2>1 DEF PoolInv, NotUsedAfterDestroy
  <2>2. CASE ~loop_[u]
    <3>1. Published(u)
      BY <1>1 DEF BaseMove, Destroyed, Published, Returned, PoolInv, BaseInRange
    <3> QED  BY <3>1, <2>2 DEF PoolInv, LentInLoop, ThreadsBegun, TypeOK, ThreadLocations
  <2> QED  BY <2>1, <2>2, <1>7
<1> QED  BY <1>2, <1>3, <1>4, <1>6, <1>8, <1>9, <1>10, <1>11 DEF PoolInv, Running

(* The steps of the base loop's thread on the thread or the loop base.t.   *)
LEMMA StartThreadStep ==
    ASSUME PoolInv, startThread
    PROVE  PoolInv'
<1>1. /\ base.at = "start" /\ base'.at = "check" /\ base'.t = base.t
      /\ base' = At("check", base.t) /\ base.t \in Threads /\ base.t \in Int
      /\ thread' = [thread EXCEPT ![base.t] = "publish"]
      /\ UNCHANGED <<loops_, nextId_, loop_, quit_, wakeupFd_, assigned, quitters, failed>>
      /\ failed = "none"
  BY PoolTypes
     DEF startThread, BaseAt, Running, BaseGoes, At, history, PoolInv, BaseInRange, Starting
<1>2. thread[base.t] = "none" /\ thread \in [Threads -> ThreadLocations]
  BY <1>1, PoolTypes DEF PoolInv, TypeOK, ThreadsBegun, Begun, Returned, Starting
<1>3. TypeOK'
  BY <1>1, <1>2 DEF PoolInv, TypeOK, At, BaseLocations, ThreadLocations
<1>4. Returned' = Returned /\ Returned = base.t - 1
  BY <1>1 DEF Returned, Starting
<1>5. BaseInRange' /\ LoopsInOrder' /\ HandedOutWhenReady'
  BY <1>1, <1>4
     DEF PoolInv, BaseInRange, LoopsInOrder, HandedOutWhenReady, Starting, Destroying
<1>6. \A u \in Threads : (Begun(u)' <=> Begun(u) \/ u = base.t) /\ (Published(u)' => u < base.t)
  BY <1>1, <1>4 DEF Begun, Published, Starting, Threads
<1>7. ThreadsBegun'
  BY <1>1, <1>2, <1>4, <1>6 DEF PoolInv, ThreadsBegun, Published, Threads
<1>8. LentInLoop'
  BY <1>1, <1>2 DEF PoolInv, LentInLoop
<1>9. QuitsWhenTold' /\ NotUsedAfterDestroy'
  BY <1>1, <1>2 DEF PoolInv, QuitsWhenTold, NotUsedAfterDestroy, Quitting, Told, Destroyed
<1> QED  BY <1>1, <1>3, <1>5, <1>7, <1>8, <1>9 DEF PoolInv

LEMMA ReturnLoopStep ==
    ASSUME PoolInv, returnLoop
    PROVE  PoolInv' /\ failed' = "none"
<1>1. /\ base.at = "return" /\ base.t \in Threads /\ base.t \in Int
      /\ base' = NextToStart(base.t)
      /\ loops_' = Append(loops_, base.t)
      /\ failed' = IF loop_[base.t] THEN "none" ELSE "null"
      /\ UNCHANGED <<nextId_, loop_, thread, quit_, wakeupFd_, assigned, quitters>>
  BY PoolTypes
     DEF returnLoop, BaseAt, Running, history, perThread, PoolInv, BaseInRange, Starting
<1>2. Returned = base.t - 1
  BY <1>1 DEF Returned, Starting
<1>3. loop_[base.t]
  <2>1. thread[base.t] \in ThreadLocations \ {"none", "publish"}
    BY <1>1 DEF PoolInv, TypeOK, ThreadsBegun, Published
  <2>2. ~Quitting(base.t)
    BY <1>1, PoolTypes
       DEF PoolInv, HandedOutWhenReady, Quitting, Told, Destroyed, Starting, Destroying
  <2> QED
    BY <1>1, <2>1, <2>2 DEF PoolInv, QuitsWhenTold, LentInLoop, ThreadLocations
<1>4. \/ base'.at = "start" /\ base'.t = base.t + 1 /\ base.t < numThreads_
      \/ base'.at = "ready" /\ base'.t = 0 /\ base.t = numThreads_
  BY <1>1, PoolAssumption DEF PoolAssumption, NextToStart, At, Threads
<1>5. base' = At(base'.at, base'.t) /\ Returned' = base.t
  BY <1>1, <1>4 DEF NextToStart, At, Returned, Starting
<1>6. loops_' \in Seq(Threads) /\ Len(loops_') = base.t /\ \A i \in 1 .. base.t : loops_'[i] = i
  BY <1>1, <1>2, PoolTypes, AppendProperties DEF PoolInv, LoopsInOrder, Threads
<1>7. LoopsInOrder'
  BY <1>5, <1>6 DEF LoopsInOrder
<1>8. BaseInRange' /\ HandedOutWhenReady'
  BY <1>1, <1>4, PoolAssumption
     DEF PoolInv, BaseInRange, HandedOutWhenReady, PoolAssumption, Starting, Destroying, Threads
<1>9. nextId_' = 0 \/ nextId_' + 1 \in DOMAIN loops_'
  BY <1>1, <1>2, <1>6, PoolTypes, LenProperties DEF PoolInv, TypeOK, Threads
<1>10. TypeOK'
  BY <1>1, <1>3, <1>4, <1>5, <1>6, <1>9, PoolAssumption
     DEF PoolAssumption, PoolInv, TypeOK, At, BaseLocations, Threads
<1>11. \A u \in Threads : (Begun(u)' <=> Begun(u)) /\ (Published(u)' <=> Published(u))
  BY <1>1, <1>2, <1>4, <1>5 DEF Begun, Published, Starting, Threads
<1>12. ThreadsBegun' /\ LentInLoop'
  BY <1>1, <1>11 DEF PoolInv, ThreadsBegun, LentInLoop
<1>13. QuitsWhenTold' /\ NotUsedAfterDestroy'
  BY <1>1, <1>4
     DEF PoolInv, QuitsWhenTold, NotUsedAfterDestroy, Quitting, Told, Destroyed
<1> QED  BY <1>1, <1>3, <1>7, <1>8, <1>10, <1>12, <1>13 DEF PoolInv

LEMMA QuitStep ==
    ASSUME PoolInv, quit
    PROVE  PoolInv'
<1>1. /\ base.at = "quit" /\ base'.at = "wakeup" /\ base'.t = base.t
      /\ base' = At("wakeup", base.t) /\ base.t \in Threads /\ base.t \in Int
      /\ failed' = IF loop_[base.t] THEN "none" ELSE "null"
      /\ quit_' = [quit_ EXCEPT ![base.t] = TRUE]
      /\ UNCHANGED <<loops_, nextId_, loop_, thread, wakeupFd_, assigned, quitters>>
  BY PoolTypes
     DEF quit, BaseAt, Running, BaseGoes, At, history, PoolInv, BaseInRange, Destroying
<1>2. TypeOK'
  BY <1>1 DEF PoolInv, TypeOK, At, BaseLocations
<1>3. Returned' = numThreads_ /\ Returned = numThreads_
  BY <1>1 DEF Returned, Starting
<1>4. BaseInRange' /\ LoopsInOrder' /\ HandedOutWhenReady' /\ LentInLoop'
  BY <1>1, <1>3
     DEF PoolInv, BaseInRange, LoopsInOrder, HandedOutWhenReady, LentInLoop, Starting, Destroying
<1>5. \A u \in Threads : (Destroyed(u)' <=> Destroyed(u)) /\ (Told(u)' <=> u = base.t)
  BY <1>1 DEF Destroyed, Told
<1>6. ThreadsBegun'
  BY <1>1, <1>3 DEF PoolInv, ThreadsBegun, Begun, Published, Starting
<1>7. QuitsWhenTold'
  BY <1>1, <1>5 DEF PoolInv, TypeOK, QuitsWhenTold, Quitting, Told
<1>8. NotUsedAfterDestroy'
  BY <1>1, <1>5 DEF PoolInv, NotUsedAfterDestroy
<1>9. ~loop_[base.t] => base.t \in quitters
  <2>1. thread[base.t] \in ThreadLocations \ {"none", "publish"}
    BY <1>1, <1>3 DEF PoolInv, TypeOK, ThreadsBegun, Published, Threads
  <2>2. ~Told(base.t) /\ ~Destroyed(base.t)
    BY <1>1 DEF Told, Destroyed
  <2> QED
    BY <1>1, <2>1, <2>2 DEF PoolInv, QuitsWhenTold, Quitting, LentInLoop, ThreadLocations
<1> QED  BY <1>1, <1>2, <1>4, <1>6, <1>7, <1>8, <1>9 DEF PoolInv

LEMMA WakeupStep ==
    ASSUME PoolInv, wakeup
    PROVE  PoolInv'
<1>1. /\ base.at = "wakeup" /\ base'.at = "join" /\ base'.t = base.t
      /\ base' = At("join", base.t) /\ base.t \in Threads /\ base.t \in Int
      /\ failed' \in {"none", "dangling"}
      /\ wakeupFd_' = [wakeupFd_ EXCEPT ![base.t] = TRUE]
      /\ UNCHANGED <<loops_, nextId_, loop_, thread, quit_, assigned, quitters>>
  BY PoolTypes
     DEF wakeup, BaseAt, Running, BaseGoes, At, history, PoolInv, BaseInRange, Destroying
<1>2. TypeOK'
  BY <1>1 DEF PoolInv, TypeOK, At, BaseLocations
<1>3. Returned' = Returned
  BY <1>1 DEF Returned, Starting
<1>4. BaseInRange' /\ LoopsInOrder' /\ HandedOutWhenReady' /\ LentInLoop'
  BY <1>1, <1>3
     DEF PoolInv, BaseInRange, LoopsInOrder, HandedOutWhenReady, LentInLoop, Starting, Destroying
<1>5. \A u \in Threads : (Destroyed(u)' <=> Destroyed(u)) /\ (Told(u)' <=> Told(u))
  BY <1>1 DEF Destroyed, Told
<1>6. ThreadsBegun'
  BY <1>1, <1>3 DEF PoolInv, ThreadsBegun, Begun, Published, Starting
<1>7. QuitsWhenTold' /\ NotUsedAfterDestroy'
  BY <1>1, <1>5 DEF PoolInv, QuitsWhenTold, Quitting, NotUsedAfterDestroy
<1> QED  BY <1>1, <1>2, <1>4, <1>6, <1>7 DEF PoolInv

LEMMA GetNextLoopStep ==
    ASSUME PoolInv, getNextLoop
    PROVE  PoolInv'
<1>1. base.at = "ready" /\ UNCHANGED <<base, loops_, loop_, thread, quit_, wakeupFd_, quitters, failed>>
  BY DEF getNextLoop, BaseAt, perThread
<1>2. nextId_' \in Nat /\ (nextId_' = 0 \/ nextId_' + 1 \in DOMAIN loops_)
  <2> SUFFICES ASSUME nextId_' # 0
               PROVE  nextId_' \in Nat /\ nextId_' + 1 \in DOMAIN loops_
    OBVIOUS
  <2>1. nextId_' = nextId_ + 1 /\ loops_ # << >> /\ nextId_ + 1 # Len(loops_)
    BY DEF getNextLoop, NextId
  <2>2. loops_ \in Seq(Threads) /\ Len(loops_) # 0 /\ DOMAIN loops_ = 1 .. Len(loops_)
    BY <2>1, PoolTypes, LenProperties, EmptySeq
  <2>3. nextId_ \in Nat /\ Len(loops_) \in Nat /\ nextId_ < Len(loops_)
    BY <2>2, LenProperties DEF PoolInv, TypeOK
  <2>4. nextId_' \in Nat /\ nextId_' + 1 \in 1 .. Len(loops_)
    BY <2>1, <2>3
  <2> QED  BY <2>2, <2>4
<1>3. assigned' \in [0 .. numThreads_ -> 0 .. MaxAssigned]
  <2> DEFINE loop == IF loops_ = << >> THEN BaseLoop ELSE loops_[nextId_ + 1]
  <2>1. assigned[loop] < MaxAssigned /\ assigned' = [assigned EXCEPT ![loop] = assigned[loop] + 1]
    BY DEF getNextLoop
  <2>2. assigned \in [0 .. numThreads_ -> 0 .. MaxAssigned]
    BY DEF PoolInv, TypeOK
  <2>3. loop \in 0 .. numThreads_
    <3>1. CASE loops_ = << >>
      BY <3>1, PoolAssumption DEF PoolAssumption, BaseLoop
    <3>2. CASE loops_ # << >>
      <4>1. loops_ \in Seq(Threads) /\ Len(loops_) # 0 /\ DOMAIN loops_ = 1 .. Len(loops_)
        BY <3>2, PoolTypes, LenProperties, EmptySeq
      <4>2. nextId_ + 1 \in 1 .. Len(loops_)
        BY <4>1, LenProperties DEF PoolInv, TypeOK
      <4>3. loops_[nextId_ + 1] \in Threads
        BY <4>1, <4>2, ElementOfSeq
      <4> QED  BY <3>2, <4>3, PoolAssumption DEF PoolAssumption, Threads
    <3> QED  BY <3>1, <3>2
  <2>4. assigned[loop] \in 0 .. MaxAssigned
    BY <2>2, <2>3
  <2>5. assigned[loop] + 1 \in 0 .. MaxAssigned
    BY <2>1, <2>4, PoolAssumption DEF PoolAssumption
  <2> HIDE DEF loop
  <2> QED  BY <2>1, <2>2, <2>5
<1>4. TypeOK'
  BY <1>1, <1>2, <1>3 DEF PoolInv, TypeOK
<1> QED
  BY <1>1, <1>4
     DEF PoolInv, BaseInRange, LoopsInOrder, Returned, ThreadsBegun, Begun, Published,
         LentInLoop, HandedOutWhenReady, QuitsWhenTold, Quitting, Told, Destroyed,
         NotUsedAfterDestroy, Starting, Destroying

(* The steps of a started thread.                                          *)
LEMMA ThreadMoves ==
    ASSUME PoolInv, NEW t \in Threads, Running, NEW from \in ThreadLocations \ {"none"},
           thread[t] = from, NEW to \in ThreadLocations \ {"none"}, ThreadGoes(t, to),
           base' = base \/ (from = "publish" /\ base' = Notified(t)),
           to = "publish" => from = "publish",
           from \in {"unwind", "done"} => to \in {"unwind", "done"},
           loop_' \in [Threads -> BOOLEAN],
           loop_'[t] <=> to \in {"reset", "test", "poll", "run", "leave"},
           \A u \in Threads \ {t} : loop_'[u] = loop_[u] /\ quit_'[u] = quit_[u],
           quit_' \in [Threads -> BOOLEAN], wakeupFd_' \in [Threads -> BOOLEAN],
           quitters' = quitters \/ (assigned[t] > 0 /\ quitters' = quitters \cup {t}),
           quit_'[t] => quit_[t] \/ t \in quitters',
           to \in {"leave", "unwind", "done"} => from \in {"leave", "unwind", "done"} \/ quit_[t],
           UNCHANGED <<loops_, nextId_, assigned, failed>>
    PROVE  PoolInv'
<1>1. /\ base' = At(base'.at, base.t) /\ base'.t = base.t
      /\ base'.at = base.at \/ (base.at = "wait" /\ base'.at = "woken")
  BY PoolTypes DEF Notified, At
<1>2. /\ thread' \in [Threads -> ThreadLocations] /\ thread'[t] = to
      /\ \A u \in Threads : u # t => thread'[u] = thread[u]
  BY DEF ThreadGoes, PoolInv, TypeOK
<1>3. TypeOK'
  BY <1>1, <1>2 DEF PoolInv, TypeOK, BaseLocations, At
<1>4. Returned' = Returned
  BY <1>1 DEF Returned, Starting
<1>5. BaseInRange' /\ LoopsInOrder'
  BY <1>1, <1>4 DEF PoolInv, BaseInRange, LoopsInOrder, Starting, Destroying
<1>6. LentInLoop'
  BY <1>2 DEF PoolInv, LentInLoop
<1>7. \A u \in Threads : /\ Begun(u)' <=> Begun(u)
                         /\ Published(u)' <=> Published(u)
                         /\ Destroyed(u)' <=> Destroyed(u)
                         /\ Told(u)' <=> Told(u)
  BY <1>1, <1>4 DEF Begun, Published, Destroyed, Told, Starting
<1>8. ThreadsBegun'
  BY <1>2, <1>7 DEF PoolInv, ThreadsBegun
<1>9. HandedOutWhenReady'
  BY <1>1 DEF PoolInv, HandedOutWhenReady, TypeOK, Starting
<1>10. \A u \in Threads : Quitting(u) \/ u \in quitters' => Quitting(u)'
  BY <1>7 DEF Quitting
<1>11. QuitsWhenTold'
  BY <1>2, <1>10 DEF PoolInv, QuitsWhenTold
<1>12. NotUsedAfterDestroy'
  BY <1>2, <1>7 DEF PoolInv, NotUsedAfterDestroy
<1> QED  BY <1>1, <1>3, <1>5, <1>6, <1>8, <1>9, <1>11, <1>12 DEF PoolInv, Running

LEMMA ThreadStepKeeps ==
    ASSUME PoolInv, NEW t \in Threads, ThreadStep(t)
    PROVE  PoolInv'
<1>0. /\ Running /\ thread[t] \in ThreadLocations
      /\ loop_ \in [Threads -> BOOLEAN] /\ quit_ \in [Threads -> BOOLEAN]
      /\ wakeupFd_ \in [Threads -> BOOLEAN]
      /\ loop_[t] <=> thread[t] \in {"reset", "test", "poll", "run", "leave"}
  BY DEF ThreadStep, Proceeds, publish, resetQuit, testQuit, poll, run, clearLoop, unwind,
         ThreadAt, PoolInv, TypeOK, LentInLoop
<1> USE DEF ThreadAt, ThreadLocations, history
<1>1. CASE publish(t)
  BY <1>0, <1>1, ThreadMoves DEF publish
<1>2. CASE resetQuit(t)
  BY <1>0, <1>2, ThreadMoves DEF resetQuit
<1>3. CASE testQuit(t)
  BY <1>0, <1>3, ThreadMoves DEF testQuit
<1>4. CASE poll(t)
  BY <1>0, <1>4, ThreadMoves DEF poll
<1>5. CASE run(t)
  BY <1>0, <1>5, ThreadMoves DEF run
<1>6. CASE clearLoop(t)
  BY <1>0, <1>6, ThreadMoves DEF clearLoop
<1>7. CASE unwind(t)
  BY <1>0, <1>7, ThreadMoves DEF unwind
<1> QED  BY <1>1, <1>2, <1>3, <1>4, <1>5, <1>6, <1>7 DEF ThreadStep, Proceeds

LEMMA PoolStepKeeps == PoolInv /\ [Next]_vars => PoolInv'
<1> SUFFICES ASSUME PoolInv, [Next]_vars PROVE PoolInv'
  OBVIOUS
<1>1. CASE start \/ checkLoop \/ spuriousWakeup \/ destroyPool \/ testLoop \/ join
  <2>1. Running /\ UNCHANGED <<loops_, nextId_, perThread, history, failed>>
    BY <1>1 DEF start, checkLoop, spuriousWakeup, destroyPool, testLoop, join, BaseAt
  <2> QED  BY <1>1, <2>1, BaseMoves
<1>2. CASE startThread \/ returnLoop \/ quit \/ wakeup
  BY <1>2, StartThreadStep, ReturnLoopStep, QuitStep, WakeupStep
<1>3. CASE getNextLoop
  BY <1>3, GetNextLoopStep
<1>4. ASSUME NEW t \in Threads, ThreadStep(t) PROVE PoolInv'
  BY <1>4, ThreadStepKeeps
<1>5. CASE UNCHANGED vars
  BY <1>5
     DEF vars, perThread, history, PoolInv, TypeOK, BaseInRange, LoopsInOrder, Returned,
         ThreadsBegun, Begun, Published, LentInLoop, HandedOutWhenReady, QuitsWhenTold,
         Quitting, Told, Destroyed, NotUsedAfterDestroy, Running
<1> QED  BY <1>1, <1>2, <1>3, <1>4, <1>5 DEF Next, BaseStep

LEMMA PoolInvariant == Spec => []PoolInv
BY InitPoolInv, PoolStepKeeps, PTL DEF Spec

-----------------------------------------------------------------------------
(* Every variable of the pool keeps its type: in particular getNextLoop    *)
(* never indexes the vector past its end.                                  *)
THEOREM TypeCorrect == Spec => []TypeOK
<1>1. PoolInv => TypeOK
  BY DEF PoolInv
<1> QED  BY <1>1, PoolInvariant, PTL

(* startLoop returns a loop that exists, however the thread's publishing   *)
(* and the waits are interleaved, and every loop in the vector exists      *)
(* until its destructor or its own user code has told it to quit.          *)
THEOREM LoopsExist == Spec => []StartedLoopsExist
<1>1. PoolInv => StartedLoopsExist
  <2> SUFFICES ASSUME PoolInv, NEW i \in DOMAIN loops_, ~Quitting(loops_[i])
               PROVE  loop_[loops_[i]] /\ LoopExists(loops_[i])
    BY DEF PoolInv, StartedLoopsExist, Quitting
  <2>1. loops_[i] = i /\ i \in 1 .. Returned /\ i \in Threads
    BY PoolTypes, ElementOfSeq, LenProperties DEF PoolInv, LoopsInOrder
  <2>2. thread[i] \in ThreadLocations \ {"none", "publish", "leave", "unwind", "done"}
    BY <2>1 DEF PoolInv, TypeOK, ThreadsBegun, Published, QuitsWhenTold
  <2> QED  BY <2>1, <2>2 DEF PoolInv, LentInLoop, LoopExists, ThreadLocations
<1> QED  BY <1>1, PoolInvariant, PTL

(* The destructor of an EventLoopThread, joining or not, returns only when *)
(* its thread is past its last use of the object.                          *)
THEOREM DestroyedAfterUse == Spec => []NotUsedAfterDestroy
<1>1. PoolInv => NotUsedAfterDestroy
  BY DEF PoolInv
<1> QED  BY <1>1, PoolInvariant, PTL
=============================================================================
