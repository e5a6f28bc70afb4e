------------------------- MODULE EventLoopThreadPool ------------------------
(***************************************************************************)
(* The I/O threads of a server (src/src/EventLoopThreadPool.{h,cc},        *)
(* src/src/EventLoopThread.{h,cc}): the thread of the base loop starts one *)
(* EventLoopThread after the other, hands their loops out in turn, and in  *)
(* the end destroys them.  Each thread has its EventLoop on its stack and  *)
(* lends the pointer to its EventLoopThread, loop_, from the moment the    *)
(* loop exists until just before it is destroyed.                          *)
(*                                                                         *)
(* Of an EventLoop only quit_, wakeupFd_ and the control of loop() are     *)
(* kept (EventLoop models the rest).                                       *)
(***************************************************************************)
EXTENDS Integers, Sequences

CONSTANTS numThreads_,
          MaxAssigned      \* bound on the connections that are given a loop

ASSUME PoolAssumption == numThreads_ \in Nat /\ MaxAssigned \in Nat

Threads == 1 .. numThreads_
BaseLoop == 0

VARIABLES
    base,        \* where the base loop's thread is: at, and with which thread
    loops_,      \* the pool's vector, by thread
    nextId_,
    loop_,       \* of each EventLoopThread: TRUE unless NULL
    thread,      \* where each thread is
    quit_, wakeupFd_,
    assigned,    \* history: how often each loop was handed out
    quitters,    \* history: threads whose user code called the loop's quit()
    failed

perThread == <<loop_, thread, quit_, wakeupFd_>>
history == <<assigned, quitters>>
vars == <<base, loops_, nextId_, perThread, history, failed>>

(* A loop exists from publish to unwind.                                   *)
ThreadLocations == {"none", "publish", "reset", "test", "poll", "run", "leave", "unwind", "done"}
LoopExists(t) == thread[t] \notin {"none", "done"}

BaseLocations == {"new", "start", "check", "wait", "woken", "return", "ready",
                  "destroy", "quit", "wakeup", "join", "destroyed"}

TypeOK ==
    /\ base \in [at : BaseLocations, t : 0 .. numThreads_ + 1]
    /\ loops_ \in Seq(Threads)
    /\ nextId_ \in Nat /\ (nextId_ = 0 \/ nextId_ + 1 \in DOMAIN loops_)
    /\ loop_ \in [Threads -> BOOLEAN]
    /\ thread \in [Threads -> ThreadLocations]
    /\ quit_ \in [Threads -> BOOLEAN]
    /\ wakeupFd_ \in [Threads -> BOOLEAN]
    /\ assigned \in [0 .. numThreads_ -> 0 .. MaxAssigned]
    /\ quitters \subseteq Threads
    /\ failed \in {"none", "null", "dangling"}

At(location, t) == [at |-> location, t |-> t]

Init ==
    /\ base = At("new", 0)
    /\ loops_ = << >>
    /\ nextId_ = 0
    /\ loop_ = [t \in Threads |-> FALSE]
    /\ thread = [t \in Threads |-> "none"]
    /\ quit_ = [t \in Threads |-> FALSE]
    /\ wakeupFd_ = [t \in Threads |-> FALSE]
    /\ assigned = [t \in 0 .. numThreads_ |-> 0]
    /\ quitters = {}
    /\ failed = "none"

Running == failed = "none"
BaseAt(location) == Running /\ base.at = location
BaseGoes(location) == base' = At(location, base.t)

-----------------------------------------------------------------------------
(* EventLoopThreadPool::start, and EventLoopThread::startLoop of thread    *)
(* base.t.  From lock to wait, which releases it, mutex_ is held: the test *)
(* of loop_ and the wait are one step.  A wait may end for no reason.      *)

NextToStart(t) == IF t < numThreads_ THEN At("start", t + 1) ELSE At("ready", 0)

start ==
    /\ BaseAt("new")
    /\ base' = NextToStart(0)
    /\ UNCHANGED <<loops_, nextId_, perThread, history, failed>>

startThread ==
    /\ BaseAt("start")
    /\ thread' = [thread EXCEPT ![base.t] = "publish"]
    /\ BaseGoes("check")
    /\ UNCHANGED <<loops_, nextId_, loop_, quit_, wakeupFd_, history, failed>>

(* Mutant: if instead of while.                                            *)
AwaitedOnce == loop_[base.t] \/ base.at = "woken"

Awaited == loop_[base.t]

checkLoop ==
    /\ BaseAt("check") \/ BaseAt("woken")
    /\ BaseGoes(IF Awaited THEN "return" ELSE "wait")
    /\ UNCHANGED <<loops_, nextId_, perThread, history, failed>>

spuriousWakeup ==
    /\ BaseAt("wait")
    /\ BaseGoes("woken")
    /\ UNCHANGED <<loops_, nextId_, perThread, history, failed>>

(* return loop_ reads it again, after the unlock.                          *)
returnLoop ==
    /\ BaseAt("return")
    /\ failed' = IF loop_[base.t] THEN failed ELSE "null"
    /\ loops_' = Append(loops_, base.t)
    /\ base' = NextToStart(base.t)
    /\ UNCHANGED <<nextId_, perThread, history>>

-----------------------------------------------------------------------------
(* Mutant: nextId_ does not wrap.                                          *)
NeverWraps == nextId_ + 1

NextId == IF loops_ = << >> \/ nextId_ + 1 = Len(loops_) THEN 0 ELSE nextId_ + 1

getNextLoop ==
    /\ BaseAt("ready")
    /\ LET loop == IF loops_ = << >> THEN BaseLoop ELSE loops_[nextId_ + 1]
       IN  /\ assigned[loop] < MaxAssigned
           /\ assigned' = [assigned EXCEPT ![loop] = @ + 1]
    /\ nextId_' = NextId
    /\ UNCHANGED <<base, loops_, perThread, quitters, failed>>

-----------------------------------------------------------------------------
(* The pool is destroyed, and with it one EventLoopThread after the other. *)
(* The destructor reads loop_ for its test and again for the call.         *)

NextToDestroy(t) == IF t < numThreads_ THEN At("destroy", t + 1) ELSE At("destroyed", t + 1)

destroyPool ==
    /\ BaseAt("ready")
    /\ base' = NextToDestroy(0)
    /\ UNCHANGED <<loops_, nextId_, perThread, history, failed>>

testLoop ==
    /\ BaseAt("destroy")
    /\ base' = IF loop_[base.t] THEN At("quit", base.t) ELSE NextToDestroy(base.t)
    /\ UNCHANGED <<loops_, nextId_, perThread, history, failed>>

quit ==
    /\ BaseAt("quit")
    /\ failed' = IF loop_[base.t] THEN failed ELSE "null"
    /\ quit_' = [quit_ EXCEPT ![base.t] = TRUE]
    /\ BaseGoes("wakeup")
    /\ UNCHANGED <<loops_, nextId_, loop_, thread, wakeupFd_, history>>

(* Mutant: nothing is written.                                             *)
wakeupLost ==
    /\ BaseAt("wakeup")
    /\ BaseGoes("join")
    /\ UNCHANGED <<loops_, nextId_, perThread, history, failed>>

wakeup ==
    /\ BaseAt("wakeup")
    /\ failed' = IF LoopExists(base.t) THEN failed ELSE "dangling"
    /\ wakeupFd_' = [wakeupFd_ EXCEPT ![base.t] = TRUE]
    /\ BaseGoes("join")
    /\ UNCHANGED <<loops_, nextId_, loop_, thread, quit_, history>>

(* Mutant: the thread is not waited for.                                   *)
JoinsAtOnce == TRUE

Joined == thread[base.t] = "done"

join ==
    /\ BaseAt("join")
    /\ Joined
    /\ base' = NextToDestroy(base.t)
    /\ UNCHANGED <<loops_, nextId_, perThread, history, failed>>

BaseStep ==
    \/ start \/ startThread \/ checkLoop \/ returnLoop
    \/ testLoop \/ quit \/ wakeup \/ join

-----------------------------------------------------------------------------
(* EventLoopThread::threadFunc.                                            *)

ThreadAt(t, location) == Running /\ thread[t] = location
ThreadGoes(t, location) == thread' = [thread EXCEPT ![t] = location]

(* Mutant: no notify.                                                      *)
NotNotified(t) == base

Notified(t) == IF base = At("wait", t) THEN At("woken", t) ELSE base

(* cond_.notify() wakes startLoop if it waits.                             *)
publish(t) ==
    /\ ThreadAt(t, "publish")
    /\ loop_' = [loop_ EXCEPT ![t] = TRUE]
    /\ base' = Notified(t)
    /\ ThreadGoes(t, "reset")
    /\ UNCHANGED <<loops_, nextId_, quit_, wakeupFd_, history, failed>>

(* loop(): quit_ = false, and the test of while (!quit_).                  *)
resetQuit(t) ==
    /\ ThreadAt(t, "reset")
    /\ quit_' = [quit_ EXCEPT ![t] = FALSE]
    /\ ThreadGoes(t, "test")
    /\ UNCHANGED <<base, loops_, nextId_, loop_, wakeupFd_, history, failed>>

testQuit(t) ==
    /\ ThreadAt(t, "test")
    /\ ThreadGoes(t, IF quit_[t] THEN "leave" ELSE "poll")
    /\ UNCHANGED <<base, loops_, nextId_, loop_, quit_, wakeupFd_, history, failed>>

(* poll returns for wakeupFd_, or for another reason.                      *)
poll(t) ==
    /\ ThreadAt(t, "poll")
    /\ wakeupFd_' = [wakeupFd_ EXCEPT ![t] = FALSE]
    /\ ThreadGoes(t, "run")
    /\ UNCHANGED <<base, loops_, nextId_, loop_, quit_, history, failed>>

(* Handlers and functors.  Once the loop has been handed out, they are     *)
(* user code that may call its quit().                                     *)
run(t) ==
    /\ ThreadAt(t, "run")
    /\ \/ UNCHANGED <<quit_, quitters>>
       \/ /\ assigned[t] > 0
          /\ quit_' = [quit_ EXCEPT ![t] = TRUE]
          /\ quitters' = quitters \cup {t}
    /\ ThreadGoes(t, "test")
    /\ UNCHANGED <<base, loops_, nextId_, loop_, wakeupFd_, assigned, failed>>

clearLoop(t) ==
    /\ ThreadAt(t, "leave")
    /\ loop_' = [loop_ EXCEPT ![t] = FALSE]
    /\ ThreadGoes(t, "unwind")
    /\ UNCHANGED <<base, loops_, nextId_, quit_, wakeupFd_, history, failed>>

(* ~EventLoop.                                                             *)
unwind(t) ==
    /\ ThreadAt(t, "unwind")
    /\ ThreadGoes(t, "done")
    /\ UNCHANGED <<base, loops_, nextId_, loop_, quit_, wakeupFd_, history, failed>>

(* What a thread does without waiting for anything but wakeupFd_.          *)
Proceeds(t) ==
    \/ publish(t) \/ resetQuit(t) \/ testQuit(t)
    \/ wakeupFd_[t] /\ poll(t)
    \/ run(t) \/ clearLoop(t) \/ unwind(t)

ThreadStep(t) == Proceeds(t) \/ poll(t)

-----------------------------------------------------------------------------
Next ==
    \/ BaseStep \/ spuriousWakeup \/ getNextLoop \/ destroyPool
    \/ \E t \in Threads : ThreadStep(t)

Spec == Init /\ [][Next]_vars

(* Threads that can go on do; a poll with wakeupFd_ readable returns.      *)
(* Nobody need destroy the pool, no other event need wake a poll.          *)
Fairness ==
    /\ WF_vars(BaseStep)
    /\ \A t \in Threads : WF_vars(Proceeds(t))

FairSpec == Spec /\ Fairness

-----------------------------------------------------------------------------
(* The destructor of EventLoopThread t has returned.                       *)
Destroyed(t) == base.at \in {"destroy", "quit", "wakeup", "join", "destroyed"} /\ t < base.t

(* startLoop returns a loop that exists, no notify being lost and no       *)
(* wakeup without one being believed; and the loops last until their       *)
(* destructors have set quit_, except those whose own user code quits.     *)
Told(t) == base.at \in {"wakeup", "join"} /\ base.t = t

StartedLoopsExist ==
    /\ failed = "null" => base.t \in quitters
    /\ \A i \in DOMAIN loops_ :
          LET t == loops_[i]
          IN  ~Destroyed(t) /\ ~Told(t) /\ t \notin quitters => loop_[t] /\ LoopExists(t)

(* When an EventLoopThread is gone its thread is past its last use of it,  *)
(* the assignment loop_ = NULL, also if the thread was not joined.         *)
NotUsedAfterDestroy == \A t \in Threads : Destroyed(t) => thread[t] \in {"unwind", "done"}

(* startLoop does not wait for ever.                                       *)
PoolStarts == (base.at = "start") ~> (base.at = "ready" \/ ~Running)

(* The destructor's join does not wait for ever, provided that the loop    *)
(* had begun when it was told to quit: resetQuit forgets an earlier call.  *)
JoinReturns ==
    \A t \in Threads :
        (base = At("wakeup", t) /\ thread[t] # "reset" /\ quit_[t])
            ~> (Destroyed(t) \/ ~Running)
=============================================================================
