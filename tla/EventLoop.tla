----------------------------- MODULE EventLoop ------------------------------
(***************************************************************************)
(* EventLoop (src/src/EventLoop.{h,cc}): the reactor thread and the way    *)
(* other threads hand it work.                                             *)
(*                                                                         *)
(* The loop thread polls, runs the callbacks of the active channels, then  *)
(* runs the functors other code queued.  queueInLoop and quit may be       *)
(* called by any thread; they touch pendingFunctors_ under mutex_ and then *)
(* write wakeupFd_ so that a blocked poll returns.  A critical section of  *)
(* mutex_ is one step here; everything outside it is interleaved.          *)
(*                                                                         *)
(* The poller is abstracted to what the loop sees of it: a set of active   *)
(* channels, of which wakeupFd_ is one exactly when its counter is not     *)
(* zero.  Poller.tla models the poller itself.                             *)
(***************************************************************************)
EXTENDS Naturals, Sequences, Functions

CONSTANTS LoopThread,     \* the thread that constructed the EventLoop
          OtherThreads,   \* threads that call queueInLoop, runInLoop, quit
          Functors,       \* callbacks that may be outstanding at one time
          NoFunctor,      \* no functor is being run
          IoChannels,     \* channels of acceptors and connections
          EventfdMax      \* largest count an eventfd holds (2^64 - 2)

ASSUME ThreadsAssumption == LoopThread \notin OtherThreads
ASSUME FunctorsAssumption == NoFunctor \notin Functors
ASSUME ChannelsAssumption == {"timer", "wakeup"} \cap IoChannels = {}
ASSUME EventfdAssumption == EventfdMax \in Nat \ {0}

VARIABLES
    looping_,                  \* inside loop()
    quit_,                     \* plain bool, written by any thread
    activeChannels_,           \* channels poll returned, not yet handled
    callingPendingFunctor_,    \* inside doPendingFunctors_
    pendingFunctors_,          \* guarded by mutex_
    wakeupFd_,                 \* the eventfd's counter
    functors,                  \* local of doPendingFunctors_: still to run
    running,                   \* the functor the loop thread is inside of
    pc,                        \* where the loop thread is
    calls,                     \* a thread between its write of quit_ or
                               \* pendingFunctors_ and its call of wakeup
    early                      \* history: queued by the loop thread while
                               \* outside loop(), and still pending

vars == <<looping_, quit_, activeChannels_, callingPendingFunctor_,
          pendingFunctors_, wakeupFd_, functors, running, pc, calls, early>>

Threads == OtherThreads \cup {LoopThread}
Channels == IoChannels \cup {"timer", "wakeup"}

(* "outside": not in loop(); "reset": about to execute quit_ = false;      *)
(* "test": while(!quit_); "poll": blocked in poll; "dispatch": between two *)
(* channels; "callback": inside a channel's callback; "enter": about to    *)
(* set callingPendingFunctor_; "swap": about to take mutex_; "run":        *)
(* between two functors; "functor": inside one; "leave": after them.       *)
Locations == {"outside", "reset", "test", "poll", "dispatch", "callback",
              "enter", "swap", "run", "functor", "leave"}

TypeOK ==
    /\ looping_ \in BOOLEAN
    /\ quit_ \in BOOLEAN
    /\ activeChannels_ \in SUBSET Channels
    /\ callingPendingFunctor_ \in BOOLEAN
    /\ pendingFunctors_ \in Seq(Functors)
    /\ wakeupFd_ \in 0 .. EventfdMax
    /\ functors \in Seq(Functors)
    /\ running \in Functors \cup {NoFunctor}
    /\ pc \in Locations
    /\ calls \in [Threads -> {"idle", "wakeup"}]
    /\ early \in SUBSET Functors

Init ==
    /\ looping_ = FALSE
    /\ quit_ = FALSE
    /\ activeChannels_ = {}
    /\ callingPendingFunctor_ = FALSE
    /\ pendingFunctors_ = << >>
    /\ wakeupFd_ = 0
    /\ functors = << >>
    /\ running = NoFunctor
    /\ pc = "outside"
    /\ calls = [t \in Threads |-> "idle"]
    /\ early = {}

-----------------------------------------------------------------------------
(* Calls any thread can make.  The loop thread makes them from its own     *)
(* callbacks and functors, or while it is not in loop(); runInLoop called  *)
(* there runs its argument inside the caller's frame and so adds nothing   *)
(* to what the frame may do, and from another thread it is queueInLoop.    *)

isInLoopThread(t) == t = LoopThread

MayCall(t) ==
    /\ calls[t] = "idle"
    /\ isInLoopThread(t) => pc \in {"outside", "callback", "functor"}

(* Mutant: the loop thread never wakes itself.                             *)
NeedsWakeupOffLoop(t) == ~isInLoopThread(t)

(* The test of queueInLoop after it released mutex_.                       *)
NeedsWakeup(t) == ~isInLoopThread(t) \/ callingPendingFunctor_

queueInLoop(t, f) ==
    /\ MayCall(t)
    /\ f \notin Range(functors) \cup Range(pendingFunctors_)
    /\ pendingFunctors_' = Append(pendingFunctors_, f)
    /\ calls' = [calls EXCEPT ![t] = IF NeedsWakeup(t) THEN "wakeup" ELSE "idle"]
    /\ early' = IF isInLoopThread(t) /\ pc = "outside" THEN early \cup {f}
                                                       ELSE early
    /\ UNCHANGED <<looping_, quit_, activeChannels_, callingPendingFunctor_,
                   wakeupFd_, functors, running, pc>>

(* Mutant: no wakeup.                                                      *)
QuitSilently(t) ==
    /\ MayCall(t)
    /\ quit_' = TRUE
    /\ UNCHANGED <<calls, looping_, activeChannels_, callingPendingFunctor_,
                   pendingFunctors_, wakeupFd_, functors, running, pc, early>>

quit(t) ==
    /\ MayCall(t)
    /\ quit_' = TRUE
    /\ calls' = [calls EXCEPT ![t] = IF isInLoopThread(t) THEN "idle" ELSE "wakeup"]
    /\ UNCHANGED <<looping_, activeChannels_, callingPendingFunctor_,
                   pendingFunctors_, wakeupFd_, functors, running, pc, early>>

(* write(wakeupFd_, 1): the eventfd is non-blocking, so at EventfdMax the  *)
(* write fails, which the code ignores.                                    *)
wakeup(t) ==
    /\ calls[t] = "wakeup"
    /\ wakeupFd_' = IF wakeupFd_ = EventfdMax THEN wakeupFd_ ELSE wakeupFd_ + 1
    /\ calls' = [calls EXCEPT ![t] = "idle"]
    /\ UNCHANGED <<looping_, quit_, activeChannels_, callingPendingFunctor_,
                   pendingFunctors_, functors, running, pc, early>>

-----------------------------------------------------------------------------
(* The loop thread.                                                        *)

LoopAt(location) == pc = location /\ calls[LoopThread] = "idle"

loop ==
    /\ LoopAt("outside")
    /\ looping_' = TRUE
    /\ pc' = "reset"
    /\ UNCHANGED <<quit_, activeChannels_, callingPendingFunctor_, pendingFunctors_,
                   wakeupFd_, functors, running, calls, early>>

ResetQuit ==
    /\ LoopAt("reset")
    /\ quit_' = FALSE
    /\ pc' = "test"
    /\ UNCHANGED <<looping_, activeChannels_, callingPendingFunctor_, pendingFunctors_,
                   wakeupFd_, functors, running, calls, early>>

TestQuit ==
    /\ LoopAt("test")
    /\ pc' = IF quit_ THEN "outside" ELSE "poll"
    /\ looping_' = ~quit_
    /\ activeChannels_' = {}
    /\ UNCHANGED <<quit_, callingPendingFunctor_, pendingFunctors_, wakeupFd_,
                   functors, running, calls, early>>

(* Which channels poll may report: user channels whenever their peers make *)
(* them ready, wakeupFd_ exactly when its counter is not zero.             *)
Ready ==
    {s \in SUBSET Channels : "wakeup" \in s <=> wakeupFd_ > 0}

PollReturns ==
    /\ LoopAt("poll")
    /\ activeChannels_' \in Ready \ {{}}
    /\ pc' = "dispatch"
    /\ UNCHANGED <<looping_, quit_, callingPendingFunctor_, pendingFunctors_,
                   wakeupFd_, functors, running, calls, early>>

(* KPollTimeMs elapsed and nothing is ready.                               *)
PollTimesOut ==
    /\ LoopAt("poll")
    /\ wakeupFd_ = 0
    /\ activeChannels_' = {}
    /\ pc' = "dispatch"
    /\ UNCHANGED <<looping_, quit_, callingPendingFunctor_, pendingFunctors_,
                   wakeupFd_, functors, running, calls, early>>

(* activeChannels_ is in the order of pollfds_, where the timerfd is       *)
(* always first and wakeupFd_ always second (Poller.tla).                  *)
PollRank(c) == CASE c = "timer" -> 0 [] c = "wakeup" -> 1 [] OTHER -> 2

NextActive(c) ==
    /\ c \in activeChannels_
    /\ \A d \in activeChannels_ : PollRank(c) <= PollRank(d)

(* handleRead: read(wakeupFd_) returns the counter and clears it.          *)
handleRead ==
    /\ LoopAt("dispatch")
    /\ NextActive("wakeup")
    /\ wakeupFd_' = 0
    /\ activeChannels_' = activeChannels_ \ {"wakeup"}
    /\ UNCHANGED <<looping_, quit_, callingPendingFunctor_, pendingFunctors_,
                   functors, running, pc, calls, early>>

(* handleEvent of a channel whose callback runs user code.                 *)
handleEvent(c) ==
    /\ LoopAt("dispatch")
    /\ c # "wakeup"
    /\ NextActive(c)
    /\ activeChannels_' = activeChannels_ \ {c}
    /\ pc' = "callback"
    /\ UNCHANGED <<looping_, quit_, callingPendingFunctor_, pendingFunctors_,
                   wakeupFd_, functors, running, calls, early>>

CallbackReturns ==
    /\ LoopAt("callback")
    /\ pc' = "dispatch"
    /\ UNCHANGED <<looping_, quit_, activeChannels_, callingPendingFunctor_,
                   pendingFunctors_, wakeupFd_, functors, running, calls, early>>

AllHandled ==
    /\ LoopAt("dispatch")
    /\ activeChannels_ = {}
    /\ pc' = "enter"
    /\ UNCHANGED <<looping_, quit_, activeChannels_, callingPendingFunctor_,
                   pendingFunctors_, wakeupFd_, functors, running, calls, early>>

(* doPendingFunctors_, from its first assignment to its last.              *)
SetCalling ==
    /\ LoopAt("enter")
    /\ callingPendingFunctor_' = TRUE
    /\ pc' = "swap"
    /\ UNCHANGED <<looping_, quit_, activeChannels_, pendingFunctors_,
                   wakeupFd_, functors, running, calls, early>>

(* Mutant: the vector is copied, not swapped.                              *)
CopyPending ==
    /\ LoopAt("swap")
    /\ functors' = pendingFunctors_
    /\ early' = {}
    /\ pc' = "run"
    /\ UNCHANGED <<pendingFunctors_, looping_, quit_, activeChannels_,
                   callingPendingFunctor_, wakeupFd_, running, calls>>

SwapPending ==
    /\ LoopAt("swap")
    /\ functors' = pendingFunctors_
    /\ pendingFunctors_' = << >>
    /\ early' = {}
    /\ pc' = "run"
    /\ UNCHANGED <<looping_, quit_, activeChannels_, callingPendingFunctor_,
                   wakeupFd_, running, calls>>

(* Mutant: only the first functor of the batch is run.                     *)
RunFirstOnly ==
    /\ LoopAt("run")
    /\ functors # << >>
    /\ running' = Head(functors)
    /\ functors' = << >>
    /\ pc' = "functor"
    /\ UNCHANGED <<looping_, quit_, activeChannels_, callingPendingFunctor_,
                   pendingFunctors_, wakeupFd_, calls, early>>

RunFunctor ==
    /\ LoopAt("run")
    /\ functors # << >>
    /\ running' = Head(functors)
    /\ functors' = Tail(functors)
    /\ pc' = "functor"
    /\ UNCHANGED <<looping_, quit_, activeChannels_, callingPendingFunctor_,
                   pendingFunctors_, wakeupFd_, calls, early>>

FunctorReturns ==
    /\ LoopAt("functor")
    /\ running' = NoFunctor
    /\ pc' = "run"
    /\ UNCHANGED <<looping_, quit_, activeChannels_, callingPendingFunctor_,
                   pendingFunctors_, wakeupFd_, functors, calls, early>>

(* Mutant: functors are run until none is pending.                         *)
RunUntilNone ==
    /\ LoopAt("run")
    /\ functors = << >>
    /\ pc' = IF pendingFunctors_ = << >> THEN "leave" ELSE "swap"
    /\ UNCHANGED <<looping_, quit_, activeChannels_, callingPendingFunctor_,
                   pendingFunctors_, wakeupFd_, functors, running, calls, early>>

AllRun ==
    /\ LoopAt("run")
    /\ functors = << >>
    /\ pc' = "leave"
    /\ UNCHANGED <<looping_, quit_, activeChannels_, callingPendingFunctor_,
                   pendingFunctors_, wakeupFd_, functors, running, calls, early>>

(* Mutant: quit_ = false is inside the while.                              *)
ClearCallingAndQuit ==
    /\ LoopAt("leave")
    /\ callingPendingFunctor_' = FALSE
    /\ pc' = "reset"
    /\ UNCHANGED <<looping_, quit_, activeChannels_, pendingFunctors_,
                   wakeupFd_, functors, running, calls, early>>

ClearCalling ==
    /\ LoopAt("leave")
    /\ callingPendingFunctor_' = FALSE
    /\ pc' = "test"
    /\ UNCHANGED <<looping_, quit_, activeChannels_, pendingFunctors_,
                   wakeupFd_, functors, running, calls, early>>

doPendingFunctors ==
    SetCalling \/ SwapPending \/ RunFunctor \/ FunctorReturns \/ AllRun \/ ClearCalling

-----------------------------------------------------------------------------
Next ==
    \/ \E t \in Threads : (\E f \in Functors : queueInLoop(t, f)) \/ quit(t) \/ wakeup(t)
    \/ loop \/ ResetQuit \/ TestQuit
    \/ PollReturns \/ PollTimesOut
    \/ handleRead \/ (\E c \in Channels : handleEvent(c)) \/ CallbackReturns \/ AllHandled
    \/ doPendingFunctors

Spec == Init /\ [][Next]_vars

(* Fairness.  A thread that has work to do is scheduled, and a blocked     *)
(* poll whose wakeupFd_ is readable returns; user callbacks return.  No    *)
(* thread need ever call anything, no peer need make a channel ready and   *)
(* loop() need not be called.                                              *)
LoopThreadStep ==
    \/ ResetQuit \/ TestQuit
    \/ (wakeupFd_ > 0 /\ PollReturns)
    \/ handleRead \/ (\E c \in Channels : handleEvent(c)) \/ CallbackReturns \/ AllHandled
    \/ doPendingFunctors

Fairness ==
    /\ WF_vars(LoopThreadStep)
    /\ \A t \in Threads : WF_vars(wakeup(t))

(* The poll may block for ever when nothing is ready: what is promised     *)
(* without its timeout is promised at once.                                *)
FairSpec == Spec /\ Fairness

(* The kernel's poll also returns after KPollTimeMs.                       *)
Timeouts == WF_vars(PollTimesOut)

-----------------------------------------------------------------------------
(* Safety.                                                                 *)

(* Somebody has written, or is about to write, wakeupFd_.                  *)
WakeupComing == wakeupFd_ > 0 \/ \E t \in Threads : calls[t] = "wakeup"

(* The loop will take pendingFunctors_ before it polls again.              *)
BeforeSwap == pc \in {"dispatch", "callback", "enter", "swap"}

(* A functor that is pending when the loop polls, or will be pending when  *)
(* it next polls, comes with a wakeup: queueInLoop never leaves work       *)
(* behind a poll that nothing interrupts.  The one exception the code      *)
(* makes is a call by the loop thread itself outside loop(): it takes the  *)
(* "no wakeup needed" branch although no doPendingFunctors_ is about to    *)
(* run (EventLoop.cc:148), and that functor waits for the next event.      *)
NoLostWakeup ==
    (~BeforeSwap /\ \E i \in DOMAIN pendingFunctors_ : pendingFunctors_[i] \notin early)
        => WakeupComing

(* quit() never sets the flag behind a blocked poll: a loop that polls     *)
(* with quit_ set is about to be woken (EventLoop.cc:97-105).              *)
NoLostQuit == (quit_ /\ pc = "poll") => WakeupComing

(* callingPendingFunctor_, which decides whether the loop thread wakes     *)
(* itself, is up exactly while pendingFunctors_ may be added to after the  *)
(* swap and before the next poll.                                          *)
CallingMatches ==
    callingPendingFunctor_ <=> pc \in {"swap", "run", "functor", "leave"}

(* The implementation of FunctorQueue: what is left of the batch that was  *)
(* swapped out comes before what was queued since.                         *)
Queue == INSTANCE FunctorQueue WITH queue <- functors \o pendingFunctors_

(* Every functor handed to queueInLoop is run once, in the order of the    *)
(* critical sections that added them, whatever thread called.              *)
QueueSpec == Queue!Spec

-----------------------------------------------------------------------------
(* Liveness.                                                               *)

Pending(f) == f \in Range(pendingFunctors_)

(* A queued functor is run, or the loop is left, without help from the     *)
(* poll timeout: only the exceptions NoLostWakeup names need it, and with  *)
(* it they are run, too (EventLoop.cc:148).                                *)
FunctorsRun ==
    \A f \in Functors :
        /\ (Pending(f) /\ f \notin early /\ looping_) ~> (running = f \/ ~looping_)
        /\ Timeouts => ((Pending(f) /\ looping_) ~> (running = f \/ ~looping_))

(* quit() ends the loop, provided that loop() has already executed its     *)
(* quit_ = false; a call before that is forgotten.                         *)
QuitEndsLoop ==
    (quit_ /\ looping_ /\ pc # "reset") ~> ~looping_

(* Functors that queue functors do not keep the loop from its channels:    *)
(* doPendingFunctors_ runs only what was queued when it started.           *)
IoNotStarved == looping_ ~> (pc \in {"poll", "outside"})
=============================================================================
