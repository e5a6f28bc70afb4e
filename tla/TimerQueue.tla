----------------------------- MODULE TimerQueue -----------------------------
(***************************************************************************)
(* The timers of a loop (src/src/TimerQueue.{h,cc}, src/src/Timer.{h,cc},  *)
(* src/src/EventLoop.cc:125-138): a set of timers ordered by expiration,   *)
(* one timerfd armed for the first of them, and the loop that reads it.    *)
(*                                                                         *)
(* Time is counted in ticks of 100 microseconds, the least time            *)
(* howmuchTimeFromNow arms the timerfd for.  Expirations are wall clock    *)
(* times and kept relative to that clock: due[t] is what is left until     *)
(* timer t expires.  The timerfd counts on the monotonic clock, so when    *)
(* the wall clock is set (jump), only the expirations move.                *)
(*                                                                         *)
(* An iteration of the loop polls, runs TimerQueue::handleRead if poll     *)
(* reported the timerfd, then the handlers of other channels and the       *)
(* queued functors.  The timerfd's channel is the first in pollfds_ (the   *)
(* constructor of EventLoop registers it first, and removeChannel moves    *)
(* the last entry only), hence the first in activeChannels_.               *)
(***************************************************************************)
EXTENDS Integers, Sequences, Functions

CONSTANTS Timers,      \* addresses of Timer objects
          Delays,      \* of the timers that are added, in ticks
          Intervals,   \* of the timers that are added; 0: run once
          MaxLate,     \* bound: how late a timer or handleRead can be seen to be
          MaxJumps     \* bound on the times the wall clock is set

ASSUME TimersAssumption == Timers \subseteq Nat
ASSUME TimesAssumption ==
    Delays \subseteq Int /\ Intervals \subseteq Nat /\ MaxLate \in Nat /\ MaxJumps \in Nat

VARIABLES
    timers_,     \* the ordered set
    expired,     \* handleRead's vector
    toRun,       \* the part of it whose callbacks have not been run
    now,         \* handleRead's time, relative to the wall clock
    pending,     \* queued functors addTimerInLoop
    returning,   \* other threads inside addTimer, by the timer they added
    alive,       \* Timer objects that have not been deleted
    due, interval_,
    timerfd,     \* remaining: ticks, 0 if not armed; readable: it expired
    pc,          \* of the loop: "poll", "timer", "callbacks" or "user"
    jumps,
    failed

loop == <<expired, toRun, now, pc>>
timer == <<alive, due, interval_>>
vars == <<timers_, loop, pending, returning, timer, timerfd, jumps, failed>>

TypeOK ==
    /\ timers_ \subseteq Timers
    /\ expired \subseteq Timers /\ toRun \subseteq expired
    /\ now \in Int
    /\ pending \in Seq(Timers)
    /\ returning \subseteq Timers
    /\ alive \subseteq Timers
    /\ due \in [Timers -> Int]
    /\ interval_ \in [Timers -> Nat]
    /\ timerfd \in [remaining : Nat, readable : BOOLEAN]
    /\ pc \in {"poll", "timer", "callbacks", "user"}
    /\ jumps \in 0 .. MaxJumps
    /\ failed \in {"none", "readTimerfd", "addTimer"}

Init ==
    /\ timers_ = {}
    /\ expired = {} /\ toRun = {} /\ now = 0
    /\ pending = << >>
    /\ returning = {}
    /\ alive = {}
    /\ due = [t \in Timers |-> 0]
    /\ interval_ = [t \in Timers |-> 0]
    /\ timerfd = [remaining |-> 0, readable |-> FALSE]
    /\ pc = "user"
    /\ jumps = 0
    /\ failed = "none"

Running == failed = "none"

-----------------------------------------------------------------------------
(* The order of Entry: by time, then by address.                           *)
Before(s, t) == due[s] < due[t] \/ (due[s] = due[t] /\ s < t)
First(S) == CHOOSE t \in S : \A s \in S \ {t} : Before(t, s)

(* Mutant: no minimum.                                                     *)
ArmedExactly(ticks) == [remaining |-> ticks, readable |-> FALSE]

(* howmuchTimeFromNow and timerfd_settime, which discards an expiration    *)
(* that was not read.                                                      *)
Armed(ticks) == [remaining |-> IF ticks < 1 THEN 1 ELSE ticks, readable |-> FALSE]

(* Mutant: the timerfd is armed for the first timer only.                  *)
firstTimer(when) == timers_ = {}

earliestChanged(when) == timers_ = {} \/ when < due[First(timers_)]

addTimerInLoop(t, when) ==
    /\ timers_' = timers_ \cup {t}
    /\ timerfd' = IF earliestChanged(when) THEN Armed(when) ELSE timerfd

(* new Timer, at an address that is free.                                  *)
NewTimer(t, delay, interval) ==
    /\ t \notin alive /\ t \notin returning
    /\ alive' = alive \cup {t}
    /\ due' = [due EXCEPT ![t] = delay]
    /\ interval_' = [interval_ EXCEPT ![t] = interval]

(* Mutant: other channels are handled before the timerfd's.                *)
InAnyHandler == pc \in {"timer", "callbacks", "user"}

InUserCode == pc \in {"callbacks", "user"}

(* addTimer in the loop's thread: a callback, a handler or a functor.      *)
addTimerHere(t, delay, interval) ==
    /\ Running
    /\ InUserCode
    /\ NewTimer(t, delay, interval)
    /\ addTimerInLoop(t, delay)
    /\ UNCHANGED <<loop, pending, returning, jumps, failed>>

(* addTimer in another thread; the call goes on after runInLoop.           *)
addTimer(t, delay, interval) ==
    /\ Running
    /\ NewTimer(t, delay, interval)
    /\ pending' = Append(pending, t)
    /\ returning' = returning \cup {t}
    /\ UNCHANGED <<timers_, loop, timerfd, jumps, failed>>

(* It reads timer->sequence() for the TimerId.                             *)
returnTimerId(t) ==
    /\ Running
    /\ t \in returning
    /\ returning' = returning \ {t}
    /\ failed' = IF t \in alive THEN failed ELSE "addTimer"
    /\ UNCHANGED <<timers_, loop, pending, timer, timerfd, jumps>>

runPending ==
    /\ Running
    /\ pc = "user"
    /\ pending # << >>
    /\ pending' = Tail(pending)
    /\ addTimerInLoop(Head(pending), due[Head(pending)])
    /\ UNCHANGED <<loop, returning, timer, jumps, failed>>

-----------------------------------------------------------------------------
endIteration ==
    /\ Running
    /\ pc = "user"
    /\ pc' = "poll"
    /\ UNCHANGED <<timers_, expired, toRun, now, pending, returning, timer, timerfd, jumps, failed>>

poll ==
    /\ Running
    /\ pc = "poll"
    /\ pc' = IF timerfd.readable THEN "timer" ELSE "user"
    /\ UNCHANGED <<timers_, expired, toRun, now, pending, returning, timer, timerfd, jumps, failed>>

getExpired == {t \in timers_ : due[t] <= 0}

(* readTimerfd asserts that there is something to read.                    *)
handleRead ==
    /\ Running
    /\ pc = "timer"
    /\ failed' = IF timerfd.readable THEN failed ELSE "readTimerfd"
    /\ timerfd' = [timerfd EXCEPT !.readable = FALSE]
    /\ now' = 0
    /\ expired' = getExpired
    /\ toRun' = getExpired
    /\ timers_' = timers_ \ getExpired
    /\ pc' = "callbacks"
    /\ UNCHANGED <<pending, returning, timer, jumps>>

runCallback ==
    /\ Running
    /\ pc = "callbacks"
    /\ toRun # {}
    /\ toRun' = toRun \ {First(toRun)}
    /\ UNCHANGED <<timers_, expired, now, pc, pending, returning, timer, timerfd, jumps, failed>>

(* Mutant: reset deletes every timer that expired.                         *)
deletedAll == expired

repeated == {t \in expired : interval_[t] > 0}

deleted == expired \ repeated

(* Timer::restart; what is deleted has no expiration any more.             *)
restarted ==
    [t \in Timers |-> CASE t \in repeated -> now + interval_[t]
                        [] t \in deleted -> 0
                        [] OTHER -> due[t]]

(* Mutant: the timerfd is left as it is.                                   *)
NotRearmed(timers, expirations) == timerfd

Rearmed(timers, expirations) ==
    IF timers = {}
    THEN timerfd
    ELSE LET first == CHOOSE t \in timers : \A s \in timers : expirations[t] <= expirations[s]
         IN  Armed(expirations[first])

reset ==
    /\ Running
    /\ pc = "callbacks"
    /\ toRun = {}
    /\ due' = restarted
    /\ timers_' = timers_ \cup repeated
    /\ alive' = alive \ deleted
    /\ timerfd' = Rearmed(timers_ \cup repeated, restarted)
    /\ expired' = {}
    /\ now' = 0
    /\ pc' = "user"
    /\ UNCHANGED <<toRun, pending, returning, interval_, jumps, failed>>

-----------------------------------------------------------------------------
(* Time.  What is late by MaxLate or more is not told apart.               *)
Later(left, d) == IF left - d < -MaxLate THEN -MaxLate ELSE left - d

Passes(d) ==
    /\ Running
    /\ due' = [t \in Timers |-> IF t \in alive THEN Later(due[t], d) ELSE due[t]]
    /\ now' = IF pc = "callbacks" THEN Later(now, d) ELSE now

tick ==
    /\ Passes(1)
    /\ timerfd' = CASE timerfd.remaining = 0 -> timerfd
                    [] timerfd.remaining = 1 -> [remaining |-> 0, readable |-> TRUE]
                    [] OTHER -> [timerfd EXCEPT !.remaining = @ - 1]
    /\ UNCHANGED <<timers_, expired, toRun, pc, pending, returning, alive, interval_, jumps, failed>>

(* The wall clock is set one tick forward or back.                         *)
jump(d) ==
    /\ Passes(d)
    /\ jumps < MaxJumps
    /\ jumps' = jumps + 1
    /\ UNCHANGED <<timers_, expired, toRun, pc, pending, returning, alive, interval_, timerfd, failed>>

LoopStep ==
    \/ runPending \/ endIteration \/ poll
    \/ handleRead \/ runCallback \/ reset

Next ==
    \/ \E t \in Timers, delay \in Delays, interval \in Intervals :
           addTimer(t, delay, interval) \/ addTimerHere(t, delay, interval)
    \/ \E t \in Timers : returnTimerId(t)
    \/ LoopStep
    \/ tick
    \/ \E d \in {-1, 1} : jump(d)

Spec == Init /\ [][Next]_vars

(* The loop goes round and runs what was queued (FunctorsRun of EventLoop),*)
(* callbacks return, threads inside addTimer go on, and time passes.       *)
Fairness ==
    /\ SF_vars(runPending)
    /\ WF_vars(endIteration) /\ WF_vars(poll) /\ WF_vars(handleRead)
    /\ WF_vars(runCallback) /\ WF_vars(reset)
    /\ \A t \in Timers : WF_vars(returnTimerId(t))
    /\ WF_vars(tick)

FairSpec == Spec /\ Fairness

-----------------------------------------------------------------------------
(* Whoever may re-arm the timerfd, and so discard its expiration, runs     *)
(* after handleRead: the assertion of TimerQueue.cc:39 holds.              *)
ReadAssertHolds == failed # "readTimerfd"

(* Each Timer object is in one place only, the set, the vector or a queued *)
(* functor, from new to delete: reset deletes no timer that is still       *)
(* referred to, and none is forgotten.                                     *)
Owned ==
    /\ alive = timers_ \cup expired \cup Range(pending)
    /\ timers_ \cap expired = {}
    /\ Range(pending) \cap (timers_ \cup expired) = {}
    /\ \A i, j \in DOMAIN pending : pending[i] = pending[j] => i = j

(* While timers wait, the timerfd has expired or is going to, and unless   *)
(* the clock was set that is not after the first of them.  handleRead sees *)
(* to that only in the end, in reset.                                      *)
TimerfdCovers ==
    (timers_ # {} /\ pc # "callbacks") =>
        \/ timerfd.readable
        \/ /\ timerfd.remaining > 0
           /\ jumps = 0 => timerfd.remaining <= Armed(due[First(timers_)]).remaining

(* Every timer that was added is run, and a periodic one again and again,  *)
(* also when the clock is set.                                             *)
EveryTimerRuns ==
    \A t \in Timers : (t \in Range(pending) \cup timers_) ~> (t \in toRun \/ ~Running)

(* test4.cc:14 calls runAfter in a thread that is not the loop's: addTimer *)
(* must then find the timer it returns the sequence number of.             *)
TimerIdValid == failed # "addTimer"
=============================================================================
