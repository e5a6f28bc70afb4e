--------------------------- MODULE EventLoopProofs --------------------------
(***************************************************************************)
(* What holds of EventLoop for any number of threads, functors and         *)
(* channels and any capacity of the eventfd: the invariants of             *)
(* EventLoop.tla, and that it implements FunctorQueue.                     *)
(***************************************************************************)
EXTENDS EventLoop, SequenceTheorems, TLAPS

(* The batch that doPendingFunctors_ took exists only while it is run, and *)
(* one functor is running exactly while the loop thread is inside it.      *)
BatchMatches ==
    /\ functors # << >> => pc \in {"run", "functor"}
    /\ running # NoFunctor <=> pc = "functor"

IInv == TypeOK /\ CallingMatches /\ BatchMatches /\ NoLostWakeup /\ NoLostQuit

-----------------------------------------------------------------------------
(* Types.                                                                  *)

LEMMA TypeInit == Init => TypeOK
<1> SUFFICES ASSUME Init PROVE TypeOK
  OBVIOUS
<1>1. 0 \in 0 .. EventfdMax
  BY EventfdAssumption DEF EventfdAssumption
<1>2. << >> \in Seq(Functors)
  OBVIOUS
<1> QED
  BY <1>1, <1>2 DEF Init, TypeOK, Locations

LEMMA TypeStep == TypeOK /\ [Next]_vars => TypeOK'
<1> SUFFICES ASSUME TypeOK, [Next]_vars PROVE TypeOK'
  OBVIOUS
<1> USE EventfdAssumption DEF EventfdAssumption, TypeOK, Locations
<1>1. ASSUME NEW t \in Threads, NEW f \in Functors, queueInLoop(t, f) PROVE TypeOK'
  BY <1>1 DEF queueInLoop
<1>2. ASSUME NEW t \in Threads, quit(t) PROVE TypeOK'
  BY <1>2 DEF quit
<1>3. ASSUME NEW t \in Threads, wakeup(t) PROVE TypeOK'
  BY <1>3 DEF wakeup
<1>4. CASE loop
  BY <1>4 DEF loop
<1>5. CASE ResetQuit
  BY <1>5 DEF ResetQuit
<1>6. CASE TestQuit
  BY <1>6 DEF TestQuit
<1>7. CASE PollReturns
  BY <1>7 DEF PollReturns, Ready
<1>8. CASE PollTimesOut
  BY <1>8 DEF PollTimesOut
<1>9. CASE handleRead
  BY <1>9 DEF handleRead
<1>10. ASSUME NEW c \in Channels, handleEvent(c) PROVE TypeOK'
  BY <1>10 DEF handleEvent
<1>11. CASE CallbackReturns
  BY <1>11 DEF CallbackReturns
<1>12. CASE AllHandled
  BY <1>12 DEF AllHandled
<1>13. CASE SetCalling
  BY <1>13 DEF SetCalling
<1>14. CASE SwapPending
  BY <1>14 DEF SwapPending
<1>15. CASE RunFunctor
  <2>1. functors \in Seq(Functors) /\ functors # << >>
    BY <1>15 DEF RunFunctor
  <2>2. Head(functors) \in Functors /\ Tail(functors) \in Seq(Functors)
    BY <2>1, HeadTailProperties
  <2> QED
    BY <1>15, <2>2 DEF RunFunctor
<1>16. CASE FunctorReturns
  BY <1>16 DEF FunctorReturns
<1>17. CASE AllRun
  BY <1>17 DEF AllRun
<1>18. CASE ClearCalling
  BY <1>18 DEF ClearCalling
<1>19. CASE UNCHANGED vars
  BY <1>19 DEF vars
<1> QED
  BY <1>1, <1>2, <1>3, <1>4, <1>5, <1>6, <1>7, <1>8, <1>9, <1>10, <1>11, <1>12,
     <1>13, <1>14, <1>15, <1>16, <1>17, <1>18, <1>19 DEF Next, doPendingFunctors

(* Every variable of the event loop keeps its type: in particular the      *)
(* eventfd never exceeds its capacity and no functor enters the queue that *)
(* was not handed to queueInLoop.                                          *)
THEOREM TypeCorrect == Spec => []TypeOK
BY TypeInit, TypeStep, PTL DEF Spec

-----------------------------------------------------------------------------
(* The invariants.                                                         *)

LEMMA InvInit == Init => IInv
<1> SUFFICES ASSUME Init PROVE IInv
  OBVIOUS
<1>1. TypeOK
  BY TypeInit
<1>2. CallingMatches /\ BatchMatches
  BY DEF Init, CallingMatches, BatchMatches
<1>3. NoLostWakeup /\ NoLostQuit
  BY DEF Init, NoLostWakeup, NoLostQuit
<1> QED
  BY <1>1, <1>2, <1>3 DEF IInv

LEMMA PhaseStep == IInv /\ [Next]_vars => CallingMatches' /\ BatchMatches'
<1> SUFFICES ASSUME IInv, [Next]_vars PROVE CallingMatches' /\ BatchMatches'
  OBVIOUS
<1> USE FunctorsAssumption DEF IInv, TypeOK, CallingMatches, BatchMatches, LoopAt,
        FunctorsAssumption
<1>1. ASSUME NEW t \in Threads, NEW f \in Functors, queueInLoop(t, f)
      PROVE  CallingMatches' /\ BatchMatches'
  BY <1>1 DEF queueInLoop
<1>2. ASSUME NEW t \in Threads, quit(t) \/ wakeup(t)
      PROVE  CallingMatches' /\ BatchMatches'
  BY <1>2 DEF quit, wakeup
<1>3. CASE loop \/ ResetQuit \/ TestQuit
  BY <1>3 DEF loop, ResetQuit, TestQuit
<1>4. CASE PollReturns \/ PollTimesOut \/ handleRead
  BY <1>4 DEF PollReturns, PollTimesOut, handleRead
<1>5. ASSUME NEW c \in Channels, handleEvent(c) PROVE CallingMatches' /\ BatchMatches'
  BY <1>5 DEF handleEvent
<1>6. CASE CallbackReturns \/ AllHandled \/ SetCalling \/ SwapPending
  BY <1>6 DEF CallbackReturns, AllHandled, SetCalling, SwapPending
<1>7. CASE RunFunctor
  <2>1. Head(functors) \in Functors
    BY <1>7, HeadTailProperties DEF RunFunctor
  <2> QED
    BY <1>7, <2>1 DEF RunFunctor
<1>8. CASE FunctorReturns \/ AllRun \/ ClearCalling
  BY <1>8 DEF FunctorReturns, AllRun, ClearCalling
<1>9. CASE UNCHANGED vars
  BY <1>9 DEF vars
<1> QED
  BY <1>1, <1>2, <1>3, <1>4, <1>5, <1>6, <1>7, <1>8, <1>9 DEF Next, doPendingFunctors

(* A thread about to call wakeup is enough, and so is the count it leaves. *)
LEMMA WakeupStep == IInv /\ [Next]_vars /\ WakeupComing /\ ~handleRead => WakeupComing'
<1> SUFFICES ASSUME IInv, [Next]_vars, WakeupComing, ~handleRead PROVE WakeupComing'
  OBVIOUS
<1> USE EventfdAssumption DEF EventfdAssumption, WakeupComing, IInv, TypeOK
<1>1. ASSUME NEW t \in Threads, NEW f \in Functors, queueInLoop(t, f) PROVE WakeupComing'
  BY <1>1 DEF queueInLoop, MayCall
<1>2. ASSUME NEW t \in Threads, quit(t) PROVE WakeupComing'
  BY <1>2 DEF quit, MayCall
<1>3. ASSUME NEW t \in Threads, wakeup(t) PROVE WakeupComing'
  BY <1>3 DEF wakeup
<1>4. CASE loop \/ ResetQuit \/ TestQuit \/ PollReturns \/ PollTimesOut
  BY <1>4 DEF loop, ResetQuit, TestQuit, PollReturns, PollTimesOut
<1>5. ASSUME NEW c \in Channels, handleEvent(c) PROVE WakeupComing'
  BY <1>5 DEF handleEvent
<1>6. CASE CallbackReturns \/ AllHandled \/ doPendingFunctors
  BY <1>6 DEF CallbackReturns, AllHandled, doPendingFunctors, SetCalling, SwapPending,
              RunFunctor, FunctorReturns, AllRun, ClearCalling
<1>7. CASE UNCHANGED vars
  BY <1>7 DEF vars
<1> QED
  BY <1>1, <1>2, <1>3, <1>4, <1>5, <1>6, <1>7 DEF Next

LEMMA NoLostWakeupStep == IInv /\ [Next]_vars => NoLostWakeup'
<1> SUFFICES ASSUME IInv, [Next]_vars PROVE NoLostWakeup'
  OBVIOUS
<1> USE DEF IInv, NoLostWakeup
<1>1. ASSUME NEW t \in Threads, NEW f \in Functors, queueInLoop(t, f) PROVE NoLostWakeup'
  <2>1. CASE NeedsWakeup(t)
    <3>1. calls'[t] = "wakeup"
      BY <1>1, <2>1 DEF queueInLoop, TypeOK
    <3> QED
      BY <3>1 DEF WakeupComing
  <2>2. CASE ~NeedsWakeup(t) /\ pc = "callback"
    BY <1>1, <2>2 DEF queueInLoop, BeforeSwap
  <2>3. CASE ~NeedsWakeup(t) /\ pc = "outside"
    <3>1. early' = early \cup {f} /\ pc' = "outside" /\ ~BeforeSwap
      BY <1>1, <2>3 DEF queueInLoop, NeedsWakeup, BeforeSwap
    <3>2. ASSUME NEW i \in DOMAIN pendingFunctors_', pendingFunctors_'[i] \notin early'
          PROVE  i \in DOMAIN pendingFunctors_ /\ pendingFunctors_[i] \notin early
      BY <1>1, <3>1, <3>2 DEF queueInLoop, TypeOK
    <3>3. WakeupComing => WakeupComing'
      BY <1>1, WakeupStep, <2>3 DEF handleRead, LoopAt
    <3> QED
      BY <3>1, <3>2, <3>3
  <2> QED
    BY <1>1, <2>1, <2>2, <2>3 DEF queueInLoop, MayCall, NeedsWakeup, isInLoopThread,
                                 CallingMatches
<1>2. CASE UNCHANGED <<pendingFunctors_, early>> /\ (BeforeSwap => BeforeSwap') /\ ~handleRead
  BY <1>2, WakeupStep
<1>3. CASE handleRead
  BY <1>3 DEF handleRead, LoopAt, BeforeSwap
<1>4. CASE SwapPending
  BY <1>4 DEF SwapPending
<1>5. ASSUME NEW t \in Threads, quit(t) \/ wakeup(t) PROVE NoLostWakeup'
  BY <1>2, <1>3, <1>5 DEF quit, wakeup, BeforeSwap
<1>6. CASE loop \/ ResetQuit \/ TestQuit \/ PollReturns \/ PollTimesOut
  BY <1>2, <1>3, <1>6 DEF loop, ResetQuit, TestQuit, PollReturns, PollTimesOut, LoopAt, BeforeSwap
<1>7. ASSUME NEW c \in Channels, handleEvent(c) PROVE NoLostWakeup'
  BY <1>2, <1>3, <1>7 DEF handleEvent, BeforeSwap
<1>8. CASE CallbackReturns \/ AllHandled \/ SetCalling
  BY <1>2, <1>3, <1>8 DEF CallbackReturns, AllHandled, SetCalling, BeforeSwap
<1>9. CASE RunFunctor \/ FunctorReturns \/ AllRun \/ ClearCalling
  BY <1>2, <1>3, <1>9 DEF RunFunctor, FunctorReturns, AllRun, ClearCalling, LoopAt, BeforeSwap
<1>10. CASE UNCHANGED vars
  BY <1>2, <1>3, <1>10 DEF vars, BeforeSwap
<1> QED
  BY <1>1, <1>3, <1>4, <1>5, <1>6, <1>7, <1>8, <1>9, <1>10 DEF Next, doPendingFunctors

LEMMA NoLostQuitStep == IInv /\ [Next]_vars => NoLostQuit'
<1> SUFFICES ASSUME IInv, [Next]_vars, quit_', pc' = "poll" PROVE WakeupComing'
  BY DEF NoLostQuit
<1> USE DEF IInv
<1>1. CASE quit_ /\ pc = "poll"
  BY <1>1, WakeupStep DEF NoLostQuit, handleRead, LoopAt
<1>2. ASSUME NEW t \in Threads, quit(t) PROVE WakeupComing'
  <2>1. ~isInLoopThread(t)
    BY <1>2 DEF quit, MayCall
  <2>2. calls'[t] = "wakeup"
    BY <1>2, <2>1 DEF quit, TypeOK
  <2> QED
    BY <2>2 DEF WakeupComing
<1>3. ASSUME NEW t \in Threads, NEW f \in Functors, queueInLoop(t, f)
      PROVE  WakeupComing'
  BY <1>1, <1>3 DEF queueInLoop
<1>4. ASSUME NEW t \in Threads, wakeup(t) PROVE WakeupComing'
  BY <1>1, <1>4 DEF wakeup
<1>5. ~loop /\ ~ResetQuit /\ ~TestQuit
  BY DEF loop, ResetQuit, TestQuit
<1>6. ~PollReturns /\ ~PollTimesOut /\ ~handleRead /\ ~CallbackReturns /\ ~AllHandled
  BY DEF PollReturns, PollTimesOut, handleRead, CallbackReturns, AllHandled, LoopAt
<1>7. ASSUME NEW c \in Channels PROVE ~handleEvent(c)
  BY DEF handleEvent
<1>8. ~doPendingFunctors
  BY DEF doPendingFunctors, SetCalling, SwapPending, RunFunctor, FunctorReturns,
         AllRun, ClearCalling
<1>9. CASE UNCHANGED vars
  BY <1>1, <1>9 DEF vars
<1> QED
  BY <1>2, <1>3, <1>4, <1>5, <1>6, <1>7, <1>8, <1>9 DEF Next

LEMMA Inductive == Spec => []IInv
<1>1. IInv /\ [Next]_vars => IInv'
  BY TypeStep, PhaseStep, NoLostWakeupStep, NoLostQuitStep DEF IInv
<1> QED
  BY InvInit, <1>1, PTL DEF Spec

(* Work that another thread or a functor queued is never left behind a     *)
(* poll that nothing will interrupt, for any number of threads.            *)
THEOREM WakeupNotLost == Spec => []NoLostWakeup
BY Inductive, PTL DEF IInv

(* A loop that polls with quit_ set is about to be woken.                  *)
THEOREM QuitNotLost == Spec => []NoLostQuit
BY Inductive, PTL DEF IInv

(* callingPendingFunctor_ is up exactly from doPendingFunctors_'s first    *)
(* assignment to its last.                                                 *)
THEOREM CallingCorrect == Spec => []CallingMatches
BY Inductive, PTL DEF IInv

-----------------------------------------------------------------------------
(* EventLoop implements FunctorQueue.                                      *)

LEMMA RefineInit == Init => Queue!Init
BY DEF Init, Queue!Init

LEMMA RefinePost ==
    ASSUME IInv, NEW t \in Threads, NEW f \in Functors, queueInLoop(t, f)
    PROVE  Queue!Post(f)
<1>1. functors \in Seq(Functors) /\ pendingFunctors_ \in Seq(Functors)
  BY DEF IInv, TypeOK
<1>2. f \notin Range(functors \o pendingFunctors_)
  <2>1. Range(functors \o pendingFunctors_) = Range(functors) \cup Range(pendingFunctors_)
    BY <1>1, RangeConcatenation
  <2> QED
    BY <2>1 DEF queueInLoop
<1>3. functors \o Append(pendingFunctors_, f) = Append(functors \o pendingFunctors_, f)
  <2>1. Append(pendingFunctors_, f) = pendingFunctors_ \o <<f>>
    BY <1>1, AppendIsConcat
  <2>2. functors \o pendingFunctors_ \in Seq(Functors) /\ <<f>> \in Seq(Functors)
    BY <1>1, ConcatProperties
  <2>3. functors \o (pendingFunctors_ \o <<f>>) = (functors \o pendingFunctors_) \o <<f>>
    BY <1>1, <2>2, ConcatAssociative
  <2> QED
    BY <2>1, <2>2, <2>3, AppendIsConcat
<1>4. Queue!Post(f) <=> /\ f \notin Range(functors \o pendingFunctors_)
                        /\ functors' \o pendingFunctors_' = Append(functors \o pendingFunctors_, f)
                        /\ running' = running
  BY DEF Queue!Post, Range, Queue!Range
<1> QED
  BY <1>2, <1>3, <1>4 DEF queueInLoop

LEMMA RefineSwap == IInv /\ SwapPending => UNCHANGED Queue!vars
<1> SUFFICES ASSUME IInv, SwapPending PROVE UNCHANGED Queue!vars
  OBVIOUS
<1>1. functors = << >> /\ pendingFunctors_ \in Seq(Functors)
  BY DEF IInv, TypeOK, BatchMatches, SwapPending, LoopAt
<1>2. pendingFunctors_ \o << >> = << >> \o pendingFunctors_
  BY <1>1, ConcatEmptySeq
<1> QED
  BY <1>1, <1>2 DEF SwapPending, Queue!vars

LEMMA RefineStart == IInv /\ RunFunctor => Queue!Start
<1> SUFFICES ASSUME IInv, RunFunctor PROVE Queue!Start
  OBVIOUS
<1> DEFINE q == functors \o pendingFunctors_
<1>1. functors \in Seq(Functors) /\ functors # << >> /\ pendingFunctors_ \in Seq(Functors)
  BY DEF IInv, TypeOK, RunFunctor
<1>2. running = NoFunctor
  BY DEF IInv, BatchMatches, RunFunctor, LoopAt
<1>3. q \in Seq(Functors) /\ q # << >>
  BY <1>1, ConcatProperties, ConcatEqualIffEmpty
<1>4. Len(functors) \in Nat \ {0} /\ Len(pendingFunctors_) \in Nat
  BY <1>1, EmptySeq, LenProperties
<1>5. Head(q) = Head(functors)
  <2>1. q[1] = functors[1]
    BY <1>1, <1>4, ConcatProperties
  <2> QED
    BY <1>1, <1>3, <2>1
<1>6. Tail(q) = Tail(functors) \o pendingFunctors_
  <2>1. Tail(functors) \in Seq(Functors) /\ Len(Tail(functors)) = Len(functors) - 1
        /\ \A i \in 1 .. Len(Tail(functors)) : Tail(functors)[i] = functors[i + 1]
    BY <1>1, HeadTailProperties
  <2>2. Tail(q) \in Seq(Functors) /\ Len(Tail(q)) = Len(q) - 1
        /\ \A i \in 1 .. Len(Tail(q)) : Tail(q)[i] = q[i + 1]
    BY <1>3, HeadTailProperties
  <2>3. /\ Len(q) = Len(functors) + Len(pendingFunctors_)
        /\ \A i \in 1 .. Len(functors) + Len(pendingFunctors_) :
              q[i] = IF i <= Len(functors) THEN functors[i]
                                           ELSE pendingFunctors_[i - Len(functors)]
    BY <1>1, ConcatProperties
  <2> DEFINE r == Tail(functors) \o pendingFunctors_
  <2>4. /\ r \in Seq(Functors)
        /\ Len(r) = Len(Tail(functors)) + Len(pendingFunctors_)
        /\ \A i \in 1 .. Len(Tail(functors)) + Len(pendingFunctors_) :
              r[i] = IF i <= Len(Tail(functors))
                     THEN Tail(functors)[i]
                     ELSE pendingFunctors_[i - Len(Tail(functors))]
    BY <1>1, <2>1, ConcatProperties
  <2>5. Len(Tail(q)) = Len(r)
    BY <1>4, <2>1, <2>2, <2>3, <2>4
  <2> HIDE DEF q, r
  <2>6. ASSUME NEW i \in 1 .. Len(Tail(q)) PROVE Tail(q)[i] = r[i]
    BY <1>4, <2>1, <2>2, <2>3, <2>4
  <2>7. Tail(q) = r
    BY <2>2, <2>4, <2>5, <2>6, SeqEqual
  <2> QED
    BY <2>7 DEF r
<1> QED
  BY <1>2, <1>3, <1>5, <1>6 DEF RunFunctor, Queue!Start

LEMMA RefineStep == IInv /\ [Next]_vars => [Queue!Next]_Queue!vars
<1> SUFFICES ASSUME IInv, [Next]_vars PROVE [Queue!Next]_Queue!vars
  OBVIOUS
<1>1. ASSUME NEW t \in Threads, NEW f \in Functors, queueInLoop(t, f)
      PROVE  Queue!Next
  BY <1>1, RefinePost DEF Queue!Next
<1>2. CASE SwapPending
  BY <1>2, RefineSwap
<1>3. CASE RunFunctor
  BY <1>3, RefineStart DEF Queue!Next
<1>4. CASE FunctorReturns
  BY <1>4 DEF FunctorReturns, LoopAt, IInv, BatchMatches, Queue!Next, Queue!Finish
<1>5. CASE UNCHANGED <<functors, pendingFunctors_, running>>
  BY <1>5 DEF Queue!vars
<1>6. ASSUME NEW t \in Threads, quit(t) \/ wakeup(t) PROVE UNCHANGED Queue!vars
  BY <1>6 DEF quit, wakeup, Queue!vars
<1>7. ASSUME NEW c \in Channels, handleEvent(c) PROVE UNCHANGED Queue!vars
  BY <1>7 DEF handleEvent, Queue!vars
<1>8. CASE loop \/ ResetQuit \/ TestQuit \/ PollReturns \/ PollTimesOut \/ handleRead
  BY <1>5, <1>8 DEF loop, ResetQuit, TestQuit, PollReturns, PollTimesOut, handleRead
<1>9. CASE CallbackReturns \/ AllHandled \/ SetCalling \/ AllRun \/ ClearCalling
  BY <1>5, <1>9 DEF CallbackReturns, AllHandled, SetCalling, AllRun, ClearCalling
<1>10. CASE UNCHANGED vars
  BY <1>5, <1>10 DEF vars
<1> QED
  BY <1>1, <1>2, <1>3, <1>4, <1>6, <1>7, <1>8, <1>9, <1>10 DEF Next, doPendingFunctors

(* The two vectors, the swap and the flag together are one queue that runs *)
(* every functor once and in order, whatever the threads do.               *)
THEOREM ImplementsQueue == Spec => QueueSpec
<1>1. Spec => []IInv
  BY Inductive
<1> QED
  BY <1>1, RefineInit, RefineStep, PTL DEF Spec, QueueSpec, Queue!Spec
=============================================================================
