---------------------------- MODULE FunctorQueue ----------------------------
(***************************************************************************)
(* What EventLoop promises to the threads that hand it functors, without   *)
(* saying how: one queue, first in first out, whose functors are run one   *)
(* at a time, each as often as it was queued.  EventLoop.tla implements    *)
(* this with two vectors, a mutex, an eventfd and a flag.                  *)
(***************************************************************************)
EXTENDS Sequences, Functions

CONSTANTS Functors,    \* the functors threads may hand to the loop
          NoFunctor    \* what "running" holds between two functors

VARIABLES queue,       \* functors handed over and not started, oldest first
          running      \* the functor being run, or NoFunctor

vars == <<queue, running>>

TypeOK ==
    /\ queue \in Seq(Functors)
    /\ running \in Functors \cup {NoFunctor}

Init ==
    /\ queue = << >>
    /\ running = NoFunctor

(* A thread hands over f.  A functor stands for one hand-over, so the name *)
(* is free again only once it has left the queue.                          *)
Post(f) ==
    /\ f \notin Range(queue)
    /\ queue' = Append(queue, f)
    /\ UNCHANGED running

Start ==
    /\ running = NoFunctor
    /\ queue # << >>
    /\ running' = Head(queue)
    /\ queue' = Tail(queue)

Finish ==
    /\ running # NoFunctor
    /\ running' = NoFunctor
    /\ UNCHANGED queue

Next ==
    \/ \E f \in Functors : Post(f)
    \/ Start
    \/ Finish

Spec == Init /\ [][Next]_vars
=============================================================================
