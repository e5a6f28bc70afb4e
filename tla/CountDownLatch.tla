--------------------------- MODULE CountDownLatch ---------------------------
(***************************************************************************)
(* A latch (src/src/CountDownLatch.{h,cc}) on a mutex and a condition      *)
(* variable (src/src/Mutex.h, src/src/Condition.h).  Each critical section *)
(* of mutex_ is one step; cond_.wait() leaves one and, when the thread has *)
(* been woken, enters the next.                                            *)
(***************************************************************************)
EXTENDS Integers

CONSTANTS Waiters,     \* threads that call wait(), once each
          InitialCount

ASSUME CountAssumption == InitialCount \in Nat

VARIABLES count_,
          waiter       \* where each of them is

latch == <<count_, waiter>>

LatchTypeOK ==
    /\ count_ \in Int /\ count_ <= InitialCount
    /\ waiter \in [Waiters -> {"before", "waiting", "woken", "returned"}]

LatchInit ==
    /\ count_ = InitialCount
    /\ waiter = [w \in Waiters |-> "before"]

(* Mutant: if instead of while.                                            *)
WaitsOnce(w) == count_ > 0 /\ waiter[w] = "before"

MustWait(w) == count_ > 0

(* wait: the test on entry, or after a wakeup.                             *)
wait(w) ==
    /\ waiter[w] \in {"before", "woken"}
    /\ waiter' = [waiter EXCEPT ![w] = IF MustWait(w) THEN "waiting" ELSE "returned"]
    /\ UNCHANGED count_

(* pthread_cond_wait may return without a notification.                    *)
spuriousWakeup(w) ==
    /\ waiter[w] = "waiting"
    /\ waiter' = [waiter EXCEPT ![w] = "woken"]
    /\ UNCHANGED count_

Sleeping == {w \in Waiters : waiter[w] = "waiting"}

(* Mutant: notify() instead of notifyAll().                                *)
NotifyOne == IF Sleeping = {} THEN {{}} ELSE {{w} : w \in Sleeping}

(* The sets of threads that may be woken: here always all that sleep.      *)
NotifyAll == {Sleeping}

countdown ==
    /\ count_' = count_ - 1
    /\ \E woken \in IF count_' = 0 THEN NotifyAll ELSE {{}} :
          waiter' = [w \in Waiters |-> IF w \in woken THEN "woken" ELSE waiter[w]]
=============================================================================
