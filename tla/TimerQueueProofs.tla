-------------------------- MODULE TimerQueueProofs ---------------------------
(***************************************************************************)
(* Who owns the timers and what the timerfd is armed for, for any set of   *)
(* addresses, any delays and intervals, and a clock set any number of      *)
(* times.                                                                  *)
(***************************************************************************)
EXTENDS TimerQueue, FiniteSetTheorems, SequenceTheorems, TLAPS

Distinct(s) == \A i, j \in DOMAIN s : s[i] = s[j] => i = j

(* The vector of handleRead is empty outside it, and what poll reported is *)
(* still there to be read.                                                 *)
VectorMatches == pc # "callbacks" => expired = {}
ReportedIsReadable == pc = "timer" => timerfd.readable

(* There is a first timer: they were added one by one.                     *)
FinitelyMany == IsFiniteSet(timers_ \cup expired)

(* TimerfdCovers, said of every timer in place of the first.               *)
CoversEach ==
    (timers_ # {} /\ pc # "callbacks") =>
        \/ timerfd.readable
        \/ /\ timerfd.remaining > 0
           /\ jumps = 0 => \A t \in timers_ : timerfd.remaining <= Armed(due[t]).remaining

TimersInv ==
    /\ TypeOK /\ ReadAssertHolds /\ Owned
    /\ VectorMatches /\ ReportedIsReadable /\ FinitelyMany /\ CoversEach

-----------------------------------------------------------------------------
(* The order of Entry: a finite set of timers has a first one.             *)
LEMMA LeastExists ==
    ASSUME NEW S, IsFiniteSet(S), S # {}, S \subseteq Timers, NEW e \in [Timers -> Int]
    PROVE  \E t \in S : \A s \in S \ {t} : e[t] < e[s] \/ (e[t] = e[s] /\ t < s)
<1> DEFINE Less(t, s) == e[t] < e[s] \/ (e[t] = e[s] /\ t < s)
           HasLeast(U) == \E t \in U : \A s \in U \ {t} : Less(t, s)
           Without == {U \in SUBSET S : U # {} /\ ~HasLeast(U)}
<1>1. \A t, s \in S : t # s => Less(t, s) \/ Less(s, t)
  BY TimersAssumption DEF TimersAssumption
<1>2. \A t, s, u \in S : Less(t, s) /\ Less(s, u) => Less(t, u)
  BY TimersAssumption DEF TimersAssumption
<1> HIDE DEF Less
<1>3. IsWellFoundedOn(StrictSubsetOrdering(S), SUBSET S)
  BY FS_StrictSubsetOrderingWellFounded, FS_FiniteSubsetsOfFinite
<1>4. SUFFICES ASSUME Without # {} PROVE FALSE
  BY DEF Less
<1>5. Without \subseteq SUBSET S
  OBVIOUS
<1>6. PICK U \in Without : \A V \in Without : ~(<<V, U>> \in StrictSubsetOrdering(S))
  <2> HIDE DEF Without
  <2> QED  BY <1>3, <1>4, <1>5, WFMin
<1>7. PICK x : x \in U
  BY <1>6
<1>8. <<U \ {x}, U>> \in StrictSubsetOrdering(S)
  BY <1>6, <1>7 DEF StrictSubsetOrdering
<1>9. U \ {x} \notin Without
  BY <1>6, <1>8
<1>10. U \ {x} # {}
  BY <1>6, <1>7
<1>11. HasLeast(U \ {x})
  BY <1>6, <1>9, <1>10
<1>12. PICK m \in U \ {x} : \A s \in (U \ {x}) \ {m} : Less(m, s)
  BY <1>11
<1>13. CASE Less(m, x)
  BY <1>6, <1>12, <1>13
<1>14. CASE Less(x, m)
  <2>1. \A s \in U \ {x} : Less(x, s)
    BY <1>2, <1>6, <1>7, <1>12, <1>14
  <2> QED  BY <1>6, <1>7, <2>1
<1> QED  BY <1>1, <1>6, <1>7, <1>12, <1>13, <1>14

(* The first timer in the set is one of them, and none expires before it.  *)
LEMMA FirstIsFirst ==
    ASSUME NEW S, IsFiniteSet(S), S # {}, S \subseteq Timers, due \in [Timers -> Int]
    PROVE  First(S) \in S /\ \A s \in S : due[First(S)] <= due[s]
<1>1. \E t \in S : \A s \in S \ {t} : Before(t, s)
  BY LeastExists DEF Before
<1>2. First(S) \in S /\ \A s \in S \ {First(S)} : Before(First(S), s)
  BY <1>1 DEF First
<1> QED  BY <1>2 DEF Before

(* So it is enough to arm the timerfd for the first timer.                 *)
LEMMA CoversFirst == TypeOK /\ FinitelyMany => (CoversEach <=> TimerfdCovers)
<1> SUFFICES ASSUME TypeOK, FinitelyMany, timers_ # {}
             PROVE  (\A t \in timers_ : timerfd.remaining <= Armed(due[t]).remaining)
                       <=> timerfd.remaining <= Armed(due[First(timers_)]).remaining
  BY DEF CoversEach, TimerfdCovers
<1>1. IsFiniteSet(timers_)
  BY FS_Subset DEF FinitelyMany
<1>2. First(timers_) \in timers_ /\ \A t \in timers_ : due[First(timers_)] <= due[t]
  BY <1>1, FirstIsFirst DEF TypeOK
<1> QED  BY <1>2 DEF TypeOK, Armed

-----------------------------------------------------------------------------
LEMMA InitTimersInv == Init => TimersInv
<1> SUFFICES ASSUME Init PROVE TimersInv
  OBVIOUS
<1>1. TypeOK
  BY TimesAssumption DEF Init, TypeOK, TimesAssumption
<1>2. Owned
  BY DEF Init, Owned, Range
<1>3. FinitelyMany
  BY FS_EmptySet DEF Init, FinitelyMany
<1> QED
  BY <1>1, <1>2, <1>3
     DEF Init, TimersInv, ReadAssertHolds, VectorMatches, ReportedIsReadable, CoversEach

(* Taking the first element of a queue leaves the others, once each.       *)
LEMMA RangeOfTail ==
    ASSUME NEW S, NEW s \in Seq(S), s # << >>
    PROVE  /\ Head(s) \in S /\ Tail(s) \in Seq(S)
           /\ Range(s) = Range(Tail(s)) \cup {Head(s)}
           /\ Distinct(s) => Head(s) \notin Range(Tail(s)) /\ Distinct(Tail(s))
<1> DEFINE r == Tail(s)
<1>1. /\ Len(s) \in Nat /\ Len(s) > 0 /\ DOMAIN s = 1 .. Len(s)
      /\ Head(s) = s[1] /\ Head(s) \in S
      /\ r \in Seq(S) /\ DOMAIN r = 1 .. Len(s) - 1
      /\ \A i \in 1 .. Len(s) - 1 : r[i] = s[i + 1]
  BY HeadTailProperties, LenProperties, EmptySeq
<1> HIDE DEF r
<1>2. \A i \in 1 .. Len(s) - 1 : i + 1 \in 1 .. Len(s) /\ i + 1 # 1
  BY <1>1
<1>3. \A i \in 1 .. Len(s) : i = 1 \/ (i - 1 \in 1 .. Len(s) - 1 /\ s[i] = r[i - 1])
  BY <1>1
<1>4. Range(r) \subseteq Range(s) /\ Head(s) \in Range(s)
  BY <1>1, <1>2 DEF Range
<1>5. ASSUME NEW x \in Range(s), x # Head(s) PROVE x \in Range(r)
  <2>1. PICK i \in 1 .. Len(s) : x = s[i]
    BY <1>1 DEF Range
  <2>2. i - 1 \in DOMAIN r /\ x = r[i - 1]
    BY <1>1, <1>3, <1>5, <2>1
  <2> QED  BY <2>2 DEF Range
<1>6. ASSUME Distinct(s) PROVE Head(s) \notin Range(r) /\ Distinct(r)
  <2>1. \A i \in 1 .. Len(s) - 1 : r[i] # s[1]
    BY <1>1, <1>2, <1>6 DEF Distinct
  <2>2. ASSUME NEW i \in 1 .. Len(s) - 1, NEW j \in 1 .. Len(s) - 1, r[i] = r[j] PROVE i = j
    <3>1. i + 1 = j + 1
      BY <1>1, <1>2, <1>6, <2>2 DEF Distinct
    <3> QED  BY <3>1
  <2> QED  BY <1>1, <2>1, <2>2 DEF Range, Distinct
<1> QED  BY <1>1, <1>4, <1>5, <1>6 DEF r

(* A timer at a free address enters the set, or changes places within the  *)
(* queue and the set; the timerfd covers it.                               *)
LEMMA AddCovers ==
    ASSUME TimersInv, NEW t \in Timers, NEW when \in Int, addTimerInLoop(t, when), pc' = pc,
           pc # "timer", jumps' = jumps, due' \in [Timers -> Int], due'[t] = when,
           \A s \in timers_ \ {t} : due'[s] = due[s],
           t \in timers_ => due[t] = when
    PROVE  /\ timerfd' \in [remaining : Nat, readable : BOOLEAN]
           /\ CoversEach'
<1>1. /\ timers_ \subseteq Timers /\ due \in [Timers -> Int] /\ IsFiniteSet(timers_)
      /\ timerfd \in [remaining : Nat, readable : BOOLEAN]
  BY FS_Subset DEF TimersInv, TypeOK, FinitelyMany
<1>2. timers_' = timers_ \cup {t}
  BY DEF addTimerInLoop
<1>3. CASE earliestChanged(when)
  <2>1. timerfd' = Armed(when) /\ timerfd'.remaining = IF when < 1 THEN 1 ELSE when
    BY <1>3 DEF addTimerInLoop, Armed
  <2>2. \A s \in timers_ : when <= due[s]
    BY <1>1, <1>3, FirstIsFirst DEF earliestChanged
  <2>3. \A s \in timers_' : timerfd'.remaining <= Armed(due'[s]).remaining
    BY <1>1, <1>2, <2>1, <2>2 DEF Armed
  <2> QED  BY <2>1, <2>3 DEF CoversEach, Armed
<1>4. CASE ~earliestChanged(when)
  <2>1. timerfd' = timerfd /\ timers_ # {} /\ due[First(timers_)] <= when
    BY <1>1, <1>4, FirstIsFirst DEF addTimerInLoop, earliestChanged
  <2>2. ASSUME ~timerfd.readable, jumps = 0, pc # "callbacks", NEW s \in timers_'
        PROVE  timerfd.remaining <= Armed(due'[s]).remaining
    <3>1. \A u \in timers_ : timerfd.remaining <= Armed(due[u]).remaining
      BY <2>1, <2>2 DEF TimersInv, CoversEach
    <3>2. CASE s # t
      BY <1>2, <2>2, <3>1, <3>2
    <3>3. CASE s = t
      <4>1. timerfd.remaining <= Armed(due[First(timers_)]).remaining
            /\ due[First(timers_)] \in Int
        BY <1>1, <2>1, <3>1, FirstIsFirst
      <4> QED  BY <1>1, <2>1, <3>3, <4>1 DEF Armed
    <3> QED  BY <3>2, <3>3
  <2> QED  BY <1>1, <2>1, <2>2 DEF TimersInv, CoversEach
<1> QED  BY <1>3, <1>4

LEMMA AddTimerHereStep ==
    ASSUME TimersInv, NEW t \in Timers, NEW delay \in Delays, NEW interval \in Intervals,
           addTimerHere(t, delay, interval)
    PROVE  TimersInv'
<1>1. /\ t \notin alive /\ alive' = alive \cup {t}
      /\ due' = [due EXCEPT ![t] = delay] /\ interval_' = [interval_ EXCEPT ![t] = interval]
      /\ addTimerInLoop(t, delay) /\ timers_' = timers_ \cup {t}
      /\ pc # "timer" /\ pc # "poll"
      /\ UNCHANGED <<expired, toRun, now, pc, pending, returning, jumps, failed>>
  BY DEF addTimerHere, NewTimer, InUserCode, loop, addTimerInLoop
<1>2. delay \in Int /\ interval \in Nat
  BY TimesAssumption DEF TimesAssumption
<1>3. due' \in [Timers -> Int] /\ due'[t] = delay
      /\ \A s \in Timers : s # t => due'[s] = due[s]
  BY <1>1, <1>2 DEF TimersInv, TypeOK
<1>4. t \notin timers_ /\ t \notin expired /\ t \notin Range(pending)
  BY <1>1 DEF TimersInv, Owned
<1>5. timerfd' \in [remaining : Nat, readable : BOOLEAN] /\ CoversEach'
  BY <1>1, <1>2, <1>3, <1>4, AddCovers DEF TimersInv, TypeOK
<1>6. TypeOK'
  BY <1>1, <1>2, <1>3, <1>5 DEF TimersInv, TypeOK
<1>7. Owned'
  BY <1>1, <1>4 DEF TimersInv, Owned, Range
<1>8. FinitelyMany'
  <2>1. (timers_ \cup expired)' = (timers_ \cup expired) \cup {t}
    BY <1>1
  <2> QED  BY <2>1, FS_AddElement DEF TimersInv, FinitelyMany
<1> QED
  BY <1>1, <1>5, <1>6, <1>7, <1>8
     DEF TimersInv, ReadAssertHolds, VectorMatches, ReportedIsReadable

LEMMA AddTimerStep ==
    ASSUME TimersInv, NEW t \in Timers, NEW delay \in Delays, NEW interval \in Intervals,
           addTimer(t, delay, interval)
    PROVE  TimersInv'
<1>1. /\ t \notin alive /\ alive' = alive \cup {t}
      /\ due' = [due EXCEPT ![t] = delay] /\ interval_' = [interval_ EXCEPT ![t] = interval]
      /\ pending' = Append(pending, t) /\ returning' = returning \cup {t}
      /\ UNCHANGED <<timers_, expired, toRun, now, pc, timerfd, jumps, failed>>
  BY DEF addTimer, NewTimer, loop
<1>2. delay \in Int /\ interval \in Nat
  BY TimesAssumption DEF TimesAssumption
<1>3. due' \in [Timers -> Int] /\ \A s \in Timers : s # t => due'[s] = due[s]
  BY <1>1, <1>2 DEF TimersInv, TypeOK
<1>4. t \notin timers_ /\ t \notin expired /\ t \notin Range(pending)
  BY <1>1 DEF TimersInv, Owned
<1>5. /\ pending' \in Seq(Timers) /\ Len(pending) \in Nat /\ DOMAIN pending = 1 .. Len(pending)
      /\ DOMAIN pending' = 1 .. Len(pending) + 1 /\ pending'[Len(pending) + 1] = t
      /\ \A i \in 1 .. Len(pending) : pending'[i] = pending[i]
  BY <1>1, AppendProperties, LenProperties DEF TimersInv, TypeOK
<1>6. Range(pending)' = Range(pending) \cup {t}
  BY <1>5 DEF Range
<1>7. \A i, j \in DOMAIN pending' : pending'[i] = pending'[j] => i = j
  BY <1>4, <1>5 DEF TimersInv, Owned, Range
<1>8. Owned'
  BY <1>1, <1>4, <1>6, <1>7 DEF TimersInv, Owned
<1>9. TypeOK'
  BY <1>1, <1>2, <1>3, <1>5 DEF TimersInv, TypeOK
<1>10. CoversEach'
  BY <1>1, <1>3, <1>4 DEF TimersInv, CoversEach, TypeOK
<1> QED
  BY <1>1, <1>8, <1>9, <1>10
     DEF TimersInv, ReadAssertHolds, VectorMatches, ReportedIsReadable, FinitelyMany

LEMMA RunPendingStep ==
    ASSUME TimersInv, runPending
    PROVE  TimersInv'
<1> DEFINE t == Head(pending)
<1>1. /\ pc = "user" /\ pending # << >> /\ pending' = Tail(pending)
      /\ addTimerInLoop(t, due[t]) /\ timers_' = timers_ \cup {t}
      /\ UNCHANGED <<expired, toRun, now, pc, returning, alive, due, interval_, jumps, failed>>
  BY DEF runPending, addTimerInLoop, loop, timer
<1>2. pending \in Seq(Timers) /\ Distinct(pending)
  BY DEF TimersInv, TypeOK, Owned, Distinct
<1>3. /\ t \in Timers /\ pending' \in Seq(Timers)
      /\ Range(pending) = Range(pending)' \cup {t}
      /\ t \notin Range(pending)' /\ Distinct(pending)'
  BY <1>1, <1>2, RangeOfTail DEF Range, Distinct
<1> HIDE DEF t
<1>6. timerfd' \in [remaining : Nat, readable : BOOLEAN] /\ CoversEach'
  BY <1>1, <1>3, AddCovers DEF TimersInv, TypeOK
<1>7. TypeOK'
  BY <1>1, <1>3, <1>6 DEF TimersInv, TypeOK
<1>8. Owned'
  BY <1>1, <1>3 DEF TimersInv, Owned, Distinct
<1>9. FinitelyMany'
  <2>1. (timers_ \cup expired)' = (timers_ \cup expired) \cup {t}
    BY <1>1
  <2> QED  BY <2>1, FS_AddElement DEF TimersInv, FinitelyMany
<1> QED
  BY <1>1, <1>6, <1>7, <1>8, <1>9
     DEF TimersInv, ReadAssertHolds, VectorMatches, ReportedIsReadable

LEMMA HandleReadStep ==
    ASSUME TimersInv, handleRead
    PROVE  TimersInv'
<1>1. /\ pc = "timer" /\ pc' = "callbacks" /\ timerfd.readable /\ failed' = failed
      /\ timerfd' = [timerfd EXCEPT !.readable = FALSE] /\ now' = 0
      /\ expired = {} /\ expired' = getExpired /\ toRun' = getExpired
      /\ timers_' = timers_ \ getExpired /\ getExpired \subseteq timers_
      /\ UNCHANGED <<pending, returning, alive, due, interval_, jumps>>
  BY DEF handleRead, getExpired, timer, TimersInv, VectorMatches, ReportedIsReadable
<1>2. TypeOK'
  <2>1. timerfd' \in [remaining : Nat, readable : BOOLEAN]
    BY <1>1 DEF TimersInv, TypeOK
  <2>2. timers_' \subseteq Timers /\ expired' \subseteq Timers /\ toRun' \subseteq expired'
    BY <1>1 DEF TimersInv, TypeOK
  <2> QED  BY <1>1, <2>1, <2>2 DEF TimersInv, TypeOK
<1>3. Owned'
  BY <1>1 DEF TimersInv, Owned, Range
<1>4. (timers_ \cup expired)' = timers_ \cup expired
  BY <1>1
<1> QED
  BY <1>1, <1>2, <1>3, <1>4
     DEF TimersInv, ReadAssertHolds, VectorMatches, ReportedIsReadable, FinitelyMany, CoversEach

(* reset restarts what is periodic, deletes the rest and arms the timerfd  *)
(* for the least of the new expirations.                                   *)
LEMMA ResetStep ==
    ASSUME TimersInv, reset
    PROVE  TimersInv'
<1>1. /\ pc = "callbacks" /\ pc' = "user" /\ toRun = {} /\ toRun' = {}
      /\ due' = restarted /\ timers_' = timers_ \cup repeated /\ alive' = alive \ deleted
      /\ timerfd' = Rearmed(timers_', due') /\ expired' = {} /\ now' = 0
      /\ repeated \subseteq expired /\ deleted = expired \ repeated
      /\ UNCHANGED <<pending, returning, interval_, jumps, failed>>
  BY DEF reset, repeated, deleted
<1>2. due' \in [Timers -> Int]
  BY <1>1 DEF restarted, TimersInv, TypeOK
<1>3. timers_' \subseteq Timers /\ IsFiniteSet(timers_')
  BY <1>1, FS_Subset DEF TimersInv, TypeOK, FinitelyMany
<1>4. /\ timerfd' \in [remaining : Nat, readable : BOOLEAN]
      /\ timers_' # {} => /\ timerfd'.remaining > 0
                          /\ \A t \in timers_' : timerfd'.remaining <= Armed(due'[t]).remaining
  <2>1. CASE timers_' = {}
    BY <1>1, <2>1 DEF Rearmed, TimersInv, TypeOK
  <2>2. CASE timers_' # {}
    <3> DEFINE first == CHOOSE t \in timers_' : \A s \in timers_' : due'[t] <= due'[s]
    <3>1. PICK t \in timers_' : \A s \in timers_' \ {t} : due'[t] < due'[s] \/ (due'[t] = due'[s] /\ t < s)
      BY <1>2, <1>3, <2>2, LeastExists
    <3>2. \A s \in timers_' : due'[t] <= due'[s]
      BY <1>2, <1>3, <3>1
    <3>3. first \in timers_' /\ \A s \in timers_' : due'[first] <= due'[s]
      BY <3>2
    <3>4. timerfd' = Armed(due'[first])
      BY <1>1, <2>2 DEF Rearmed
    <3> HIDE DEF first
    <3> QED  BY <1>2, <1>3, <3>3, <3>4 DEF Armed
  <2> QED  BY <2>1, <2>2
<1>5. TypeOK'
  BY <1>1, <1>2, <1>3, <1>4 DEF TimersInv, TypeOK
<1>6. Owned'
  <2>1. deleted \cap (timers_' \cup Range(pending)) = {}
    BY <1>1 DEF TimersInv, Owned
  <2>2. alive' = timers_' \cup expired' \cup Range(pending)
    BY <1>1, <2>1 DEF TimersInv, Owned
  <2> QED  BY <1>1, <2>2 DEF TimersInv, Owned, Range
<1> QED
  BY <1>1, <1>3, <1>4, <1>5, <1>6
     DEF TimersInv, ReadAssertHolds, VectorMatches, ReportedIsReadable, FinitelyMany, CoversEach

(* Time passes for the timers as it does for the timerfd.                  *)
LEMMA TickStep ==
    ASSUME TimersInv, tick
    PROVE  TimersInv'
<1>1. /\ due' = [t \in Timers |-> IF t \in alive THEN Later(due[t], 1) ELSE due[t]]
      /\ now' = IF pc = "callbacks" THEN Later(now, 1) ELSE now
      /\ timerfd' = CASE timerfd.remaining = 0 -> timerfd
                      [] timerfd.remaining = 1 -> [remaining |-> 0, readable |-> TRUE]
                      [] OTHER -> [timerfd EXCEPT !.remaining = @ - 1]
      /\ UNCHANGED <<timers_, expired, toRun, pc, pending, returning, alive, interval_, jumps, failed>>
  BY DEF tick, Passes
<1>2. /\ due \in [Timers -> Int] /\ now \in Int /\ timers_ \subseteq Timers /\ MaxLate \in Nat
      /\ timerfd \in [remaining : Nat, readable : BOOLEAN]
  BY TimesAssumption DEF TimersInv, TypeOK, TimesAssumption
<1>3. due' \in [Timers -> Int] /\ now' \in Int
  BY <1>1, <1>2 DEF Later
<1>4. /\ timerfd' \in [remaining : Nat, readable : BOOLEAN]
      /\ timerfd.readable => timerfd'.readable
      /\ timerfd.remaining = 1 => timerfd'.readable
      /\ timerfd.remaining > 1 => timerfd'.remaining = timerfd.remaining - 1
  BY <1>1, <1>2
<1>5. TypeOK'
  BY <1>1, <1>3, <1>4 DEF TimersInv, TypeOK
<1>6. CoversEach'
  <2>1. ASSUME NEW t \in timers_, timerfd.remaining > 1,
               timerfd.remaining <= Armed(due[t]).remaining
        PROVE  timerfd.remaining - 1 <= Armed(due'[t]).remaining
    <3>1. due[t] \in Int /\ timerfd.remaining \in Nat /\ due[t] > 1
          /\ timerfd.remaining <= due[t]
      BY <1>2, <2>1 DEF Armed
    <3>2. due'[t] \in {due[t], due[t] - 1}
      BY <1>1, <1>2, <3>1 DEF Later
    <3> QED  BY <3>1, <3>2 DEF Armed
  <2> QED  BY <1>1, <1>2, <1>4, <2>1 DEF TimersInv, CoversEach
<1> QED
  BY <1>1, <1>4, <1>5, <1>6
     DEF TimersInv, ReadAssertHolds, Owned, Range, VectorMatches, ReportedIsReadable, FinitelyMany

LEMMA JumpStep ==
    ASSUME TimersInv, NEW d \in {-1, 1}, jump(d)
    PROVE  TimersInv'
<1>1. /\ due' = [t \in Timers |-> IF t \in alive THEN Later(due[t], d) ELSE due[t]]
      /\ now' = IF pc = "callbacks" THEN Later(now, d) ELSE now
      /\ jumps < MaxJumps /\ jumps' = jumps + 1
      /\ UNCHANGED <<timers_, expired, toRun, pc, pending, returning, alive, interval_, timerfd, failed>>
  BY DEF jump, Passes
<1>2. due' \in [Timers -> Int] /\ now' \in Int
  BY <1>1, TimesAssumption DEF TimersInv, TypeOK, TimesAssumption, Later
<1>3. jumps' \in 0 .. MaxJumps /\ jumps' # 0
  BY <1>1, TimesAssumption DEF TimersInv, TypeOK, TimesAssumption
<1>4. TypeOK'
  BY <1>1, <1>2, <1>3 DEF TimersInv, TypeOK
<1> QED
  BY <1>1, <1>3, <1>4
     DEF TimersInv, ReadAssertHolds, Owned, Range, VectorMatches, ReportedIsReadable,
         FinitelyMany, CoversEach

LEMMA TimersStep == TimersInv /\ [Next]_vars => TimersInv'
<1> SUFFICES ASSUME TimersInv, [Next]_vars PROVE TimersInv'
  OBVIOUS
<1>1. ASSUME NEW t \in Timers, NEW delay \in Delays, NEW interval \in Intervals,
             addTimer(t, delay, interval) \/ addTimerHere(t, delay, interval)
      PROVE  TimersInv'
  BY <1>1, AddTimerStep, AddTimerHereStep
<1>2. ASSUME NEW t \in Timers, returnTimerId(t) PROVE TimersInv'
  BY <1>2
     DEF returnTimerId, loop, timer, TimersInv, TypeOK, ReadAssertHolds, Owned, Range,
         VectorMatches, ReportedIsReadable, FinitelyMany, CoversEach
<1>3. CASE runPending \/ handleRead \/ reset \/ tick
  BY <1>3, RunPendingStep, HandleReadStep, ResetStep, TickStep
<1>4. ASSUME NEW d \in {-1, 1}, jump(d) PROVE TimersInv'
  BY <1>4, JumpStep
<1>5. CASE endIteration \/ poll \/ runCallback \/ UNCHANGED vars
  <2>1. /\ pc' = pc \/ (pc = "user" /\ pc' = "poll")
           \/ (pc = "poll" /\ pc' = IF timerfd.readable THEN "timer" ELSE "user")
        /\ toRun' \subseteq toRun
        /\ UNCHANGED <<timers_, expired, now, pending, returning, alive, due, interval_, timerfd,
                       jumps, failed>>
    BY <1>5 DEF endIteration, poll, runCallback, vars, loop, timer
  <2>2. TypeOK'
    BY <2>1 DEF TimersInv, TypeOK
  <2>3. (ReadAssertHolds /\ Owned /\ FinitelyMany)'
    BY <2>1 DEF TimersInv, ReadAssertHolds, Owned, Range, FinitelyMany
  <2>4. (VectorMatches /\ ReportedIsReadable /\ CoversEach)'
    BY <2>1 DEF TimersInv, VectorMatches, ReportedIsReadable, CoversEach
  <2> QED  BY <2>2, <2>3, <2>4 DEF TimersInv
<1> QED  BY <1>1, <1>2, <1>3, <1>4, <1>5 DEF Next, LoopStep

LEMMA TimersInvariant == Spec => []TimersInv
BY InitTimersInv, TimersStep, PTL DEF Spec

-----------------------------------------------------------------------------
(* Every variable of the timer queue keeps its type.                       *)
THEOREM TypeCorrect == Spec => []TypeOK
<1>1. TimersInv => TypeOK
  BY DEF TimersInv
<1> QED  BY <1>1, TimersInvariant, PTL

(* The assertion of readTimerfd holds: what poll reported has not been     *)
(* discarded by a timerfd_settime when handleRead reads it.                *)
THEOREM ReadFindsExpiration == Spec => []ReadAssertHolds
<1>1. TimersInv => ReadAssertHolds
  BY DEF TimersInv
<1> QED  BY <1>1, TimersInvariant, PTL

(* Each Timer is in one place from new to delete, however addTimer calls   *)
(* of other threads, callbacks and reset are interleaved.                  *)
THEOREM TimersOwned == Spec => []Owned
<1>1. TimersInv => Owned
  BY DEF TimersInv
<1> QED  BY <1>1, TimersInvariant, PTL

(* The timerfd wakes the loop in time for the first of any number of       *)
(* timers, outside handleRead.                                             *)
THEOREM NoTimerForgotten == Spec => []TimerfdCovers
<1>1. TimersInv => TimerfdCovers
  BY CoversFirst DEF TimersInv
<1> QED  BY <1>1, TimersInvariant, PTL
=============================================================================
