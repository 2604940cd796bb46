----------------------------- MODULE RetryProofs -----------------------------
(***************************************************************************)
(* Proofs about Retry, for any number of attempts, any deadlines and any   *)
(* pause, whenever the context ends.                                       *)
(***************************************************************************)
EXTENDS Retry, TLAPS

USE RetryAssumption

(***************************************************************************)
(* What the loop can have spent when a call and when a pause begins.  The  *)
(* products of variables and constants are dealt with here, once.          *)
(***************************************************************************)

\* The latest time the n-th call can begin.
CallStart(n) == (n - 1) * (PerCall + Delay)

LEMMA CallStartFacts ==
    ASSUME NEW n \in Nat \ {0}
    PROVE  /\ CallStart(n) \in Nat
           /\ CallStart(n) + PerCall = n * PerCall + (n - 1) * Delay
           /\ CallStart(n) + PerCall + Delay = n * (PerCall + Delay)
           /\ CallStart(n + 1) = CallStart(n) + PerCall + Delay
<1>1. n - 1 \in Nat /\ PerCall + Delay \in Nat
  OBVIOUS
<1>2. (n - 1) * (PerCall + Delay) \in Nat
  BY <1>1
<1>3. n * (PerCall + Delay) = (n - 1) * (PerCall + Delay) + (PerCall + Delay)
  BY SMT
<1>4. (n - 1) * (PerCall + Delay) = (n - 1) * PerCall + (n - 1) * Delay
  BY SMT
<1>5. n * PerCall = (n - 1) * PerCall + PerCall
  BY SMT
<1>6. (n - 1) * PerCall \in Nat /\ (n - 1) * Delay \in Nat
  BY <1>1, SMT
<1> QED
  BY <1>1, <1>2, <1>3, <1>4, <1>5, <1>6 DEF CallStart

-----------------------------------------------------------------------------
(***************************************************************************)
(* The inductive invariant.  Schedule relates the clock to the beginning   *)
(* of the pending call or pause, and that to the number of attempts; the   *)
(* bounds of WithinSchedule alone forget when the pending one began, and   *)
(* TypeOK alone that no pause follows the last attempt.                    *)
(***************************************************************************)
Schedule ==
    /\ pc = "call" => since <= CallStart(attempt) /\ now <= since + PerCall
    /\ pc = "pause" => since <= CallStart(attempt) + PerCall /\ now <= since + Delay
    /\ now <= CallStart(attempt) + PerCall + Delay
    /\ pc = "pause" => attempt < MaxAttempts

IInv == TypeOK /\ DoneByDeadline /\ GivesUpOnlyWhenSpent /\ Schedule

LEMMA InitEstablishes == Init => IInv
<1> SUFFICES ASSUME Init PROVE IInv
  OBVIOUS
<1>1. CallStart(1) \in Nat
  BY CallStartFacts
<1>2. TypeOK
  BY DEF Init, TypeOK, CallError
<1>3. DoneByDeadline /\ GivesUpOnlyWhenSpent
  BY DEF Init, DoneByDeadline, GivesUpOnlyWhenSpent
<1>4. Schedule
  BY <1>1 DEF Init, Schedule
<1> QED
  BY <1>2, <1>3, <1>4 DEF IInv

\* One more unit of time stays within the pending deadline.
LEMMA TickStep ==
    ASSUME IInv, Tick
    PROVE  IInv'
<1>1. CallStart(attempt) \in Nat /\ attempt' = attempt
  BY CallStartFacts DEF IInv, TypeOK, Tick
<1>2. /\ now < deadline
      /\ pc = "call" => now < since + PerCall
      /\ pc = "pause" => now < since + Delay
      /\ pc \in {"call", "pause"}
      /\ now' = now + 1
  BY DEF Tick, CallDeadline, Least, Cancelled, IInv, TypeOK
<1>3. UNCHANGED <<deadline, since, pc, attempt, lastErr, result>>
  BY DEF Tick
<1>4. TypeOK'
  BY <1>2, <1>3 DEF IInv, TypeOK
<1>5. DoneByDeadline' /\ GivesUpOnlyWhenSpent'
  BY <1>2, <1>3 DEF IInv, TypeOK, DoneByDeadline, GivesUpOnlyWhenSpent
<1>6. Schedule'
  BY <1>1, <1>2, <1>3 DEF IInv, TypeOK, Schedule
<1> QED
  BY <1>4, <1>5, <1>6 DEF IInv

LEMMA SucceedStep ==
    ASSUME IInv, Succeed
    PROVE  IInv'
<1>1. TypeOK'
  BY DEF Succeed, IInv, TypeOK
<1>2. DoneByDeadline' /\ GivesUpOnlyWhenSpent'
  BY DEF Succeed, IInv, TypeOK, DoneByDeadline, GivesUpOnlyWhenSpent
<1>3. Schedule'
  BY DEF Succeed, IInv, TypeOK, Schedule
<1> QED
  BY <1>1, <1>2, <1>3 DEF IInv

\* A failed call leads to the pause after it, or out of the loop when it was
\* the last.
LEMMA FailStep ==
    ASSUME IInv, Fail
    PROVE  IInv'
<1>1. CallStart(attempt) \in Nat
  BY CallStartFacts DEF IInv, TypeOK
<1>2. lastErr' \in CallError
  BY DEF Fail, PossibleErrors
<1>3. now <= CallStart(attempt) + PerCall
  BY <1>1 DEF Fail, IInv, TypeOK, Schedule
<1>4. TypeOK'
  BY <1>2 DEF Fail, IInv, TypeOK
<1>5. DoneByDeadline' /\ GivesUpOnlyWhenSpent'
  BY DEF Fail, IInv, TypeOK, DoneByDeadline, GivesUpOnlyWhenSpent
<1>6. Schedule'
  BY <1>1, <1>3 DEF Fail, IInv, TypeOK, Schedule
<1> QED
  BY <1>4, <1>5, <1>6 DEF IInv

\* No pause follows the last attempt, so there is one more to make.
LEMMA NextAttemptStep ==
    ASSUME IInv, NextAttempt
    PROVE  IInv'
<1>1. /\ CallStart(attempt) \in Nat /\ CallStart(attempt') \in Nat
      /\ CallStart(attempt') = CallStart(attempt) + PerCall + Delay
  BY CallStartFacts DEF NextAttempt, IInv, TypeOK
<1>2. attempt < MaxAttempts
  BY DEF NextAttempt, IInv, Schedule
<1>3. TypeOK'
  BY <1>2 DEF NextAttempt, IInv, TypeOK
<1>4. DoneByDeadline' /\ GivesUpOnlyWhenSpent'
  BY DEF NextAttempt, IInv, TypeOK, DoneByDeadline, GivesUpOnlyWhenSpent
<1>5. Schedule'
  BY <1>1 DEF NextAttempt, IInv, TypeOK, Schedule
<1> QED
  BY <1>3, <1>4, <1>5 DEF IInv

LEMMA AbandonStep ==
    ASSUME IInv, Abandon
    PROVE  IInv'
<1>1. TypeOK'
  BY DEF Abandon, IInv, TypeOK
<1>2. DoneByDeadline' /\ GivesUpOnlyWhenSpent'
  BY DEF Abandon, IInv, TypeOK, DoneByDeadline, GivesUpOnlyWhenSpent, Cancelled
<1>3. Schedule'
  BY DEF Abandon, IInv, TypeOK, Schedule
<1> QED
  BY <1>1, <1>2, <1>3 DEF IInv

LEMMA StepPreserves == IInv /\ [Next]_vars => IInv'
<1> SUFFICES ASSUME IInv, [Next]_vars PROVE IInv'
  OBVIOUS
<1>1. CASE UNCHANGED vars
  BY <1>1 DEF vars, IInv, TypeOK, DoneByDeadline, GivesUpOnlyWhenSpent, Schedule, Cancelled
<1> QED
  BY <1>1, TickStep, SucceedStep, FailStep, NextAttemptStep, AbandonStep DEF Next, Returned

-----------------------------------------------------------------------------
(* The theorems.                                                           *)

LEMMA Invariance == Spec => []IInv
  BY InitEstablishes, StepPreserves, PTL DEF Spec

\* The loop variable stays within the attempts, and the loop is done exactly
\* when it has something to return.
THEOREM TypeCorrect == Spec => []TypeOK
<1>1. IInv => TypeOK
  BY DEF IInv
<1> QED
  BY <1>1, Invariance, PTL

\* A probe is out by the deadline of the context it was given, whatever the
\* peer does.
THEOREM DeadlineTheorem == Spec => []DoneByDeadline
<1>1. IInv => DoneByDeadline
  BY DEF IInv
<1> QED
  BY <1>1, Invariance, PTL

\* A failing peer alone never ends a probe before its last attempt.
THEOREM PersistenceTheorem == Spec => []GivesUpOnlyWhenSpent
<1>1. IInv => GivesUpOnlyWhenSpent
  BY DEF IInv
<1> QED
  BY <1>1, Invariance, PTL

\* A slow attempt costs its own deadline and no more.
THEOREM ScheduleTheorem == Spec => []WithinSchedule
<1>1. IInv => WithinSchedule
  <2> SUFFICES ASSUME IInv PROVE WithinSchedule
    OBVIOUS
  <2>1. /\ CallStart(attempt) + PerCall = attempt * PerCall + (attempt - 1) * Delay
        /\ CallStart(attempt) + PerCall + Delay = attempt * (PerCall + Delay)
        /\ CallStart(attempt) \in Nat
    BY CallStartFacts DEF IInv, TypeOK
  <2>2. now <= attempt * (PerCall + Delay)
    BY <2>1 DEF IInv, Schedule
  <2>3. pc = "call" => now <= CallStart(attempt) + PerCall
    BY <2>1 DEF IInv, TypeOK, Schedule
  <2> QED
    BY <2>1, <2>2, <2>3 DEF WithinSchedule
<1> QED
  BY <1>1, Invariance, PTL
=============================================================================
