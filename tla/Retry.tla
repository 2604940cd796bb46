-------------------------------- MODULE Retry --------------------------------
(***************************************************************************)
(* The retry loop that rdap.Query, cert.InspectDomain and cert.InspectAddr *)
(* share: up to MaxAttempts calls, each under its own deadline and the     *)
(* deadline of the context it is given, with a pause between two of them   *)
(* that the context can cut short.  Time is discrete and starts when the   *)
(* loop is entered; what is left of the global budget then is its deadline.*)
(***************************************************************************)
EXTENDS Naturals

CONSTANTS
    MaxAttempts,  \* attempts per probe (3)
    PerCall,      \* the per-attempt deadline, --timeout (5s)
    Delay,        \* the pause between two attempts (1s)
    Budget        \* the longest the context can still have to live (15s)

ASSUME RetryAssumption ==
    /\ MaxAttempts \in Nat \ {0} /\ PerCall \in Nat \ {0}
    /\ Delay \in Nat \ {0} /\ Budget \in Nat

VARIABLES
    deadline,  \* when the context is cancelled
    now,       \* the clock
    since,     \* when the current call or pause began
    pc,        \* in a call, in the pause after it, or done
    attempt,   \* the loop variable
    lastErr,   \* what the last failed call reported
    result     \* what the loop returned

vars == <<deadline, now, since, pc, attempt, lastErr, result>>

\* What a call can fail with: the peer's own failure (a refused connection, a
\* bad certificate, a bad answer), or a deadline that ran out.
CallError == {"peer", "timeout"}

Least(a, b) == IF a <= b THEN a ELSE b

Cancelled == now >= deadline

Init ==
    /\ deadline \in 0 .. Budget
    /\ now = 0
    /\ since = 0
    /\ pc = "call"
    /\ attempt = 1
    /\ lastErr = "none"
    /\ result = "none"

\* Variant: the call is given the context as it is.
CallDeadlineOfContext == deadline

\* context.WithTimeout: the call ends by the earlier of the two deadlines.
CallDeadline == Least(since + PerCall, deadline)

\* Variant: the call carries its own deadline but not the context's.
TickFreeCall ==
    /\ \/ pc = "call" /\ now < since + PerCall
       \/ pc = "pause" /\ now < since + Delay /\ ~Cancelled
    /\ now' = now + 1
    /\ UNCHANGED <<deadline, since, pc, attempt, lastErr, result>>

\* The clock runs on while a call or a pause is pending.
Tick ==
    /\ \/ pc = "call" /\ now < CallDeadline
       \/ pc = "pause" /\ now < since + Delay /\ ~Cancelled
    /\ now' = now + 1
    /\ UNCHANGED <<deadline, since, pc, attempt, lastErr, result>>

\* The call answers in time: return it.
Succeed ==
    /\ pc = "call"
    /\ ~Cancelled
    /\ pc' = "done"
    /\ result' = "ok"
    /\ UNCHANGED <<deadline, now, since, attempt, lastErr>>

\* The errors the pending call can end with now: nothing can be heard from
\* the peer once the context is gone.
PossibleErrors ==
    {e \in CallError :
        /\ e = "peer" => ~Cancelled
        /\ e = "timeout" => now >= CallDeadline}

\* Variant: the loop pauses after its last attempt as well.
FailThenAlwaysPause ==
    /\ pc = "call"
    /\ \E e \in PossibleErrors : lastErr' = e
    /\ pc' = "pause"
    /\ since' = now
    /\ UNCHANGED <<deadline, now, attempt, result>>

\* Variant: one attempt too few.
FailOneShort ==
    /\ pc = "call"
    /\ \E e \in PossibleErrors : lastErr' = e
    /\ IF attempt + 1 < MaxAttempts
       THEN pc' = "pause" /\ since' = now /\ UNCHANGED result
       ELSE pc' = "done" /\ result' = "lastErr" /\ UNCHANGED since
    /\ UNCHANGED <<deadline, now, attempt>>

\* Variant: a call that timed out is made again at once and not counted.
FailFreeOfTimeouts ==
    /\ pc = "call"
    /\ \E e \in PossibleErrors :
          /\ lastErr' = e
          /\ IF e = "timeout" THEN since' = now /\ UNCHANGED <<pc, result>>
             ELSE IF attempt < MaxAttempts
             THEN pc' = "pause" /\ since' = now /\ UNCHANGED result
             ELSE pc' = "done" /\ result' = "lastErr" /\ UNCHANGED since
    /\ UNCHANGED <<deadline, now, attempt>>

\* The call fails: remember why, and pause unless that was the last attempt.
Fail ==
    /\ pc = "call"
    /\ \E e \in PossibleErrors : lastErr' = e
    /\ IF attempt < MaxAttempts
       THEN pc' = "pause" /\ since' = now /\ UNCHANGED result
       ELSE pc' = "done" /\ result' = "lastErr" /\ UNCHANGED since
    /\ UNCHANGED <<deadline, now, attempt>>

\* time.After(Delay) fired: the next attempt, with a fresh deadline.  When the
\* context ended at the same instant, select may take either case.
NextAttempt ==
    /\ pc = "pause"
    /\ now = since + Delay
    /\ pc' = "call"
    /\ attempt' = attempt + 1
    /\ since' = now
    /\ UNCHANGED <<deadline, now, lastErr, result>>

\* ctx.Done() fired during the pause: the loop returns the context's error.
Abandon ==
    /\ pc = "pause"
    /\ Cancelled
    /\ pc' = "done"
    /\ result' = "ctxErr"
    /\ UNCHANGED <<deadline, now, since, attempt, lastErr>>

Returned == pc = "done" /\ UNCHANGED vars

Next == Tick \/ Succeed \/ Fail \/ NextAttempt \/ Abandon \/ Returned

\* The clock never stops, and an ended call or pause is noticed.
Fairness == WF_vars(Tick \/ Succeed \/ Fail \/ NextAttempt \/ Abandon)

Spec == Init /\ [][Next]_vars /\ Fairness

-----------------------------------------------------------------------------

\* Types; the loop variable never passes MaxAttempts, and the loop is done
\* exactly when it has something to return.  (rdap.go:50-64)
TypeOK ==
    /\ deadline \in 0 .. Budget
    /\ now \in Nat /\ since \in 0 .. now
    /\ pc \in {"call", "pause", "done"}
    /\ attempt \in 1 .. MaxAttempts
    /\ lastErr \in CallError \union {"none"}
    /\ result \in {"none", "ok", "lastErr", "ctxErr"}
    /\ pc = "done" <=> result # "none"

\* However the calls and pauses fall, the loop is out by the deadline of the
\* context it was given: a probe never outlives the 15s budget.
\* (rdap.go:57-61, cert.go:85-89,112-118)
DoneByDeadline == now <= deadline

\* A probe gives up only after all its attempts, or because the budget is
\* gone: a failing peer alone never ends it early.  (rdap.go:50-64)
GivesUpOnlyWhenSpent ==
    result \in {"lastErr", "ctxErr"} => attempt = MaxAttempts \/ Cancelled

\* A silent peer costs an attempt its own deadline and no more, so one slow
\* attempt cannot eat the time of the later ones.  (rdap.go:50-68)
WithinSchedule ==
    /\ now <= attempt * (PerCall + Delay)
    /\ pc = "call" => now <= attempt * PerCall + (attempt - 1) * Delay

\* The loop always returns.  Once the context has ended every call fails at
\* once, so a failure that is not counted would be repeated for ever.
\* (rdap.go:50-64)
Termination == <>(pc = "done")
=============================================================================
