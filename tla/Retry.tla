------------------------------- MODULE Retry -------------------------------
(***************************************************************************)
(* retry.Do with an ExponentialStrategy, which NewDB uses to open the      *)
(* database.  Durations are counted in an arbitrary unit; `Second' is one  *)
(* second in it.  The context may be cancelled at any moment from outside. *)
(***************************************************************************)
EXTENDS Integers

CONSTANTS
    Limits,      \* values of maxAttempts a caller may pass
    Floor,       \* ExponentialStrategy.Min
    Ceiling,     \* ExponentialStrategy.Max
    MaxJitter,   \* ExponentialStrategy.MaxJitter
    Second,      \* time.Second
    Cancellable  \* the caller's context can be cancelled

ASSUME RetryAssumption ==
    /\ Limits \subseteq Int
    /\ Floor \in Nat /\ Ceiling \in Nat /\ MaxJitter \in Nat
    /\ Second \in Nat \ {0}
    /\ Cancellable \in BOOLEAN

VARIABLES
    limit,     \* maxAttempts
    pc,        \* where Do is
    i,         \* the loop variable
    calls,     \* calls of op so far
    ctxDone,   \* the context is cancelled
    late,      \* history: calls of op that began after the cancellation
    pauses,    \* history: how long each sleep lasted, by its attempt
    result     \* what Do returned

vars == <<limit, pc, i, calls, ctxDone, late, pauses, result>>

Init ==
    /\ limit \in Limits
    /\ pc = "enter" /\ i = 0 /\ calls = 0
    /\ ctxDone = FALSE /\ late = 0
    /\ pauses = [a \in {} |-> 0]
    /\ result = "none"

\* rand.Int63n(MaxJitter): below MaxJitter, and 0 when no jitter is wanted.
Jitter == IF MaxJitter > 0 THEN 0 .. MaxJitter - 1 ELSE {0}

\* The wait before the cap: Min + 2^attempt seconds.
Backoff(attempt) == Floor + 2 ^ attempt * Second

\* ExponentialStrategy.Duration: the cap first, then the jitter.
Duration(attempt) ==
    {(IF Backoff(attempt) > Ceiling THEN Ceiling ELSE Backoff(attempt)) + j : j \in Jitter}

Return(r) == pc' = "done" /\ result' = r

\* Do refuses a limit below one.
Enter ==
    /\ pc = "enter"
    /\ IF limit < 1 THEN Return("refused") ELSE pc' = "check" /\ UNCHANGED result
    /\ UNCHANGED <<limit, i, calls, ctxDone, late, pauses>>

\* Faulty variant: the context is only looked at before the first attempt.
CheckOnce ==
    /\ pc = "check"
    /\ IF i >= limit THEN Return("failed")
       ELSE IF ctxDone /\ i = 0 THEN Return("cancelled")
       ELSE pc' = "call" /\ UNCHANGED result
    /\ UNCHANGED <<limit, i, calls, ctxDone, late, pauses>>

\* Faulty variant: one attempt too many.
CheckPast ==
    /\ pc = "check"
    /\ IF i > limit THEN Return("failed")
       ELSE IF ctxDone THEN Return("cancelled")
       ELSE pc' = "call" /\ UNCHANGED result
    /\ UNCHANGED <<limit, i, calls, ctxDone, late, pauses>>

\* The head of the loop: its condition, then the context.
Check ==
    /\ pc = "check"
    /\ IF i >= limit THEN Return("failed")
       ELSE IF ctxDone THEN Return("cancelled")
       ELSE pc' = "call" /\ UNCHANGED result
    /\ UNCHANGED <<limit, i, calls, ctxDone, late, pauses>>

Call ==
    /\ pc = "call"
    /\ calls' = calls + 1
    /\ late' = IF ctxDone THEN late + 1 ELSE late
    /\ \/ Return("ok")
       \/ pc' = "failed" /\ UNCHANGED result
    /\ UNCHANGED <<limit, i, ctxDone, pauses>>

\* A failed attempt sleeps, unless it was the last; the sleep cannot be cut.
Sleep ==
    /\ pc = "failed"
    /\ IF i # limit - 1
       THEN \E d \in Duration(i) :
                pauses' = [a \in 0 .. i |-> IF a = i THEN d ELSE pauses[a]]
       ELSE UNCHANGED pauses
    /\ pc' = "check" /\ i' = i + 1
    /\ UNCHANGED <<limit, calls, ctxDone, late, result>>

CancelCtx ==
    /\ Cancellable /\ ~ctxDone
    /\ ctxDone' = TRUE
    /\ UNCHANGED <<limit, pc, i, calls, late, pauses, result>>

Over == pc = "done" /\ UNCHANGED vars

Do == Enter \/ Check \/ Call \/ Sleep

Next == Do \/ CancelCtx \/ Over

Spec == Init /\ [][Next]_vars

-----------------------------------------------------------------------------
(* Properties                                                              *)

\* Types; there is a result as soon as, and not before, Do has returned.
TypeOK ==
    /\ limit \in Limits
    /\ pc \in {"enter", "check", "call", "failed", "done"}
    /\ i \in Nat /\ calls \in Nat /\ late \in Nat
    /\ ctxDone \in BOOLEAN
    /\ result \in {"none", "ok", "failed", "cancelled", "refused"}
    /\ pc = "done" <=> result # "none"

\* op is called at most maxAttempts times, and "failed permanently after n
\* attempts" is told only after exactly n calls (operation.go:55-72).
AttemptsAsTold ==
    /\ calls <= limit \/ calls = 0
    /\ result = "failed" => calls = limit

\* A cancellation lets through at most the one attempt that had passed the
\* check, whatever is slept in between (operation.go:56-59).
CancelStopsRetrying == late <= 1

\* There is a pause between any two attempts and none after the last one
\* (operation.go:64-67).
PausesBetweenAttempts ==
    result = "failed" => DOMAIN pauses = 0 .. limit - 2

\* NewDB waits between one second and twenty (db.go:52).
PausesOfSeconds == \A a \in DOMAIN pauses : pauses[a] >= Second
=============================================================================
