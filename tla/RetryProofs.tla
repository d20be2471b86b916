---------------------------- MODULE RetryProofs ----------------------------
(***************************************************************************)
(* Proofs about Retry, for every limit, strategy and moment of cancellation*)
(***************************************************************************)
EXTENDS Retry, TLAPS

\* What the counters of Do are at each of its points: as many calls as
\* iterations, one pause behind each of them but the last.
Counted ==
    /\ limit \in Int /\ i \in Nat /\ calls \in Nat /\ late \in Nat
    /\ ctxDone \in BOOLEAN
    /\ pc \in {"enter", "check", "call", "failed", "done"}
    /\ result = "none" <=> pc # "done"
    /\ pc = "enter" => i = 0 /\ calls = 0 /\ DOMAIN pauses = {}
    /\ pc \in {"check", "call", "failed"} => limit >= 1
    /\ pc = "check" => calls = i /\ i <= limit
    /\ pc = "check" /\ i < limit => DOMAIN pauses = 0 .. i - 1
    /\ pc = "check" /\ i = limit => DOMAIN pauses = 0 .. limit - 2
    /\ pc = "call" => calls = i /\ i < limit /\ DOMAIN pauses = 0 .. i - 1
    /\ pc = "failed" => calls = i + 1 /\ i < limit /\ DOMAIN pauses = 0 .. i - 1
    /\ pc = "done" => calls = 0 \/ calls <= limit
    /\ result = "failed" => calls = limit /\ DOMAIN pauses = 0 .. limit - 2

LEMMA CountedInvariant == Spec => []Counted
<1>1. Init => Counted
  <2> SUFFICES ASSUME Init PROVE Counted
    OBVIOUS
  <2>1. limit \in Int
    BY RetryAssumption DEF Init
  <2>2. DOMAIN pauses = {}
    BY DEF Init
  <2> QED
    BY <2>1, <2>2 DEF Init, Counted
<1>2. Counted /\ [Next]_vars => Counted'
  <2> SUFFICES ASSUME Counted, [Next]_vars PROVE Counted'
    OBVIOUS
  <2> USE DEF Counted
  <2>1. CASE Enter  BY <2>1 DEF Enter, Return
  <2>2. CASE Check  BY <2>2 DEF Check, Return
  <2>3. CASE Call  BY <2>3 DEF Call, Return
  <2>4. CASE Sleep
    <3>1. CASE i = limit - 1  BY <2>4, <3>1 DEF Sleep
    <3>2. CASE i # limit - 1
      <4>1. DOMAIN pauses' = 0 .. i
        BY <2>4, <3>2 DEF Sleep
      <4> QED
        BY <2>4, <3>2, <4>1 DEF Sleep
    <3> QED
      BY <3>1, <3>2
  <2>5. CASE CancelCtx  BY <2>5 DEF CancelCtx
  <2>6. CASE UNCHANGED vars  BY <2>6 DEF vars
  <2> QED
    BY <2>1, <2>2, <2>3, <2>4, <2>5, <2>6 DEF Next, Do, Over
<1> QED
  BY <1>1, <1>2, PTL DEF Spec

\* Every variable of Retry stays in its type, and there is a result exactly
\* when Do has returned (operation.go:50-72).
THEOREM TypeCorrect == Spec => []TypeOK
<1> DEFINE Typed == limit \in Limits /\ result \in {"none", "ok", "failed", "cancelled", "refused"}
<1>1. Init => Typed
  BY DEF Init
<1>2. Typed /\ [Next]_vars => Typed'
  <2> SUFFICES ASSUME Typed, [Next]_vars PROVE Typed'
    OBVIOUS
  <2>1. CASE Enter  BY <2>1 DEF Enter, Return
  <2>2. CASE Check  BY <2>2 DEF Check, Return
  <2>3. CASE Call  BY <2>3 DEF Call, Return
  <2>4. CASE Sleep  BY <2>4 DEF Sleep
  <2>5. CASE CancelCtx  BY <2>5 DEF CancelCtx
  <2>6. CASE UNCHANGED vars  BY <2>6 DEF vars
  <2> QED
    BY <2>1, <2>2, <2>3, <2>4, <2>5, <2>6 DEF Next, Do, Over
<1>3. Counted /\ Typed => TypeOK
  BY DEF Counted, TypeOK
<1> QED
  BY <1>1, <1>2, <1>3, CountedInvariant, PTL DEF Spec

\* op is called at most maxAttempts times, and the number of attempts told in
\* ErrFailedPermanently is the number made (operation.go:55-72).
THEOREM Attempts == Spec => []AttemptsAsTold
<1>1. Counted => AttemptsAsTold
  BY DEF Counted, AttemptsAsTold
<1> QED
  BY <1>1, CountedInvariant, PTL

\* There is a pause between any two attempts and none after the last
\* (operation.go:64-67).
THEOREM Pauses == Spec => []PausesBetweenAttempts
<1>1. Counted => PausesBetweenAttempts
  BY DEF Counted, PausesBetweenAttempts
<1> QED
  BY <1>1, CountedInvariant, PTL

\* At most one attempt begins after the context was cancelled
\* (operation.go:56-59).
THEOREM CancelStops == Spec => []CancelStopsRetrying
<1> DEFINE Late ==
      /\ late \in Nat /\ late <= 1
      /\ pc = "call" \/ ~ctxDone => late = 0
<1>1. Init => Late
  BY DEF Init
<1>2. Late /\ [Next]_vars => Late'
  <2> SUFFICES ASSUME Late, [Next]_vars PROVE Late'
    OBVIOUS
  <2>1. CASE Enter  BY <2>1 DEF Enter, Return
  <2>2. CASE Check  BY <2>2 DEF Check, Return
  <2>3. CASE Call  BY <2>3 DEF Call, Return
  <2>4. CASE Sleep  BY <2>4 DEF Sleep
  <2>5. CASE CancelCtx  BY <2>5 DEF CancelCtx
  <2>6. CASE UNCHANGED vars  BY <2>6 DEF vars
  <2> QED
    BY <2>1, <2>2, <2>3, <2>4, <2>5, <2>6 DEF Next, Do, Over
<1>3. Late => CancelStopsRetrying
  BY DEF CancelStopsRetrying
<1> QED
  BY <1>1, <1>2, <1>3, PTL DEF Spec
=============================================================================
