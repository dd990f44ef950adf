--------------------------- MODULE CircuitBreaker ---------------------------
(***************************************************************************)
(* The circuit breaker in front of the PostgreSQL shadow database          *)
(* (backend/src/lib/circuit-breaker.ts), one instance shared by the        *)
(* command, content and device repositories.  Every use has the same       *)
(* shape: ask canExecute(), await the database (with retries), then call   *)
(* recordSuccess() or recordFailure() exactly once.  Calls overlap, so a   *)
(* call let in under one state of the breaker may report under another.    *)
(* A call may fail for any reason; only the liveness property relates      *)
(* failures to the database.                                               *)
(***************************************************************************)
EXTENDS Naturals

CONSTANTS
    Callers,          \* repository calls that can be under way at a time
    FailureThreshold  \* failureThreshold: 5 for the one instance there is

ASSUME ThresholdAssumption == FailureThreshold \in Nat \ {0}

VARIABLES
    state,            \* state
    failures,         \* consecutiveFailures, counted up to the threshold
    resetDue,         \* Date.now() >= nextAttemptTime
    probeInFlight,    \* halfOpenProbeInFlight
    call              \* how each call was let in, or that it is not under way

vars == <<state, failures, resetDue, probeInFlight, call>>

States == {"CLOSED", "OPEN", "HALF_OPEN"}

\* "regular": let in while the circuit was closed; "probe": as a recovery test.
Calls == {"none", "regular", "probe"}

InFlight(c) == call[c] # "none"
Probing(c) == call[c] = "probe"

\* consecutiveFailures is only ever compared with the threshold.
Counted(n) == IF n < FailureThreshold THEN n ELSE FailureThreshold

Init ==
    /\ state = "CLOSED"
    /\ failures = 0
    /\ resetDue = FALSE
    /\ probeInFlight = FALSE
    /\ call = [c \in Callers |-> "none"]

-----------------------------------------------------------------------------
(* canExecute.  A call it turns away does not reach the database and       *)
(* changes nothing.                                                        *)

Admit(c) ==
    /\ ~InFlight(c)
    /\ state = "CLOSED"
    /\ call' = [call EXCEPT ![c] = "regular"]
    /\ UNCHANGED <<state, failures, resetDue, probeInFlight>>

\* The first call after the reset timeout becomes the recovery probe, and so
\* would a call that finds the circuit half open without one.
ProbeWanted ==
    \/ state = "OPEN" /\ resetDue
    \/ state = "HALF_OPEN" /\ ~probeInFlight

AdmitProbe(c) ==
    /\ ~InFlight(c)
    /\ ProbeWanted
    /\ state' = "HALF_OPEN"
    /\ probeInFlight' = TRUE
    /\ call' = [call EXCEPT ![c] = "probe"]
    /\ UNCHANGED <<failures, resetDue>>

-----------------------------------------------------------------------------
(* recordSuccess: closes a half-open circuit, forgets the failures of a    *)
(* closed one and leaves an open one alone.                                *)

\* Mutant: closing the circuit does not reset the count.
RecordSuccessKeepsCount ==
    /\ state' = IF state = "HALF_OPEN" THEN "CLOSED" ELSE state
    /\ failures' = IF state = "CLOSED" THEN 0 ELSE failures
    /\ resetDue' = (state = "OPEN" /\ resetDue)
    /\ probeInFlight' = (state # "HALF_OPEN" /\ probeInFlight)

\* Mutant: a success matters to a closed circuit only.
RecordSuccessWhenClosed ==
    /\ failures' = IF state = "CLOSED" THEN 0 ELSE failures
    /\ UNCHANGED <<state, resetDue, probeInFlight>>

RecordSuccess ==
    /\ state' = IF state = "HALF_OPEN" THEN "CLOSED" ELSE state
    /\ failures' = IF state = "OPEN" THEN failures ELSE 0
    /\ resetDue' = (state = "OPEN" /\ resetDue)
    /\ probeInFlight' = (state # "HALF_OPEN" /\ probeInFlight)

Succeed(c) ==
    /\ InFlight(c)
    /\ RecordSuccess
    /\ call' = [call EXCEPT ![c] = "none"]

-----------------------------------------------------------------------------
(* recordFailure                                                           *)

\* Mutant: the failed probe is cleared and the circuit stays half open.
ProbeFailsHalfOpen ==
    /\ state = "HALF_OPEN"
    /\ probeInFlight' = FALSE
    /\ UNCHANGED <<state, failures, resetDue>>

ProbeFails ==
    /\ state = "HALF_OPEN"
    /\ state' = "OPEN"
    /\ resetDue' = FALSE
    /\ probeInFlight' = FALSE
    /\ UNCHANGED failures

\* A failure while the circuit is already open pushes the reset further away.
FailureCounts ==
    /\ state # "HALF_OPEN"
    /\ failures' = Counted(failures + 1)
    /\ IF failures' >= FailureThreshold
       THEN state' = "OPEN" /\ resetDue' = FALSE
       ELSE UNCHANGED <<state, resetDue>>
    /\ UNCHANGED probeInFlight

Fail(c) ==
    /\ InFlight(c)
    /\ ProbeFails \/ FailureCounts
    /\ call' = [call EXCEPT ![c] = "none"]

-----------------------------------------------------------------------------

ResetTimeoutElapses ==
    /\ state = "OPEN"
    /\ ~resetDue
    /\ resetDue' = TRUE
    /\ UNCHANGED <<state, failures, probeInFlight, call>>

Next ==
    \/ \E c \in Callers : Admit(c) \/ AdmitProbe(c) \/ Succeed(c) \/ Fail(c)
    \/ ResetTimeoutElapses

Spec == Init /\ [][Next]_vars

(***************************************************************************)
(* Time passes, every call ends one way or the other, and as long as some  *)
(* caller is free requests keep coming: each command, device and content   *)
(* update writes its shadow.                                               *)
(***************************************************************************)
FairSpec ==
    /\ Spec
    /\ WF_vars(ResetTimeoutElapses)
    /\ \A c \in Callers : WF_vars(Succeed(c) \/ Fail(c))
    /\ WF_vars(\E c \in Callers : Admit(c) \/ AdmitProbe(c))

-----------------------------------------------------------------------------
(* Properties                                                              *)

TypeOK ==
    /\ state \in States
    /\ failures \in 0..FailureThreshold
    /\ resetDue \in BOOLEAN
    /\ probeInFlight \in BOOLEAN
    /\ call \in [Callers -> Calls]

\* A half-open breaker lets nobody else in, so it depends on the probe it let
\* in to come back: there is always one under way, or canExecute() would keep
\* the shadow database switched off for good.
HalfOpenHasProbe == state = "HALF_OPEN" => \E c \in Callers : Probing(c)

\* The circuit is closed exactly while consecutiveFailures is below the
\* threshold, also when calls let in under an older state report late: a
\* closed circuit has forgotten the failures that opened it, and no late
\* failure or success moves the count of an open one below the threshold.
ClosedIffBelowThreshold == state = "CLOSED" <=> failures < FailureThreshold

\* Once no call fails any more, because PostgreSQL stays up, the breaker
\* closes and stays closed, whatever calls of its bad time report late.
RecoversWithDatabase ==
    <>[][~ \E c \in Callers : Fail(c)]_vars => <>[](state = "CLOSED")

\* The comment in canExecute(): "HALF_OPEN: allow exactly one recovery probe
\* at a time."  A call from before the circuit opened that fails late reopens
\* it under the first probe, and the next reset lets a second one in.
OneProbeAtATime ==
    \A b, c \in Callers : Probing(b) /\ Probing(c) => b = c
=============================================================================
