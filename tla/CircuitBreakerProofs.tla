------------------------ MODULE CircuitBreakerProofs ------------------------
(***************************************************************************)
(* Proofs about CircuitBreaker for every set of callers and every          *)
(* threshold.                                                              *)
(***************************************************************************)
EXTENDS CircuitBreaker, TLAPS

\* The flag halfOpenProbeInFlight is up exactly while the circuit is half
\* open: entering the state raises it and both ways out lower it.
FlagIffHalfOpen == probeInFlight <=> state = "HALF_OPEN"

\* HalfOpenHasProbe is inductive only with the flag: without it canExecute()
\* could admit probes into a half-open circuit.  The call a report ends may
\* be the last probe, but every report leaves the half-open state.
IInv ==
    /\ TypeOK
    /\ FlagIffHalfOpen
    /\ HalfOpenHasProbe
    /\ ClosedIffBelowThreshold

\* Counting a failure stays within the cap and reaches the threshold exactly
\* when the code's unbounded counter does.
LEMMA CountedProperties ==
    ASSUME NEW n \in 0..FailureThreshold
    PROVE  /\ Counted(n + 1) \in 0..FailureThreshold
           /\ Counted(n + 1) >= FailureThreshold <=> n + 1 >= FailureThreshold
BY ThresholdAssumption DEF Counted

LEMMA InitInvariant == Init => IInv
<1> SUFFICES ASSUME Init PROVE IInv
  OBVIOUS
<1>1. TypeOK
  <2>1. failures \in 0..FailureThreshold
    BY ThresholdAssumption DEF Init
  <2>2. call \in [Callers -> Calls]
    BY DEF Init, Calls
  <2> QED
    BY <2>1, <2>2 DEF Init, TypeOK, States
<1>2. FlagIffHalfOpen /\ HalfOpenHasProbe
  BY DEF Init, FlagIffHalfOpen, HalfOpenHasProbe
<1>3. ClosedIffBelowThreshold
  BY ThresholdAssumption DEF Init, ClosedIffBelowThreshold
<1> QED
  BY <1>1, <1>2, <1>3 DEF IInv

LEMMA AdmitInvariant ==
    ASSUME IInv, NEW c \in Callers, Admit(c)
    PROVE  IInv'
<1>1. TypeOK'
  BY DEF IInv, TypeOK, Admit, Calls
<1>2. state = "CLOSED" /\ state' = "CLOSED"
  BY DEF Admit
<1>3. FlagIffHalfOpen' /\ HalfOpenHasProbe' /\ ClosedIffBelowThreshold'
  BY <1>2 DEF IInv, FlagIffHalfOpen, HalfOpenHasProbe,
              ClosedIffBelowThreshold, Admit
<1> QED
  BY <1>1, <1>3 DEF IInv

LEMMA AdmitProbeInvariant ==
    ASSUME IInv, NEW c \in Callers, AdmitProbe(c)
    PROVE  IInv'
<1>1. TypeOK'
  BY DEF IInv, TypeOK, AdmitProbe, States, Calls
<1>2. state \in {"OPEN", "HALF_OPEN"}
  BY DEF AdmitProbe, ProbeWanted
<1>3. FlagIffHalfOpen' /\ ClosedIffBelowThreshold'
  BY <1>2 DEF IInv, FlagIffHalfOpen, ClosedIffBelowThreshold, AdmitProbe
<1>4. Probing(c)'
  BY DEF IInv, TypeOK, AdmitProbe, Probing
<1>5. HalfOpenHasProbe'
  BY <1>4 DEF HalfOpenHasProbe
<1> QED
  BY <1>1, <1>3, <1>5 DEF IInv

LEMMA SucceedInvariant ==
    ASSUME IInv, NEW c \in Callers, Succeed(c)
    PROVE  IInv'
<1>1. TypeOK'
  BY ThresholdAssumption
     DEF IInv, TypeOK, Succeed, RecordSuccess, States, Calls
<1>2. state' # "HALF_OPEN"
  BY DEF Succeed, RecordSuccess
<1>3. FlagIffHalfOpen'
  BY <1>2 DEF IInv, FlagIffHalfOpen, Succeed, RecordSuccess
<1>4. HalfOpenHasProbe'
  BY <1>2 DEF HalfOpenHasProbe
<1>5. ClosedIffBelowThreshold'
  BY ThresholdAssumption
     DEF IInv, TypeOK, States, ClosedIffBelowThreshold, Succeed, RecordSuccess
<1> QED
  BY <1>1, <1>3, <1>4, <1>5 DEF IInv

LEMMA FailInvariant ==
    ASSUME IInv, NEW c \in Callers, Fail(c)
    PROVE  IInv'
<1>1. call' \in [Callers -> Calls]
  BY DEF IInv, TypeOK, Fail, Calls
<1>2. CASE ProbeFails
  <2>1. TypeOK'
    BY <1>1, <1>2 DEF IInv, TypeOK, ProbeFails, States
  <2>2. FlagIffHalfOpen' /\ HalfOpenHasProbe' /\ ClosedIffBelowThreshold'
    BY <1>2 DEF IInv, FlagIffHalfOpen, HalfOpenHasProbe,
                ClosedIffBelowThreshold, ProbeFails
  <2> QED
    BY <2>1, <2>2 DEF IInv
<1>3. CASE FailureCounts
  <2>1. /\ failures' \in 0..FailureThreshold
        /\ failures' >= FailureThreshold <=> failures + 1 >= FailureThreshold
    BY <1>3, CountedProperties DEF IInv, TypeOK, FailureCounts
  <2>2. TypeOK'
    BY <1>1, <1>3, <2>1 DEF IInv, TypeOK, FailureCounts, States
  <2>3. state' # "HALF_OPEN"
    BY <1>3 DEF FailureCounts
  <2>4. FlagIffHalfOpen' /\ HalfOpenHasProbe'
    BY <1>3, <2>3 DEF IInv, FlagIffHalfOpen, HalfOpenHasProbe, FailureCounts
  <2>5. ClosedIffBelowThreshold'
    BY <1>3, <2>1, ThresholdAssumption
       DEF IInv, TypeOK, States, ClosedIffBelowThreshold, FailureCounts
  <2> QED
    BY <2>2, <2>4, <2>5 DEF IInv
<1> QED
  BY <1>2, <1>3 DEF Fail

LEMMA NextInvariant == IInv /\ [Next]_vars => IInv'
<1> SUFFICES ASSUME IInv, [Next]_vars PROVE IInv'
  OBVIOUS
<1>1. ASSUME NEW c \in Callers,
             Admit(c) \/ AdmitProbe(c) \/ Succeed(c) \/ Fail(c)
      PROVE  IInv'
  BY <1>1, AdmitInvariant, AdmitProbeInvariant, SucceedInvariant, FailInvariant
<1>2. CASE ResetTimeoutElapses
  BY <1>2 DEF IInv, TypeOK, FlagIffHalfOpen, HalfOpenHasProbe, Probing,
              ClosedIffBelowThreshold, ResetTimeoutElapses
<1>3. CASE UNCHANGED vars
  BY <1>3 DEF IInv, TypeOK, FlagIffHalfOpen, HalfOpenHasProbe, Probing,
              ClosedIffBelowThreshold, vars
<1> QED
  BY <1>1, <1>2, <1>3 DEF Next

LEMMA Invariant == Spec => []IInv
BY InitInvariant, NextInvariant, PTL DEF Spec

-----------------------------------------------------------------------------

\* The variables keep their types; the count never passes the threshold.
THEOREM TypeCorrect == Spec => []TypeOK
<1>1. IInv => TypeOK
  BY DEF IInv
<1> QED
  BY <1>1, Invariant, PTL

\* A half-open breaker always has a probe under way that can end that state.
THEOREM ProbeAlwaysUnderWay == Spec => []HalfOpenHasProbe
<1>1. IInv => HalfOpenHasProbe
  BY DEF IInv
<1> QED
  BY <1>1, Invariant, PTL

\* The breaker is closed exactly while it counts fewer failures than the
\* threshold, whatever calls report late.
THEOREM ClosedBelowThreshold == Spec => []ClosedIffBelowThreshold
<1>1. IInv => ClosedIffBelowThreshold
  BY DEF IInv
<1> QED
  BY <1>1, Invariant, PTL

\* The last branch of canExecute(), which raises the flag of a circuit found
\* half open without a probe, never runs: only a reset timeout wants a probe.
THEOREM ProbesOnlyAfterReset == Spec => [](ProbeWanted => state = "OPEN")
<1>1. IInv => (ProbeWanted => state = "OPEN")
  BY DEF IInv, FlagIffHalfOpen, ProbeWanted
<1> QED
  BY <1>1, Invariant, PTL
=============================================================================
