------------------------ MODULE CircuitBreakerProofs ------------------------
(***************************************************************************)
(* Proofs about CircuitBreaker for every set of callers, every threshold   *)
(* and every half-open limit, with or without cancelled calls.             *)
(***************************************************************************)
EXTENDS CircuitBreaker, TLAPS

(* Every step of the specification preserves the types: no counter passes  *)
(* the threshold it is compared with, and half_open_calls never passes     *)
(* half_open_max_calls although the test and the increment of call() are   *)
(* interleaved with the returns of other calls.                            *)
THEOREM TypeCorrect == Spec => []TypeOK
<1> USE BreakerAssumption
<1>1. Init => TypeOK
  BY DEF Init, TypeOK, CircuitState
<1>2. TypeOK /\ [Next]_vars => TypeOK'
  <2> SUFFICES ASSUME TypeOK, [Next]_vars
               PROVE  TypeOK'
    OBVIOUS
  <2> USE DEF TypeOK, CircuitState
  <2>1. ASSUME NEW c \in Callers, AdmitClosed(c)
        PROVE  TypeOK'
    BY <2>1 DEF AdmitClosed
  <2>2. ASSUME NEW c \in Callers, AdmitAfterTimeout(c)
        PROVE  TypeOK'
    BY <2>2 DEF AdmitAfterTimeout
  <2>3. ASSUME NEW c \in Callers, AdmitHalfOpen(c)
        PROVE  TypeOK'
    BY <2>3 DEF AdmitHalfOpen
  <2>4. ASSUME NEW c \in Callers, Reject(c)
        PROVE  TypeOK'
    BY <2>4 DEF Reject, breaker
  <2>5. ASSUME NEW c \in Callers, Succeed(c)
        PROVE  TypeOK'
    BY <2>5 DEF Succeed, OnSuccess, Bump
  <2>6. ASSUME NEW c \in Callers, Fail(c)
        PROVE  TypeOK'
    BY <2>6 DEF Fail, OnFailure, Bump
  <2>7. ASSUME NEW c \in Callers, Abandon(c)
        PROVE  TypeOK'
    BY <2>7 DEF Abandon, breaker
  <2>8. CASE Reset
    BY <2>8 DEF Reset
  <2>9. CASE TimeoutElapses
    BY <2>9 DEF TimeoutElapses
  <2>10. CASE UNCHANGED vars
    BY <2>10 DEF vars
  <2> QED
    BY <2>1, <2>2, <2>3, <2>4, <2>5, <2>6, <2>7, <2>8, <2>9, <2>10
       DEF Next, Call, Return
<1> QED
  BY <1>1, <1>2, PTL DEF Spec

-----------------------------------------------------------------------------
(* In a half-open episode the calls let through are the counted ones and   *)
(* the one that ended the OPEN state.                                      *)
ProbesCounted == state = "half_open" => probes = half_open_calls + 1

(* success_count never runs ahead of the successes since the last failure. *)
StreakCovers == success_count <= streak

(* The inductive invariant.                                                *)
Inv == ClosedBelowThreshold /\ ProbesCounted /\ StreakCovers

(* What one step does to Inv, action by action.                            *)
LEMMA StepPreservesInv ==
  ASSUME TypeOK, Inv, [Next]_vars
  PROVE  Inv'
<1> USE BreakerAssumption
        DEF TypeOK, CircuitState, Inv, ClosedBelowThreshold, ProbesCounted,
            StreakCovers
<1>1. ASSUME NEW c \in Callers, AdmitClosed(c)
      PROVE  Inv'
  BY <1>1 DEF AdmitClosed
<1>2. ASSUME NEW c \in Callers, AdmitAfterTimeout(c)
      PROVE  Inv'
  BY <1>2 DEF AdmitAfterTimeout
<1>3. ASSUME NEW c \in Callers, AdmitHalfOpen(c)
      PROVE  Inv'
  BY <1>3 DEF AdmitHalfOpen
<1>4. ASSUME NEW c \in Callers, Reject(c)
      PROVE  Inv'
  BY <1>4 DEF Reject, breaker
<1>5. ASSUME NEW c \in Callers, Succeed(c)
      PROVE  Inv'
  BY <1>5 DEF Succeed, OnSuccess, Bump
<1>6. ASSUME NEW c \in Callers, Fail(c)
      PROVE  Inv'
  BY <1>6 DEF Fail, OnFailure, Bump
<1>7. ASSUME NEW c \in Callers, Abandon(c)
      PROVE  Inv'
  BY <1>7 DEF Abandon, breaker
<1>8. CASE Reset
  BY <1>8 DEF Reset
<1>9. CASE TimeoutElapses
  BY <1>9 DEF TimeoutElapses
<1>10. CASE UNCHANGED vars
  BY <1>10 DEF vars
<1> QED
  BY <1>1, <1>2, <1>3, <1>4, <1>5, <1>6, <1>7, <1>8, <1>9, <1>10
     DEF Next, Call, Return

(* Inv holds in every reachable state.                                     *)
THEOREM Invariance == Spec => []Inv
<1>1. Init => Inv
  BY BreakerAssumption
     DEF Init, Inv, ClosedBelowThreshold, ProbesCounted, StreakCovers
<1>2. TypeOK /\ Inv /\ [Next]_vars => Inv'
  BY StepPreservesInv
<1> QED
  BY <1>1, <1>2, TypeCorrect, PTL DEF Spec

(* A closed circuit is always below its failure threshold.                 *)
THEOREM ClosedIsBelowThreshold == Spec => []ClosedBelowThreshold
<1>1. Inv => ClosedBelowThreshold
  BY DEF Inv
<1> QED
  BY <1>1, Invariance, PTL

(* No half-open episode lets through more than half_open_max_calls + 1     *)
(* calls, for every number of callers.                                     *)
THEOREM ProbesAreBounded == Spec => []ProbesBounded
<1>1. TypeOK /\ Inv => ProbesBounded
  BY BreakerAssumption DEF TypeOK, Inv, ProbesCounted, ProbesBounded
<1> QED
  BY <1>1, TypeCorrect, Invariance, PTL

(* The two limits of the breaker's counters together: closed means below   *)
(* the failure threshold, half-open lets through half_open_max_calls + 1.  *)
THEOREM BoundsHold == Spec => []BreakerBounds
<1>1. ClosedBelowThreshold /\ ProbesBounded => BreakerBounds
  BY DEF BreakerBounds
<1> QED
  BY <1>1, ClosedIsBelowThreshold, ProbesAreBounded, PTL

(* The circuit recovers only on an unbroken run of successes.              *)
THEOREM RecoveryIsEarned == Spec => RecoveryNeedsStreak
<1> DEFINE Earned == (state = "half_open" /\ state' = "closed" /\ success_count' > 0)
                       => streak' >= half_open_max_calls
<1>1. ASSUME TypeOK, Inv, Next
      PROVE  Earned
  <2> USE BreakerAssumption DEF TypeOK, CircuitState, Inv, StreakCovers
  <2>1. ASSUME NEW c \in Callers, Call(c) \/ Abandon(c)
        PROVE  Earned
    BY <1>1, <2>1 DEF Call, AdmitClosed, AdmitAfterTimeout, AdmitHalfOpen, Reject,
                Abandon, breaker
  <2>2. ASSUME NEW c \in Callers, Return(c)
        PROVE  Earned
    <3>1. CASE Succeed(c)
      BY <1>1, <3>1 DEF Succeed, OnSuccess, Bump
    <3>2. CASE Fail(c)
      BY <1>1, <3>2 DEF Fail, OnFailure
    <3> QED
      BY <2>2, <3>1, <3>2 DEF Return
  <2>3. CASE Reset \/ TimeoutElapses
    BY <1>1, <2>3 DEF Reset, TimeoutElapses
  <2> QED
    BY <1>1, <2>1, <2>2, <2>3 DEF Next
<1>2. TypeOK /\ Inv /\ [Next]_vars => [Earned]_vars
  BY <1>1
<1> QED
  BY <1>2, TypeCorrect, Invariance, PTL DEF Spec, RecoveryNeedsStreak
=============================================================================
