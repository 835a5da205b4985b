--------------------------- MODULE CircuitBreaker ---------------------------
(***************************************************************************)
(* reliability/circuit_breaker.py: one CircuitBreaker object shared by     *)
(* concurrent asyncio callers.                                             *)
(*                                                                         *)
(* Every block under "async with self.lock" contains no await, so each is  *)
(* one atomic step.  The protected function runs outside the lock: any     *)
(* number of other calls may enter or finish while it runs, and the state  *)
(* its outcome is recorded in need not be the state it was admitted in.    *)
(*                                                                         *)
(* Data abstraction.  time.time() - last_failure_time is only ever         *)
(* compared with recovery_timeout, so the clock is the two-valued timer.   *)
(* The counters are only ever compared with a threshold by >=, so they     *)
(* saturate at that threshold (operator Bump), which loses no behaviour.   *)
(***************************************************************************)
EXTENDS Naturals

CONSTANTS
    Callers,                \* asyncio tasks that use the breaker
    failure_threshold,
    half_open_max_calls,
    Cancellable             \* may a running call be cancelled by its owner?

ASSUME BreakerAssumption ==
    /\ failure_threshold \in Nat \ {0}
    /\ half_open_max_calls \in Nat \ {0}
    /\ Cancellable \in BOOLEAN

VARIABLES
    state,              \* CLOSED, OPEN or HALF_OPEN
    failure_count,
    success_count,
    half_open_calls,
    timer,              \* "elapsed" once recovery_timeout has passed since
                        \* last_failure_time, "running" before
    pc,                 \* where each caller is in call()
    probes,             \* history: calls let through in this half-open episode
    streak              \* history: successes recorded since the last failure

breaker == <<state, failure_count, success_count, half_open_calls, timer>>
vars == <<state, failure_count, success_count, half_open_calls, timer, pc,
          probes, streak>>

CircuitState == {"closed", "open", "half_open"}

(* n + 1, for a counter that is only compared with cap by >=.              *)
Bump(n, cap) == IF n < cap THEN n + 1 ELSE n

TypeOK ==
    /\ state \in CircuitState
    /\ failure_count \in 0 .. failure_threshold
    /\ success_count \in 0 .. half_open_max_calls
    /\ half_open_calls \in 0 .. half_open_max_calls
    /\ timer \in {"running", "elapsed"}
    /\ pc \in [Callers -> {"idle", "running", "rejected"}]
    /\ probes \in Nat
    /\ streak \in 0 .. half_open_max_calls

(* __init__: closed, all counts zero, last_failure_time None.              *)
Init ==
    /\ state = "closed"
    /\ failure_count = 0
    /\ success_count = 0
    /\ half_open_calls = 0
    /\ timer = "running"
    /\ pc = [c \in Callers |-> "idle"]
    /\ probes = 0
    /\ streak = 0

-----------------------------------------------------------------------------
(* call(), the part under the lock                                         *)

Enter(c) == pc[c] # "running"

AdmitClosed(c) ==
    /\ Enter(c)
    /\ state = "closed"
    /\ pc' = [pc EXCEPT ![c] = "running"]
    /\ UNCHANGED <<state, failure_count, success_count, half_open_calls,
                   timer, probes, streak>>

(* The first call after the recovery timeout moves the breaker to          *)
(* half-open and goes through; half_open_calls does not count it.          *)
AdmitAfterTimeout(c) ==
    /\ Enter(c)
    /\ state = "open"
    /\ timer = "elapsed"
    /\ state' = "half_open"
    /\ half_open_calls' = 0
    /\ pc' = [pc EXCEPT ![c] = "running"]
    /\ probes' = 1
    /\ UNCHANGED <<failure_count, success_count, timer, streak>>

(* Faulty variant: > where the limit check has >=.                         *)
AdmitOneTooMany(c) ==
    /\ Enter(c)
    /\ state = "half_open"
    /\ half_open_calls <= half_open_max_calls
    /\ half_open_calls' = half_open_calls + 1
    /\ pc' = [pc EXCEPT ![c] = "running"]
    /\ probes' = probes + 1
    /\ UNCHANGED <<state, failure_count, success_count, timer, streak>>

(* Faulty variant: the last call of the budget is never let through.       *)
AdmitOneTooFew(c) ==
    /\ Enter(c)
    /\ state = "half_open"
    /\ half_open_calls + 1 < half_open_max_calls
    /\ half_open_calls' = half_open_calls + 1
    /\ pc' = [pc EXCEPT ![c] = "running"]
    /\ probes' = probes + 1
    /\ UNCHANGED <<state, failure_count, success_count, timer, streak>>

(* Faulty variant: the call goes through uncounted.                        *)
AdmitUncounted(c) ==
    /\ Enter(c)
    /\ state = "half_open"
    /\ half_open_calls < half_open_max_calls
    /\ pc' = [pc EXCEPT ![c] = "running"]
    /\ probes' = probes + 1
    /\ UNCHANGED <<state, failure_count, success_count, half_open_calls, timer, streak>>

AdmitHalfOpen(c) ==
    /\ Enter(c)
    /\ state = "half_open"
    /\ half_open_calls < half_open_max_calls
    /\ half_open_calls' = half_open_calls + 1
    /\ pc' = [pc EXCEPT ![c] = "running"]
    /\ probes' = probes + 1
    /\ UNCHANGED <<state, failure_count, success_count, timer, streak>>

(* CircuitBreakerOpenError, raised before anything is changed.             *)
Reject(c) ==
    /\ Enter(c)
    /\ \/ state = "open" /\ timer = "running"
       \/ state = "half_open" /\ half_open_calls >= half_open_max_calls
    /\ pc' = [pc EXCEPT ![c] = "rejected"]
    /\ UNCHANGED <<breaker, probes, streak>>

-----------------------------------------------------------------------------
(* The outcome of the protected function                                   *)

OnSuccess ==
    /\ failure_count' = 0
    /\ success_count' = Bump(success_count, half_open_max_calls)
    /\ streak' = Bump(streak, half_open_max_calls)
    /\ IF state = "half_open" /\ success_count' >= half_open_max_calls
       THEN /\ state' = "closed"
            /\ half_open_calls' = 0
       ELSE UNCHANGED <<state, half_open_calls>>
    /\ UNCHANGED <<timer, probes>>

(* Faulty variant: the success count survives a failure.                   *)
OnFailureKeepsSuccesses ==
    /\ failure_count' = Bump(failure_count, failure_threshold)
    /\ UNCHANGED success_count
    /\ streak' = 0
    /\ timer' = "running"
    /\ state' = IF state = "half_open" \/ failure_count' >= failure_threshold
                THEN "open" ELSE state
    /\ UNCHANGED <<half_open_calls, probes>>

OnFailure ==
    /\ failure_count' = Bump(failure_count, failure_threshold)
    /\ success_count' = 0
    /\ streak' = 0
    /\ timer' = "running"
    /\ state' = IF state = "half_open" \/ failure_count' >= failure_threshold
                THEN "open" ELSE state
    /\ UNCHANGED <<half_open_calls, probes>>

(* The function returned: _on_success runs and call() returns.             *)
Succeed(c) ==
    /\ pc[c] = "running"
    /\ OnSuccess
    /\ pc' = [pc EXCEPT ![c] = "idle"]

(* It raised expected_exception: _on_failure runs, the exception goes on.  *)
Fail(c) ==
    /\ pc[c] = "running"
    /\ OnFailure
    /\ pc' = [pc EXCEPT ![c] = "idle"]

(* asyncio.CancelledError is no Exception: neither handler runs.           *)
Abandon(c) ==
    /\ Cancellable
    /\ pc[c] = "running"
    /\ pc' = [pc EXCEPT ![c] = "idle"]
    /\ UNCHANGED <<breaker, probes, streak>>

(* reset(); last_failure_time is kept.                                     *)
Reset ==
    /\ failure_count' = 0
    /\ success_count' = 0
    /\ state' = "closed"
    /\ half_open_calls' = 0
    /\ UNCHANGED <<timer, pc, probes, streak>>

(* recovery_timeout seconds have passed since the last failure.            *)
TimeoutElapses ==
    /\ timer = "running"
    /\ timer' = "elapsed"
    /\ UNCHANGED <<state, failure_count, success_count, half_open_calls, pc,
                   probes, streak>>

Call(c) == AdmitClosed(c) \/ AdmitAfterTimeout(c) \/ AdmitHalfOpen(c) \/ Reject(c)

Return(c) == Succeed(c) \/ Fail(c)

Next ==
    \/ \E c \in Callers : Call(c) \/ Return(c) \/ Abandon(c)
    \/ Reset
    \/ TimeoutElapses

Spec == Init /\ [][Next]_vars

(* Time passes, callers keep calling, and a running call ends: every       *)
(* provider request carries a client timeout.  reset() is never required.  *)
Fairness ==
    /\ WF_vars(TimeoutElapses)
    /\ \A c \in Callers : WF_vars(Call(c)) /\ WF_vars(Return(c))

FairSpec == Spec /\ Fairness

-----------------------------------------------------------------------------
(* Correctness properties                                                  *)

(* A closed circuit has seen fewer than failure_threshold failures since   *)
(* the last success or reset, whatever state the failing calls were        *)
(* admitted in: _on_failure opens it on the failure that reaches the       *)
(* threshold, and nothing closes it with the count still at the threshold. *)
ClosedBelowThreshold == state = "closed" => failure_count < failure_threshold

(* In one half-open episode call() lets through at most one call more than *)
(* half_open_max_calls: the one that ends the OPEN state, which            *)
(* half_open_calls does not count, and the ones it counts.  (The           *)
(* constructor's documentation promises half_open_max_calls.)              *)
ProbesBounded == state = "half_open" => probes <= half_open_max_calls + 1

(* The two limits the breaker enforces with its counters, together.        *)
BreakerBounds == ClosedBelowThreshold /\ ProbesBounded

(* _on_success closes a half-open circuit (reset() apart) only when the    *)
(* last half_open_max_calls recorded outcomes were successes, even though  *)
(* calls admitted before the circuit opened report into the same counters. *)
RecoveryNeedsStreak ==
    [][(state = "half_open" /\ state' = "closed" /\ success_count' > 0)
         => streak' >= half_open_max_calls]_vars

Exhausted ==
    /\ half_open_calls = half_open_max_calls
    /\ \A c \in Callers : pc[c] # "running"

(* Half-open is a test that ends: call() admits enough calls for           *)
(* _on_success to close the circuit or _on_failure to reopen it.  The one  *)
(* way for it to go on for ever is a budget used up by calls that were     *)
(* cancelled, which report neither.                                        *)
HalfOpenResolves == (state = "half_open") ~> (state # "half_open" \/ Exhausted)
=============================================================================
