----------------------------- MODULE CircuitBreaker -----------------------------
(***************************************************************************)
(* backend/circuit_breaker.py: the process-wide breaker of the SQL          *)
(* warehouse.  Every method body runs under CircuitBreaker._lock, so each   *)
(* operator below is one atomic step.                                       *)
(*                                                                          *)
(* Two abstractions of data.  _failure_count is only ever compared with     *)
(* failure_threshold, so it saturates there.  _last_failure_time is only    *)
(* ever asked whether recovery_timeout seconds have passed since, so it is  *)
(* the Boolean recovered, which record_failure clears and time sets.        *)
(***************************************************************************)
EXTENDS Naturals

CONSTANT FailureThreshold

ASSUME ThresholdAssumption == FailureThreshold \in Nat \ {0}

VARIABLES
    state,         \* _state
    failureCount,  \* _failure_count, saturating at FailureThreshold
    recovered      \* time.time() - _last_failure_time >= recovery_timeout

breakerVars == <<state, failureCount, recovered>>

CircuitState == {"CLOSED", "OPEN", "HALF_OPEN"}

BreakerTypeOK ==
    /\ state \in CircuitState
    /\ failureCount \in 0..FailureThreshold
    /\ recovered \in BOOLEAN

\* _last_failure_time starts at 0.0, long before now.
BreakerInit ==
    /\ state = "CLOSED"
    /\ failureCount = 0
    /\ recovered = TRUE

\* Mutants: the window never ends; a success that closes without clearing.
NeverHalfOpen == state
SuccessKeepsCount ==
    /\ state' = "CLOSED"
    /\ UNCHANGED <<failureCount, recovered>>

\* The value the state property returns (and stores): an OPEN circuit whose
\* recovery window has elapsed reads as HALF_OPEN.
CurrentState == IF state = "OPEN" /\ recovered THEN "HALF_OPEN" ELSE state

\* check() lets the caller through: reads state, and does not raise.
CheckPasses ==
    /\ CurrentState # "OPEN"
    /\ state' = CurrentState
    /\ UNCHANGED <<failureCount, recovered>>

record_success ==
    /\ failureCount' = 0
    /\ state' = "CLOSED"
    /\ UNCHANGED recovered

record_failure ==
    /\ failureCount' = IF failureCount = FailureThreshold
                       THEN FailureThreshold ELSE failureCount + 1
    /\ recovered' = FALSE
    /\ state' = IF failureCount' >= FailureThreshold THEN "OPEN" ELSE state

\* recovery_timeout seconds pass with no further failure recorded.
Recover ==
    /\ ~recovered
    /\ recovered' = TRUE
    /\ UNCHANGED <<state, failureCount>>
=============================================================================
