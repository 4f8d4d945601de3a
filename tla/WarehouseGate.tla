----------------------------- MODULE WarehouseGate -----------------------------
(***************************************************************************)
(* backend/warehouse_gate.py: admission control for SQL statements, together *)
(* with the code that runs statements under it.                             *)
(*                                                                          *)
(*   - a "gated" call is lineage_service._execute_sql / _execute_sql_long:    *)
(*     the whole poll loop runs inside `with warehouse_slot()`;              *)
(*   - a "breakerOnly" call is the _execute_sql of routes/dq.py and of       *)
(*     routes/capability_closures.py, which consult the breaker but take no   *)
(*     slot.                                                                *)
(*                                                                          *)
(* Each action is one critical section, or one wait, of the code: the        *)
(* semaphore, _stats_lock and the breaker's lock are taken one after the     *)
(* other, never together, so every thread can be preempted between them.    *)
(* The totals admitted, shed and total_wait_s are only ever added to and     *)
(* shown on a dashboard; they are left out.                                 *)
(***************************************************************************)
EXTENDS CircuitBreaker, FiniteSets

CONSTANTS
    Threads,      \* the worker threads that issue statements
    MaxSlots,     \* MAX_CONCURRENT_STATEMENTS
    MaxOrphans    \* bound: statements left running on the warehouse

ASSUME GateAssumption ==
    /\ IsFiniteSet(Threads)
    /\ MaxSlots \in Nat \ {0}
    /\ MaxOrphans \in Nat

VARIABLES
    pc,            \* where each thread is in its call
    kind,          \* which of the two call paths it is on
    outcome,       \* how its statement ended
    free,          \* the value of the semaphore _slots
    inFlight,      \* _stats["in_flight"]
    peakInFlight,  \* _stats["peak_in_flight"]
    orphans        \* statements the warehouse still runs though their caller left

gateVars == <<free, inFlight, peakInFlight>>
callVars == <<pc, kind, outcome>>
vars == <<state, failureCount, recovered, pc, kind, outcome,
          free, inFlight, peakInFlight, orphans>>

Kinds == {"gated", "breakerOnly"}          \* and "none" outside a call
Outcomes == {"succeeded", "failed", "raised", "deadline"}
Locations == {"idle", "waiting", "acquired", "executing",
              "exiting", "releasing", "recording"}

TypeOK ==
    /\ BreakerTypeOK
    /\ pc \in [Threads -> Locations]
    /\ kind \in [Threads -> Kinds \union {"none"}]
    /\ outcome \in [Threads -> Outcomes \union {"none"}]
    /\ free \in 0..MaxSlots
    /\ inFlight \in 0..MaxSlots
    /\ peakInFlight \in 0..MaxSlots
    /\ orphans \in 0..MaxOrphans

Init ==
    /\ BreakerInit
    /\ pc = [t \in Threads |-> "idle"]
    /\ kind = [t \in Threads |-> "none"]
    /\ outcome = [t \in Threads |-> "none"]
    /\ free = MaxSlots
    /\ inFlight = 0
    /\ peakInFlight = 0
    /\ orphans = 0

-----------------------------------------------------------------------------
Goto(t, from, to) == pc[t] = from /\ pc' = [pc EXCEPT ![t] = to]

\* The call is over, by return or by exception; its locals are gone.
Return(t, from) ==
    /\ Goto(t, from, "idle")
    /\ kind' = [kind EXCEPT ![t] = "none"]
    /\ outcome' = [outcome EXCEPT ![t] = "none"]

\* Mutants: acquire() that does not wait for a slot; acquire() without a timeout;
\* a shed that is reported as a failure; a gauge or a slot that is forgotten when
\* the statement did not succeed; a gauge that is not raised on entry.
AcquireUnbounded(t) ==
    /\ Goto(t, "waiting", "acquired")
    /\ free' = IF free > 0 THEN free - 1 ELSE 0
    /\ UNCHANGED <<breakerVars, kind, outcome, inFlight, peakInFlight, orphans>>
ShedNever(t) ==
    /\ pc[t] = "waiting" /\ free > MaxSlots
    /\ UNCHANGED vars
AdmitUncounted(t) ==
    /\ Goto(t, "acquired", "executing")
    /\ UNCHANGED <<breakerVars, kind, outcome, gateVars, orphans>>
ExitStatsOnSuccess(t) ==
    /\ Goto(t, "exiting", "releasing")
    /\ inFlight' = IF outcome[t] = "succeeded" THEN inFlight - 1 ELSE inFlight
    /\ UNCHANGED <<breakerVars, kind, outcome, free, peakInFlight, orphans>>
ReleaseOnSuccess(t) ==
    /\ Goto(t, "releasing", "recording")
    /\ free' = IF outcome[t] = "succeeded" THEN free + 1 ELSE free
    /\ UNCHANGED <<breakerVars, kind, outcome, inFlight, peakInFlight, orphans>>

\* A caller the breaker lets through.  A caller it rejects gets its 503 and
\* leaves no trace, so it is no action.
Call(t, k) ==
    /\ Goto(t, "idle", IF k = "gated" THEN "waiting" ELSE "executing")
    /\ kind' = [kind EXCEPT ![t] = k]
    /\ CheckPasses
    /\ UNCHANGED <<outcome, gateVars, orphans>>

\* _slots.acquire() succeeds.
Acquire(t) ==
    /\ Goto(t, "waiting", "acquired")
    /\ free > 0
    /\ free' = free - 1
    /\ UNCHANGED <<breakerVars, kind, outcome, inFlight, peakInFlight, orphans>>

\* _slots.acquire() times out: it reports failure only if no slot is free at
\* the deadline.  __enter__ raises WarehouseBusyError, so __exit__ never runs.
Shed(t) ==
    /\ Return(t, "waiting")
    /\ free = 0
    /\ UNCHANGED <<breakerVars, gateVars, orphans>>

\* The statistics at the end of __enter__.
Admit(t) ==
    /\ Goto(t, "acquired", "executing")
    /\ inFlight' = inFlight + 1
    /\ peakInFlight' = IF inFlight + 1 > peakInFlight THEN inFlight + 1 ELSE peakInFlight
    /\ UNCHANGED <<breakerVars, kind, outcome, free, orphans>>

\* The statement ends for its caller.  "succeeded" and "failed" are the
\* warehouse's terminal states.  "deadline" is the poll budget running out on a
\* PENDING or RUNNING statement, which nobody cancels.  "raised" is an exception
\* of the API, on the submit (nothing runs) or on a poll (the statement runs on).
Finish(t, o) ==
    /\ Goto(t, "executing", IF kind[t] = "gated" THEN "exiting" ELSE "recording")
    /\ outcome' = [outcome EXCEPT ![t] = o]
    /\ \/ o # "deadline" /\ UNCHANGED orphans
       \/ o \in {"deadline", "raised"} /\ orphans < MaxOrphans /\ orphans' = orphans + 1
    /\ UNCHANGED <<breakerVars, kind, gateVars>>

\* __exit__, first part: the gauge goes down before the slot is given back.
ExitStats(t) ==
    /\ Goto(t, "exiting", "releasing")
    /\ inFlight' = inFlight - 1
    /\ UNCHANGED <<breakerVars, kind, outcome, free, peakInFlight, orphans>>

\* __exit__, second part: _slots.release().
Release(t) ==
    /\ Goto(t, "releasing", "recording")
    /\ free' = free + 1
    /\ UNCHANGED <<breakerVars, kind, outcome, inFlight, peakInFlight, orphans>>

\* What the breaker is told.  The gated path looks at the statement's terminal
\* state only after the `with` block, so __exit__ sees no exception for a FAILED
\* statement; the breaker-only path looks at it first.
ReportedAsSuccess(t) ==
    \/ outcome[t] = "succeeded"
    \/ outcome[t] = "failed" /\ kind[t] = "gated"

\* __exit__, last part, or the record_* calls of the breaker-only path.
Record(t) ==
    /\ Return(t, "recording")
    /\ IF ReportedAsSuccess(t) THEN record_success ELSE record_failure
    /\ UNCHANGED <<gateVars, orphans>>

\* The warehouse (external) finishes a statement nobody waits for.
OrphanEnds ==
    /\ orphans > 0
    /\ orphans' = orphans - 1
    /\ UNCHANGED <<breakerVars, callVars, gateVars>>

RecoveryTimeout ==
    /\ Recover
    /\ UNCHANGED <<callVars, gateVars, orphans>>

\* What a thread inside a call does by itself.
Progress(t) ==
    \/ Acquire(t)
    \/ Shed(t)
    \/ Admit(t)
    \/ \E o \in Outcomes : Finish(t, o)
    \/ ExitStats(t)
    \/ Release(t)
    \/ Record(t)

Next ==
    \/ \E t \in Threads : (\E k \in Kinds : Call(t, k)) \/ Progress(t)
    \/ OrphanEnds
    \/ RecoveryTimeout

Spec == Init /\ [][Next]_vars

\* A thread inside a call is scheduled, acquire() has a timeout, and every poll
\* loop has a budget; time passes; and requests keep arriving.
Fairness ==
    /\ \A t \in Threads : WF_vars(Progress(t))
    /\ \A t \in Threads : WF_vars(\E k \in Kinds : Call(t, k))
    /\ WF_vars(RecoveryTimeout)

FairSpec == Spec /\ Fairness

-----------------------------------------------------------------------------
\* The threads between a successful acquire() and their release().
Holders == {t \in Threads : pc[t] \in {"acquired", "executing", "exiting", "releasing"}
                            /\ kind[t] = "gated"}

\* The threads the in_flight gauge counts.
Counted == {t \in Threads : pc[t] \in {"executing", "exiting"} /\ kind[t] = "gated"}

\* Every slot is either free or held by a thread that is going to release it,
\* whichever way its statement ends: an error, a failed statement or an
\* exhausted poll budget leaks no slot and returns none twice (__enter__ and
\* __exit__ of _Slot).
SlotsConserved == free + Cardinality(Holders) = MaxSlots

\* The in_flight gauge is the number of admitted statements, and neither it nor
\* the recorded peak ever exceeds the number of slots, although the gauge and the
\* semaphore are guarded by different locks (warehouse_gate.py:247-259).
GaugeExact ==
    /\ inFlight = Cardinality(Counted)
    /\ inFlight <= peakInFlight
    /\ peakInFlight <= MaxSlots

\* The breaker is closed exactly while fewer than failure_threshold failures have
\* been recorded since the last success.  In particular a HALF_OPEN breaker still
\* carries a full count, so that one failed probe re-opens it at once.
BreakerConsistent == (state = "CLOSED") <=> (failureCount < FailureThreshold)

\* A call is shed only while every slot is held by a statement of another thread:
\* a WarehouseBusyError is never the echo of a leaked slot.
ShedOnlyWhenFull ==
    [][\A t \in Threads : pc[t] = "waiting" /\ pc'[t] = "idle"
          => Cardinality(Holders \ {t}) = MaxSlots]_vars

\* Every call returns: it is admitted or shed, its statement ends or runs out of
\* budget, and the slot comes back.
CallsReturn == \A t \in Threads : pc[t] # "idle" ~> pc[t] = "idle"

\* The outage ends by itself: if from some moment on no statement fails any more,
\* the breaker does not stay open (nor half-open) however many calls it rejected
\* and however late the last failures were recorded.
RecoversWhenHealthy ==
    <>[][\A t \in Threads : pc[t] = "executing" /\ pc'[t] # "executing"
            => outcome'[t] = "succeeded"]_vars
      => <>[](state = "CLOSED")

\* The gate implements the abstract admission control: its holders are the
\* abstract spec's running callers, whatever the interleaving of semaphore,
\* gauge and breaker.
Admission == INSTANCE AdmissionControl WITH running <- Holders
ImplementsAdmission == Admission!Spec
=============================================================================
