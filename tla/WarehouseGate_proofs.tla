------------------------- MODULE WarehouseGate_proofs -------------------------
(***************************************************************************)
(* For every set of threads, number of slots and failure threshold: the      *)
(* gate's type invariant, slot conservation, the exactness of its gauge, the  *)
(* consistency of the breaker, and the refinement of AdmissionControl.       *)
(***************************************************************************)
EXTENDS WarehouseGate, FiniteSetTheorems, TLAPS

\* Only a gated call is ever between acquire() and release(), and a thread
\* outside a call has no call path.
KindOK ==
    \A t \in Threads :
        pc[t] \in {"waiting", "acquired", "exiting", "releasing"} => kind[t] = "gated"

\* The variables' types without the bounds that only hold because of the slot
\* accounting.
TypeWeak ==
    /\ BreakerTypeOK
    /\ pc \in [Threads -> Locations]
    /\ kind \in [Threads -> Kinds \union {"none"}]
    /\ outcome \in [Threads -> Outcomes \union {"none"}]
    /\ free \in Nat
    /\ inFlight \in Nat
    /\ peakInFlight \in Nat
    /\ orphans \in 0..MaxOrphans

\* The inductive invariant.
IInv ==
    /\ TypeWeak
    /\ KindOK
    /\ SlotsConserved
    /\ GaugeExact
    /\ BreakerConsistent

-----------------------------------------------------------------------------
\* The holders and the counted threads are finite sets, and every counted thread
\* is a holder: the gauge cannot run ahead of the semaphore.
LEMMA HoldersFinite ==
    /\ IsFiniteSet(Holders) /\ Cardinality(Holders) \in Nat
    /\ IsFiniteSet(Counted) /\ Cardinality(Counted) \in Nat
    /\ Cardinality(Counted) <= Cardinality(Holders)
<1>1. Holders \subseteq Threads /\ Counted \subseteq Holders
  BY DEF Holders, Counted
<1>2. IsFiniteSet(Holders)
  BY <1>1, GateAssumption, FS_Subset
<1> QED
  BY <1>1, <1>2, FS_Subset, FS_CardinalityType

\* The invariant bounds the three counters, which gives the full type invariant.
LEMMA IInvImpliesTypeOK == IInv => TypeOK
BY HoldersFinite, GateAssumption
   DEF IInv, TypeWeak, TypeOK, SlotsConserved, GaugeExact

LEMMA InitIInv == Init => IInv
<1> SUFFICES ASSUME Init PROVE IInv
  OBVIOUS
<1>1. TypeWeak /\ KindOK /\ BreakerConsistent
  BY ThresholdAssumption, GateAssumption
     DEF Init, BreakerInit, TypeWeak, KindOK, BreakerConsistent, BreakerTypeOK,
         CircuitState, Locations, Kinds, Outcomes
<1>2. Holders = {} /\ Counted = {}
  BY DEF Init, Holders, Counted
<1> QED
  BY <1>1, <1>2, FS_EmptySet, GateAssumption DEF Init, IInv, SlotsConserved, GaugeExact

-----------------------------------------------------------------------------
\* A success, a failure, a passed check and the end of the recovery window all
\* keep the breaker's type and the link between its state and its count.
LEMMA BreakerStep ==
    ASSUME BreakerTypeOK, BreakerConsistent,
           record_success \/ record_failure \/ CheckPasses \/ Recover \/ UNCHANGED breakerVars
    PROVE  BreakerTypeOK' /\ BreakerConsistent'
<1> USE ThresholdAssumption DEF BreakerTypeOK, BreakerConsistent, CircuitState
<1>1. CASE record_success
  BY <1>1 DEF record_success
<1>2. CASE record_failure
  <2>1. failureCount \in 0..FailureThreshold /\ failureCount' \in 0..FailureThreshold
    BY <1>2 DEF record_failure
  <2>2. failureCount' < FailureThreshold => failureCount < FailureThreshold
    BY <1>2, <2>1 DEF record_failure
  <2>3. failureCount' >= FailureThreshold <=> ~(failureCount' < FailureThreshold)
    BY <2>1
  <2>4. recovered' \in BOOLEAN /\ state' = IF failureCount' >= FailureThreshold
                                          THEN "OPEN" ELSE state
    BY <1>2 DEF record_failure
  <2> QED
    BY <2>1, <2>2, <2>3, <2>4, Zenon
<1>3. CASE CheckPasses
  BY <1>3 DEF CheckPasses, CurrentState
<1>4. CASE Recover
  BY <1>4 DEF Recover
<1>5. CASE UNCHANGED breakerVars
  BY <1>5 DEF breakerVars
<1> QED
  BY <1>1, <1>2, <1>3, <1>4, <1>5

\* Every step of the gate is one of those steps of the breaker.
LEMMA NextBreakerStep ==
    ASSUME TypeWeak, Next
    PROVE  record_success \/ record_failure \/ CheckPasses \/ Recover \/ UNCHANGED breakerVars
BY DEF Next, Progress, Call, Acquire, Shed, Admit, Finish, ExitStats, Release, Record,
       OrphanEnds, RecoveryTimeout, breakerVars

\* Every step keeps the types and the call paths, given that the counters have
\* room: a slot is released only by a holder.
LEMMA TypeStep ==
    ASSUME IInv, Next
    PROVE  /\ pc' \in [Threads -> Locations]
           /\ kind' \in [Threads -> Kinds \union {"none"}]
           /\ outcome' \in [Threads -> Outcomes \union {"none"}]
           /\ orphans' \in 0..MaxOrphans
           /\ KindOK'
<1> USE GateAssumption DEF IInv, TypeWeak, KindOK, Locations, Kinds, Outcomes, Goto, Return
<1>1. ASSUME NEW t \in Threads, NEW k \in Kinds, Call(t, k)
      PROVE  /\ pc' \in [Threads -> Locations] /\ kind' \in [Threads -> Kinds \union {"none"}]
             /\ UNCHANGED <<outcome, orphans>> /\ KindOK'
  BY <1>1 DEF Call
<1>2. ASSUME NEW t \in Threads, Acquire(t) \/ Admit(t) \/ ExitStats(t) \/ Release(t)
      PROVE  /\ pc' \in [Threads -> Locations]
             /\ UNCHANGED <<kind, outcome, orphans>> /\ KindOK'
  BY <1>2 DEF Acquire, Admit, ExitStats, Release
<1>3. ASSUME NEW t \in Threads, Shed(t) \/ Record(t)
      PROVE  /\ pc' \in [Threads -> Locations] /\ kind' \in [Threads -> Kinds \union {"none"}]
             /\ outcome' \in [Threads -> Outcomes \union {"none"}]
             /\ UNCHANGED orphans /\ KindOK'
  BY <1>3 DEF Shed, Record
<1>4. ASSUME NEW t \in Threads, NEW o \in Outcomes, Finish(t, o)
      PROVE  /\ pc' \in [Threads -> Locations]
             /\ outcome' \in [Threads -> Outcomes \union {"none"}]
             /\ orphans' \in 0..MaxOrphans /\ UNCHANGED kind /\ KindOK'
  BY <1>4 DEF Finish
<1>5. ASSUME OrphanEnds
      PROVE  orphans' \in 0..MaxOrphans /\ UNCHANGED <<pc, kind, outcome>>
  BY <1>5 DEF OrphanEnds, callVars
<1>6. ASSUME RecoveryTimeout
      PROVE  UNCHANGED <<pc, kind, outcome, orphans>>
  BY <1>6 DEF RecoveryTimeout, callVars
<1> QED
  BY <1>1, <1>2, <1>3, <1>4, <1>5, <1>6 DEF Next, Progress

-----------------------------------------------------------------------------
\* The slot accounting: one step per kind of step that moves a thread into or out
\* of the holders or the counted threads.
LEMMA SlotStep ==
    ASSUME IInv, Next
    PROVE  /\ free' \in Nat /\ inFlight' \in Nat /\ peakInFlight' \in Nat
           /\ SlotsConserved' /\ GaugeExact'
<1> DEFINE Goal == /\ free' \in Nat /\ inFlight' \in Nat /\ peakInFlight' \in Nat
                   /\ SlotsConserved' /\ GaugeExact'
<1>0. /\ free \in Nat /\ inFlight \in Nat /\ peakInFlight \in Nat /\ MaxSlots \in Nat
      /\ free + Cardinality(Holders) = MaxSlots
      /\ inFlight = Cardinality(Counted)
      /\ inFlight <= peakInFlight /\ peakInFlight <= MaxSlots
  BY GateAssumption DEF IInv, TypeWeak, SlotsConserved, GaugeExact
<1>a. ASSUME UNCHANGED gateVars, Holders' = Holders, Counted' = Counted
      PROVE  Goal
  BY <1>0, <1>a DEF gateVars, SlotsConserved, GaugeExact
<1>1. ASSUME NEW t \in Threads, Acquire(t)
      PROVE  Goal
  <2>1. t \notin Holders /\ Holders' = Holders \union {t} /\ Counted' = Counted
    BY <1>1 DEF Acquire, Goto, IInv, TypeWeak, KindOK, Holders, Counted
  <2>2. Cardinality(Holders') = Cardinality(Holders) + 1
    BY <2>1, HoldersFinite, FS_AddElement
  <2> QED
    BY <1>0, <1>1, <2>1, <2>2, HoldersFinite DEF Acquire, SlotsConserved, GaugeExact
<1>2. ASSUME NEW t \in Threads, Admit(t)
      PROVE  Goal
  <2>1. t \notin Counted /\ Counted' = Counted \union {t} /\ Holders' = Holders /\ t \in Holders
    BY <1>2 DEF Admit, Goto, IInv, TypeWeak, KindOK, Holders, Counted
  <2>2. Cardinality(Counted') = Cardinality(Counted) + 1
    BY <2>1, HoldersFinite, FS_AddElement
  <2>3. Counted \union {t} \in SUBSET Holders
    BY <2>1 DEF Counted, Holders
  <2>4. Cardinality(Counted') <= Cardinality(Holders)
    BY <2>1, <2>3, HoldersFinite, FS_Subset
  <2> QED
    BY <1>0, <1>2, <2>1, <2>2, <2>4, HoldersFinite DEF Admit, SlotsConserved, GaugeExact
<1>3. ASSUME NEW t \in Threads, ExitStats(t)
      PROVE  Goal
  <2>1. t \in Counted /\ Counted' = Counted \ {t} /\ Holders' = Holders
    BY <1>3 DEF ExitStats, Goto, IInv, TypeWeak, KindOK, Holders, Counted
  <2>2. Cardinality(Counted') = Cardinality(Counted) - 1 /\ Cardinality(Counted') \in Nat
    BY <2>1, HoldersFinite, FS_RemoveElement, FS_CardinalityType
  <2> QED
    BY <1>0, <1>3, <2>1, <2>2, HoldersFinite DEF ExitStats, SlotsConserved, GaugeExact
<1>4. ASSUME NEW t \in Threads, Release(t)
      PROVE  Goal
  <2>1. t \in Holders /\ Holders' = Holders \ {t} /\ Counted' = Counted
    BY <1>4 DEF Release, Goto, IInv, TypeWeak, KindOK, Holders, Counted
  <2>2. Cardinality(Holders') = Cardinality(Holders) - 1 /\ Cardinality(Holders') \in Nat
    BY <2>1, HoldersFinite, FS_RemoveElement, FS_CardinalityType
  <2> QED
    BY <1>0, <1>4, <2>1, <2>2, HoldersFinite DEF Release, SlotsConserved, GaugeExact
<1>5. ASSUME NEW t \in Threads, NEW k \in Kinds, Call(t, k)
      PROVE  Goal
  <2>1. Holders' = Holders /\ Counted' = Counted /\ UNCHANGED gateVars
    BY <1>5 DEF Call, Goto, IInv, TypeWeak, Kinds, Holders, Counted, gateVars
  <2> QED
    BY <1>a, <2>1
<1>6. ASSUME NEW t \in Threads, Shed(t) \/ Record(t)
      PROVE  Goal
  <2>1. Holders' = Holders /\ Counted' = Counted /\ UNCHANGED gateVars
    BY <1>6 DEF Shed, Record, Return, Goto, IInv, TypeWeak, Holders, Counted, gateVars
  <2> QED
    BY <1>a, <2>1
<1>7. ASSUME NEW t \in Threads, NEW o \in Outcomes, Finish(t, o)
      PROVE  Goal
  <2>1. Holders' = Holders /\ Counted' = Counted /\ UNCHANGED gateVars
    BY <1>7 DEF Finish, Goto, IInv, TypeWeak, Holders, Counted, gateVars
  <2> QED
    BY <1>a, <2>1
<1>8. ASSUME OrphanEnds \/ RecoveryTimeout
      PROVE  Goal
  <2>1. Holders' = Holders /\ Counted' = Counted /\ UNCHANGED gateVars
    BY <1>8 DEF OrphanEnds, RecoveryTimeout, Holders, Counted, callVars, gateVars
  <2> QED
    BY <1>a, <2>1
<1> QED
  BY <1>1, <1>2, <1>3, <1>4, <1>5, <1>6, <1>7, <1>8 DEF Next, Progress

\* A step that changes nothing changes none of the invariant's parts.
LEMMA StutterIInv == IInv /\ UNCHANGED vars => IInv'
BY DEF IInv, TypeWeak, KindOK, SlotsConserved, GaugeExact, BreakerConsistent,
       BreakerTypeOK, Holders, Counted, vars

\* The inductive invariant holds in every reachable state.
THEOREM InductiveInvariant == Spec => []IInv
<1>1. IInv /\ Next => IInv'
  <2> SUFFICES ASSUME IInv, Next PROVE IInv'
    OBVIOUS
  <2>1. BreakerTypeOK' /\ BreakerConsistent'
    BY BreakerStep, NextBreakerStep DEF IInv, TypeWeak
  <2> QED
    BY <2>1, TypeStep, SlotStep DEF IInv, TypeWeak
<1> QED
  BY <1>1, InitIInv, StutterIInv, PTL DEF Spec

\* For every number of threads and slots and every threshold, the gate's
\* variables keep their types; the semaphore never exceeds its initial value and
\* the gauge never goes negative or above the number of slots.
THEOREM TypeCorrect == Spec => []TypeOK
BY InductiveInvariant, IInvImpliesTypeOK, PTL

\* No path through _Slot leaks a slot or gives one back twice.
THEOREM SlotsAreConserved == Spec => []SlotsConserved
<1>1. IInv => SlotsConserved
  BY DEF IInv
<1> QED
  BY <1>1, InductiveInvariant, PTL

\* The in_flight gauge is exact, and the peak it records never exceeds the slots.
THEOREM GaugeIsExact == Spec => []GaugeExact
<1>1. IInv => GaugeExact
  BY DEF IInv
<1> QED
  BY <1>1, InductiveInvariant, PTL

\* The breaker is closed exactly while its count is below the threshold.
THEOREM BreakerIsConsistent == Spec => []BreakerConsistent
<1>1. IInv => BreakerConsistent
  BY DEF IInv
<1> QED
  BY <1>1, InductiveInvariant, PTL

-----------------------------------------------------------------------------
\* Only a shed takes a thread from "waiting" to "idle".
LEMMA WaitingLeavesByShed ==
    ASSUME IInv, Next, NEW t \in Threads, pc[t] = "waiting", pc'[t] = "idle"
    PROVE  Shed(t)
<1> USE DEF IInv, TypeWeak, Locations, Goto, Return
<1>2. ASSUME NEW u \in Threads, NEW k \in Kinds, Call(u, k)
      PROVE  Shed(t)
  BY <1>2 DEF Call
<1>3. ASSUME NEW u \in Threads, Acquire(u) \/ Admit(u) \/ ExitStats(u) \/ Release(u) \/ Record(u)
      PROVE  Shed(t)
  BY <1>3 DEF Acquire, Admit, ExitStats, Release, Record
<1>4. ASSUME NEW u \in Threads, NEW o \in Outcomes, Finish(u, o)
      PROVE  Shed(t)
  BY <1>4 DEF Finish
<1>5. ASSUME NEW u \in Threads, Shed(u)
      PROVE  Shed(t)
  <2>1. u = t
    BY <1>5 DEF Shed
  <2> QED
    BY <1>5, <2>1
<1>6. ASSUME OrphanEnds \/ RecoveryTimeout
      PROVE  Shed(t)
  BY <1>6 DEF OrphanEnds, RecoveryTimeout, callVars
<1> QED
  BY <1>2, <1>3, <1>4, <1>5, <1>6 DEF Next, Progress

\* A request is answered 429 only while MaxSlots other threads hold the slots.
THEOREM ShedsOnlyWhenFull == Spec => ShedOnlyWhenFull
<1> DEFINE A == \A t \in Threads : pc[t] = "waiting" /\ pc'[t] = "idle"
                    => Cardinality(Holders \ {t}) = MaxSlots
<1>1. IInv /\ [Next]_vars => [A]_vars
  <2> SUFFICES ASSUME IInv, Next, NEW t \in Threads, pc[t] = "waiting", pc'[t] = "idle"
               PROVE  Cardinality(Holders \ {t}) = MaxSlots
    BY DEF vars
  <2>1. free = 0
    BY WaitingLeavesByShed DEF Shed
  <2>2. Cardinality(Holders) = MaxSlots
    BY <2>1, HoldersFinite, GateAssumption DEF IInv, SlotsConserved
  <2>3. Holders \ {t} = Holders
    BY DEF Holders
  <2> QED
    BY <2>2, <2>3
<1> QED
  BY <1>1, InductiveInvariant, PTL DEF Spec, ShedOnlyWhenFull

\* Every step of the gate is a step of AdmissionControl on the holders, or leaves
\* them alone.
THEOREM GateImplementsAdmission == Spec => ImplementsAdmission
<1>1. Init => Admission!Init
  BY DEF Init, Admission!Init, Holders
<1>2. IInv /\ [Next]_vars => [Admission!Next]_Holders
  <2> SUFFICES ASSUME IInv, [Next]_vars, Holders' # Holders
               PROVE  Admission!Next
    OBVIOUS
  <2>1. ASSUME NEW t \in Threads, Acquire(t)
        PROVE  Admission!Enter(t)
    <3>1. t \notin Holders /\ Holders' = Holders \union {t}
      BY <2>1 DEF Acquire, Goto, IInv, TypeWeak, KindOK, Holders
    <3>2. Cardinality(Holders) < MaxSlots
      BY <2>1, HoldersFinite, GateAssumption DEF Acquire, IInv, TypeWeak, SlotsConserved
    <3>3. Admission!Cardinality(Holders) = Cardinality(Holders)
      BY DEF Cardinality, Admission!Cardinality, IsFiniteSet, Admission!IsFiniteSet
    <3> QED
      BY <3>1, <3>2, <3>3 DEF Admission!Enter
  <2>2. ASSUME NEW t \in Threads, Release(t)
        PROVE  Admission!Leave(t)
    BY <2>2 DEF Release, Goto, IInv, TypeWeak, KindOK, Holders, Admission!Leave
  <2>3. ASSUME NEW t \in Threads, Admit(t) \/ ExitStats(t)
        PROVE  FALSE
    BY <2>3 DEF Admit, ExitStats, Goto, IInv, TypeWeak, KindOK, Holders
  <2>4. ASSUME NEW t \in Threads, NEW k \in Kinds, Call(t, k)
        PROVE  FALSE
    BY <2>4 DEF Call, Goto, IInv, TypeWeak, Kinds, Holders
  <2>5. ASSUME NEW t \in Threads, Shed(t) \/ Record(t)
        PROVE  FALSE
    BY <2>5 DEF Shed, Record, Return, Goto, IInv, TypeWeak, Holders
  <2>6. ASSUME NEW t \in Threads, NEW o \in Outcomes, Finish(t, o)
        PROVE  FALSE
    BY <2>6 DEF Finish, Goto, IInv, TypeWeak, Holders
  <2>7. ASSUME OrphanEnds \/ RecoveryTimeout \/ UNCHANGED vars
        PROVE  FALSE
    BY <2>7 DEF OrphanEnds, RecoveryTimeout, callVars, vars, Holders
  <2> QED
    BY <2>1, <2>2, <2>3, <2>4, <2>5, <2>6, <2>7 DEF Next, Progress, Admission!Next
<1> QED
  BY <1>1, <1>2, InductiveInvariant, PTL DEF Spec, ImplementsAdmission, Admission!Spec
=============================================================================
