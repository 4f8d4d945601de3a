-------------------------- MODULE BuildService_proofs --------------------------
(***************************************************************************)
(* For every set of threads, tables, actors and runs and every ceiling: no    *)
(* reservation leaks, executing runs known to the process exclude each other  *)
(* per table, the in-flight ceiling holds, and the daily counter is exact but  *)
(* for refunds that stray across midnight.                                   *)
(***************************************************************************)
EXTENDS BuildService, FiniteSetTheorems, TLAPS

\* The part of the type invariant the lock discipline rests on.
LockType ==
    /\ locks \in [Tables -> Runs \union {None, Reserved}]
    /\ pc \in [Threads -> Locations]
    /\ table \in [Threads -> Tables \union {None}]
    /\ run \in [Threads -> Runs \union {None}]
    /\ runTable \in [Runs -> Tables \union {None}]
    /\ active \subseteq Runs

\* A thread has a table exactly while it is in a submission.
BusyHasTable == \A t \in Threads : Busy(t) <=> table[t] # None

\* A thread about to record a run id holds the id of a run launched for its table.
LaunchedIsOurs ==
    \A t \in Threads : pc[t] = "launched" => run[t] \in Runs /\ runTable[run[t]] = table[t]

\* A recorded run id was launched for the table it locks, and only launched runs
\* execute.
LockedIsOurs ==
    /\ \A tb \in Tables : locks[tb] \in Runs => runTable[locks[tb]] = tb
    /\ \A r \in active : runTable[r] \in Tables

\* An executing run with a known id is held by its table's lock or by the thread
\* that is about to record it (the first half of KnownRunsExclusive).
ActiveIsHeld ==
    \A r \in active \ orphans :
        \/ locks[runTable[r]] = r
        \/ \E t \in Threads : pc[t] = "launched" /\ run[t] = r /\ table[t] = runTable[r]

\* The inductive invariant.
LockInv ==
    /\ LockType
    /\ BusyHasTable
    /\ LaunchedIsOurs
    /\ LockedIsOurs
    /\ ReservationOwned
    /\ ActiveIsHeld

-----------------------------------------------------------------------------
\* Two executing runs of one table would both be held by its lock, or by the one
\* submission that has it reserved.
LEMMA HeldImpliesExclusive == LockInv => KnownRunsExclusive
<1> SUFFICES ASSUME LockInv, NEW r \in active \ orphans, NEW s \in active \ orphans,
                    runTable[r] = runTable[s]
             PROVE  r = s
  BY DEF KnownRunsExclusive, LockInv, ActiveIsHeld
<1> DEFINE Held(q) == \E t \in Threads :
                          pc[t] = "launched" /\ run[t] = q /\ table[t] = runTable[q]
<1>0. /\ r \in Runs /\ s \in Runs /\ runTable[r] \in Tables
      /\ Reserved \notin Runs
  BY BuildAssumption DEF LockInv, LockType, LockedIsOurs
<1>1. ASSUME NEW q \in active \ orphans, runTable[q] = runTable[r], Held(q)
      PROVE  locks[runTable[r]] = Reserved
  BY <1>0, <1>1 DEF LockInv, ReservationOwned, Busy
<1>2. CASE locks[runTable[r]] = r
  <2>1. ~Held(s)
    BY <1>0, <1>1, <1>2
  <2> QED
    BY <1>2, <2>1 DEF LockInv, ActiveIsHeld
<1>3. CASE Held(r)
  <2>1. locks[runTable[s]] # s
    BY <1>0, <1>1, <1>3
  <2>2. Held(s)
    BY <2>1 DEF LockInv, ActiveIsHeld
  <2> QED
    BY <1>3, <2>2 DEF LockInv, ReservationOwned, Busy
<1> QED
  BY <1>2, <1>3 DEF LockInv, ActiveIsHeld

LEMMA InitLockInv == Init => LockInv
BY BuildAssumption
   DEF Init, LockInv, LockType, BusyHasTable, LaunchedIsOurs, LockedIsOurs,
       ReservationOwned, ActiveIsHeld, Busy, Locations

-----------------------------------------------------------------------------
\* Reserving a free table gives the new submission the only claim on it.
LEMMA ReserveStep ==
    ASSUME LockInv, NEW t \in Threads, NEW tb \in Tables, NEW a \in Actors, Reserve(t, tb, a)
    PROVE  LockInv'
<1> USE BuildAssumption DEF LockInv, LockType, Locations, Goto, Busy
<1>0. /\ locks[tb] = None /\ pc[t] = "idle" /\ table[t] = None
      /\ locks' = [locks EXCEPT ![tb] = Reserved] /\ pc' = [pc EXCEPT ![t] = "reserved"]
      /\ table' = [table EXCEPT ![t] = tb]
      /\ UNCHANGED <<run, runTable, active, orphans>>
  BY DEF Reserve, runVars, BusyHasTable
<1>1. LockType' /\ BusyHasTable' /\ LaunchedIsOurs' /\ LockedIsOurs'
  BY <1>0 DEF BusyHasTable, LaunchedIsOurs, LockedIsOurs
<1>2. ReservationOwned'
  <2>1. ~ \E u \in Threads : Busy(u) /\ table[u] = tb
    BY <1>0 DEF ReservationOwned
  <2> QED
    BY <1>0, <2>1 DEF ReservationOwned
<1>3. ActiveIsHeld'
  BY <1>0 DEF ActiveIsHeld, LockedIsOurs
<1> QED
  BY <1>1, <1>2, <1>3

\* The middle of a submission moves its thread on and claims nothing new: the
\* charge, the preflight, a refused POST and the refund.
LEMMA MiddleStep ==
    ASSUME LockInv, NEW t \in Threads,
           Charge(t) \/ Preflight(t) \/ PostRejected(t) \/ Refund(t)
    PROVE  LockInv'
<1> USE BuildAssumption DEF LockInv, LockType, Locations, Goto, Busy
<1>0. /\ pc[t] # "idle" /\ pc[t] # "launched"
      /\ pc' \in [Threads -> Locations]
      /\ pc'[t] # "idle" /\ pc'[t] # "launched"
      /\ \A u \in Threads \ {t} : pc'[u] = pc[u]
      /\ UNCHANGED <<locks, table, run, runTable, active, orphans>>
  BY DEF Charge, Preflight, PostRejected, Refund, memVars, budgetVars, runVars
<1> QED
  BY <1>0 DEF BusyHasTable, LaunchedIsOurs, LockedIsOurs, ReservationOwned, ActiveIsHeld

\* An accepted POST: the new run is held by the submission that reserved its table.
LEMMA AcceptedStep ==
    ASSUME LockInv, NEW t \in Threads, NEW r \in Runs, PostAccepted(t, r)
    PROVE  LockInv'
<1> USE BuildAssumption DEF LockInv, LockType, Locations, Goto, Busy
<1>0. /\ pc[t] = "preflighted" /\ pc' = [pc EXCEPT ![t] = "launched"]
      /\ table[t] \in Tables /\ runTable[r] = None
      /\ runTable' = [runTable EXCEPT ![r] = table[t]]
      /\ run' = [run EXCEPT ![t] = r] /\ active' = active \union {r}
      /\ UNCHANGED <<locks, table, orphans>>
  BY DEF PostAccepted, Launch, Launched, memVars, budgetVars, BusyHasTable
<1>1. LockType' /\ BusyHasTable' /\ ReservationOwned'
  BY <1>0 DEF BusyHasTable, ReservationOwned
<1>2. LaunchedIsOurs'
  BY <1>0 DEF LaunchedIsOurs, BusyHasTable
<1>3. LockedIsOurs'
  BY <1>0 DEF LockedIsOurs
<1>4. ActiveIsHeld'
  BY <1>0 DEF ActiveIsHeld, LockedIsOurs
<1> QED
  BY <1>1, <1>2, <1>3, <1>4

\* A lost answer: the run it started is an orphan.
LEMMA LostStep ==
    ASSUME LockInv, NEW t \in Threads, NEW r \in Runs, PostAnswerLost(t, r)
    PROVE  LockInv'
<1> USE BuildAssumption DEF LockInv, LockType, Locations, Goto, Busy
<1>0. /\ pc[t] = "preflighted" /\ pc' = [pc EXCEPT ![t] = "failed"]
      /\ table[t] \in Tables /\ runTable[r] = None
      /\ runTable' = [runTable EXCEPT ![r] = table[t]]
      /\ active' = active \union {r} /\ orphans' = orphans \union {r}
      /\ UNCHANGED <<locks, table, run>>
  BY DEF PostAnswerLost, Launch, Launched, memVars, budgetVars, BusyHasTable
<1>1. LockType' /\ BusyHasTable' /\ ReservationOwned'
  BY <1>0 DEF BusyHasTable, ReservationOwned
<1>2. LaunchedIsOurs' /\ LockedIsOurs'
  BY <1>0 DEF LaunchedIsOurs, LockedIsOurs, BusyHasTable
<1>3. ActiveIsHeld'
  BY <1>0 DEF ActiveIsHeld, LockedIsOurs
<1> QED
  BY <1>1, <1>2, <1>3

\* The swap: the lock takes over the run from the submission that ends.
LEMMA SwapStep ==
    ASSUME LockInv, NEW t \in Threads, Swap(t)
    PROVE  LockInv'
<1> USE BuildAssumption DEF LockInv, LockType, Locations, Goto, Busy, Return
<1>0. /\ pc[t] = "launched" /\ pc' = [pc EXCEPT ![t] = "idle"]
      /\ table[t] \in Tables /\ table' = [table EXCEPT ![t] = None]
      /\ run[t] \in Runs /\ runTable[run[t]] = table[t] /\ run' = [run EXCEPT ![t] = None]
      /\ locks' = [locks EXCEPT ![table[t]] = run[t]]
      /\ UNCHANGED <<runTable, active, orphans>>
      /\ locks[table[t]] = Reserved
  BY DEF Swap, runVars, BusyHasTable, LaunchedIsOurs, ReservationOwned
<1>1. LockType' /\ BusyHasTable' /\ LaunchedIsOurs' /\ LockedIsOurs'
  BY <1>0 DEF BusyHasTable, LaunchedIsOurs, LockedIsOurs
<1>2. ReservationOwned'
  BY <1>0 DEF ReservationOwned
<1>3. ActiveIsHeld'
  BY <1>0 DEF ActiveIsHeld, LockedIsOurs
<1> QED
  BY <1>1, <1>2, <1>3

\* A failed submission clears its own placeholder and nothing else.
LEMMA GiveUpStep ==
    ASSUME LockInv, NEW t \in Threads, RejectOverBudget(t) \/ Drop(t)
    PROVE  LockInv'
<1> USE BuildAssumption DEF LockInv, LockType, Locations, Goto, Busy, Return
<1>0. /\ pc[t] # "idle" /\ pc[t] # "launched" /\ pc' = [pc EXCEPT ![t] = "idle"]
      /\ table[t] \in Tables /\ table' = [table EXCEPT ![t] = None]
      /\ run' = [run EXCEPT ![t] = None]
      /\ locks[table[t]] = Reserved /\ locks' = [locks EXCEPT ![table[t]] = None]
      /\ UNCHANGED <<runTable, active, orphans>>
  BY DEF RejectOverBudget, Drop, DropReservation, runVars, BusyHasTable, ReservationOwned
<1>1. LockType' /\ BusyHasTable' /\ LaunchedIsOurs' /\ LockedIsOurs'
  BY <1>0 DEF BusyHasTable, LaunchedIsOurs, LockedIsOurs
<1>2. ReservationOwned'
  BY <1>0 DEF ReservationOwned
<1>3. ActiveIsHeld'
  BY <1>0 DEF ActiveIsHeld, LockedIsOurs
<1> QED
  BY <1>1, <1>2, <1>3

\* A poll releases only the locks of a run that has ended.
LEMMA PollStep ==
    ASSUME LockInv, NEW r \in Runs, Poll(r)
    PROVE  LockInv'
<1> USE BuildAssumption DEF LockInv, LockType, Busy
<1>0. /\ r \notin active
      /\ locks' = [tb \in Tables |-> IF locks[tb] = r THEN None ELSE locks[tb]]
      /\ UNCHANGED <<pc, table, run, runTable, active, orphans>>
  BY DEF Poll, Launched, threadVars, runVars
<1>1. LockType' /\ BusyHasTable' /\ LaunchedIsOurs' /\ LockedIsOurs'
  BY <1>0 DEF BusyHasTable, LaunchedIsOurs, LockedIsOurs
<1>2. ReservationOwned'
  BY <1>0 DEF ReservationOwned
<1>3. ActiveIsHeld'
  BY <1>0 DEF ActiveIsHeld, LockedIsOurs
<1> QED
  BY <1>1, <1>2, <1>3

\* The environment only ever ends runs.
LEMMA EnvironmentStep ==
    ASSUME LockInv,
           \/ Resolve \/ Midnight \/ GrantChanges \/ LatchExpires
           \/ \E r \in Runs : PollError(r) \/ RunEnds(r)
           \/ UNCHANGED vars
    PROVE  LockInv'
<1>0. /\ UNCHANGED <<locks, pc, table, run, runTable, orphans>>
      /\ active' \subseteq active
  BY DEF Resolve, Midnight, GrantChanges, LatchExpires, PollError, RunEnds, vars,
         memVars, budgetVars, threadVars, runVars
<1> QED
  BY <1>0 DEF LockInv, LockType, BusyHasTable, LaunchedIsOurs, LockedIsOurs,
              ReservationOwned, ActiveIsHeld, Busy

\* After a restart nothing is reserved and every run launched so far is an orphan.
LEMMA RestartStep == LockInv /\ Restart => LockInv'
<1> SUFFICES ASSUME LockInv, Restart PROVE LockInv'
  OBVIOUS
<1>0. /\ locks' = [tb \in Tables |-> None] /\ pc' = [t \in Threads |-> "idle"]
      /\ table' = [t \in Threads |-> None] /\ run' = [t \in Threads |-> None]
      /\ UNCHANGED <<runTable, active>>
      /\ \A r \in active : r \in orphans'
  BY BuildAssumption DEF Restart, runVars, LockInv, LockType, LockedIsOurs, Launched
<1> QED
  BY <1>0, BuildAssumption
     DEF LockInv, LockType, BusyHasTable, LaunchedIsOurs, LockedIsOurs,
         ReservationOwned, ActiveIsHeld, Busy, Locations

\* Every action keeps the lock discipline.
LEMMA LockStep ==
    ASSUME LockInv, [Next]_vars
    PROVE  LockInv'
<1>1. ASSUME NEW t \in Threads, Submit(t) PROVE LockInv'
  BY <1>1, MiddleStep, AcceptedStep, LostStep, SwapStep, GiveUpStep DEF Submit
<1> QED
  BY <1>1, ReserveStep, PollStep, EnvironmentStep, RestartStep DEF Next

\* The lock discipline is inductive.
THEOREM LockInvariant == Spec => []LockInv
<1>1. LockInv /\ [Next]_vars => LockInv'
  BY LockStep
<1> QED
  BY <1>1, InitLockInv, PTL DEF Spec

\* No path through submit_build_job leaks a reservation or frees another's.
THEOREM ReservationsAreOwned == Spec => []ReservationOwned
<1>1. LockInv => ReservationOwned
  BY DEF LockInv
<1> QED
  BY <1>1, LockInvariant, PTL

\* A12 for every number of threads, tables and runs: two executing runs whose ids
\* the process knows are never for one table.
THEOREM KnownRunsAreExclusive == Spec => []KnownRunsExclusive
BY LockInvariant, HeldImpliesExclusive, PTL

-----------------------------------------------------------------------------
\* Only Reserve adds an entry to _build_locks, under the ceiling's check.
LEMMA LockedGrowsByReserve ==
    ASSUME LockInv, Next
    PROVE  \/ Locked' \subseteq Locked
           \/ /\ Cardinality(Locked) < MaxInFlight
              /\ \E tb \in Tables : Locked' = Locked \union {tb}
<1> USE DEF LockInv, LockType, Locked
<1>1. ASSUME NEW t \in Threads, NEW tb \in Tables, NEW a \in Actors, Reserve(t, tb, a)
      PROVE  Cardinality(Locked) < MaxInFlight /\ Locked' = Locked \union {tb}
  <2>1. Cardinality(Locked) < MaxInFlight
    BY <1>1 DEF Reserve
  <2>2. Locked' = Locked \union {tb}
    BY <1>1, BuildAssumption DEF Reserve
  <2> QED
    BY <2>1, <2>2
<1>2. ASSUME NEW t \in Threads, Submit(t)
      PROVE  Locked' \subseteq Locked
  <2>1. CASE Charge(t) \/ Preflight(t) \/ PostRejected(t) \/ Refund(t)
             \/ \E r \in Runs : PostAccepted(t, r) \/ PostAnswerLost(t, r)
    BY <2>1 DEF Charge, Preflight, PostRejected, Refund, PostAccepted, PostAnswerLost, memVars, budgetVars
  <2>2. CASE RejectOverBudget(t) \/ Drop(t)
    BY <2>2 DEF RejectOverBudget, Drop, DropReservation
  <2>3. CASE Swap(t)
    <3>1. table[t] \in Tables /\ locks[table[t]] = Reserved
      BY <2>3 DEF Swap, Return, Goto, BusyHasTable, ReservationOwned, Busy
    <3> QED
      BY <2>3, <3>1, BuildAssumption DEF Swap
  <2> QED
    BY <1>2, <2>1, <2>2, <2>3 DEF Submit
<1>3. ASSUME NEW r \in Runs, Poll(r)
      PROVE  Locked' \subseteq Locked
  BY <1>3 DEF Poll
<1>4. ASSUME \/ Resolve \/ Midnight \/ GrantChanges \/ LatchExpires \/ Restart
             \/ \E r \in Runs : PollError(r) \/ RunEnds(r)
      PROVE  Locked' \subseteq Locked
  BY <1>4 DEF Resolve, Midnight, GrantChanges, LatchExpires, Restart, PollError, RunEnds, memVars, budgetVars
<1> QED
  BY <1>1, <1>2, <1>3, <1>4 DEF Next

\* MAX_BUILDS_IN_FLIGHT is never exceeded.
THEOREM InFlightIsBounded == Spec => []InFlightBounded
<1> USE DEF InFlightBounded
<1>0. IsFiniteSet(Locked) /\ Cardinality(Locked) \in Nat
  <2>1. Locked \in SUBSET Tables
    BY DEF Locked
  <2> QED
    BY <2>1, BuildAssumption, FS_Subset, FS_CardinalityType
<1>1. Init => InFlightBounded
  <2>1. Init => Locked = {}
    BY DEF Init, Locked
  <2> QED
    BY <2>1, BuildAssumption, FS_EmptySet
<1>2. LockInv /\ InFlightBounded /\ [Next]_vars => InFlightBounded'
  <2> SUFFICES ASSUME LockInv, InFlightBounded, [Next]_vars
               PROVE  Cardinality(Locked') <= MaxInFlight
    OBVIOUS
  <2>1. CASE Next /\ Locked' \subseteq Locked
    <3>1. Cardinality(Locked') <= Cardinality(Locked) /\ Cardinality(Locked') \in Nat
      BY <1>0, <2>1, FS_Subset, FS_CardinalityType
    <3> QED
      BY <1>0, <3>1, BuildAssumption
  <2>2. ASSUME NEW tb \in Tables, Cardinality(Locked) < MaxInFlight,
               Locked' = Locked \union {tb}
        PROVE  Cardinality(Locked') <= MaxInFlight
    <3>1. Cardinality(Locked') <= Cardinality(Locked) + 1
      BY <1>0, <2>2, FS_AddElement
    <3>2. Cardinality(Locked') \in Nat
      BY <1>0, <2>2, FS_AddElement, FS_CardinalityType
    <3> QED
      BY <1>0, <2>2, <3>1, <3>2, BuildAssumption
  <2>3. CASE UNCHANGED vars
    BY <2>3 DEF vars, Locked
  <2> QED
    BY <2>1, <2>2, <2>3, LockedGrowsByReserve
<1> QED
  BY <1>1, <1>2, LockInvariant, PTL DEF Spec

-----------------------------------------------------------------------------
\* A thread in a submission knows who submitted it.
BusyHasActor == \A t \in Threads : Busy(t) => actor[t] \in Actors

\* Appending to the log and dropping its newest entry keep it a log of bounded
\* length.
LEMMA LogKept ==
    ASSUME submitters \in Seq(Submission), Len(submitters) <= LogMax
    PROVE  /\ \A e \in Submission : Logged(e) \in Seq(Submission) /\ Len(Logged(e)) <= LogMax
           /\ submitters # <<>> =>
                 /\ SubSeq(submitters, 1, Len(submitters) - 1) \in Seq(Submission)
                 /\ Len(SubSeq(submitters, 1, Len(submitters) - 1)) <= LogMax
<1>1. ASSUME NEW e \in Submission
      PROVE  Logged(e) \in Seq(Submission) /\ Len(Logged(e)) <= LogMax
  <2>1. CASE Len(submitters) >= LogMax
    <3>1. submitters # <<>>
      BY <2>1, BuildAssumption
    <3>2. Tail(submitters) \in Seq(Submission) /\ Len(Tail(submitters)) = Len(submitters) - 1
      BY <3>1
    <3> QED
      BY <2>1, <3>2, BuildAssumption DEF Logged
  <2>2. CASE ~(Len(submitters) >= LogMax)
    BY <2>2, BuildAssumption DEF Logged
  <2> QED
    BY <2>1, <2>2
<1>2. ASSUME submitters # <<>>
      PROVE  /\ SubSeq(submitters, 1, Len(submitters) - 1) \in Seq(Submission)
             /\ Len(SubSeq(submitters, 1, Len(submitters) - 1)) <= LogMax
  BY <1>2, BuildAssumption
<1> QED
  BY <1>1, <1>2

\* The budget's variables: the counter stays within 0..MAX_BUILDS_PER_DAY even when
\* a refund falls on another day than its charge.
BudgetType ==
    /\ buildsToday \in 0..MaxPerDay
    /\ today \in 1..LastDay /\ budgetDay \in 0..today
    /\ submitters \in Seq(Submission) /\ Len(submitters) <= LogMax
    /\ actor \in [Threads -> Actors \union {None}]
    /\ chargeDay \in [Threads -> 0..today]
    /\ BusyHasActor

LEMMA InitBudgetType == Init => BudgetType
BY BuildAssumption DEF Init, BudgetType, BusyHasActor, Busy

LEMMA BudgetStep ==
    ASSUME LockInv, BudgetType, [Next]_vars
    PROVE  BudgetType'
<1> USE BuildAssumption DEF BudgetType, BusyHasActor, Busy, Goto, Return, LockInv, LockType, Locations
<1>1. ASSUME NEW t \in Threads, NEW tb \in Tables, NEW a \in Actors, Reserve(t, tb, a)
      PROVE  BudgetType'
  BY <1>1 DEF Reserve, budgetVars
<1>2. ASSUME NEW t \in Threads, Charge(t)
      PROVE  BudgetType'
  <2>1. [actor |-> actor[t], table |-> table[t]] \in Submission
    BY <1>2 DEF Charge, Submission, BusyHasTable
  <2>2. SpentToday \in 0..MaxPerDay
    BY DEF SpentToday
  <2>3. submitters' \in Seq(Submission) /\ Len(submitters') <= LogMax
    BY <1>2, <2>1, LogKept DEF Charge
  <2>4. buildsToday' \in 0..MaxPerDay /\ budgetDay' = today /\ today' = today
    BY <1>2, <2>2 DEF Charge
  <2>5. chargeDay' \in [Threads -> 0..today]
    <3>1. chargeDay' = chargeDay \/ chargeDay' = [chargeDay EXCEPT ![t] = today]
      BY <1>2 DEF Charge
    <3>2. today \in 0..today
      OBVIOUS
    <3> QED
      BY <3>1, <3>2
  <2>6. actor' = actor /\ \A u \in Threads : pc'[u] # "idle" => pc[u] # "idle"
    BY <1>2 DEF Charge
  <2> QED
    BY <2>3, <2>4, <2>5, <2>6
<1>3. ASSUME NEW t \in Threads, Preflight(t) \/ PostRejected(t)
      PROVE  BudgetType'
  BY <1>3 DEF Preflight, PostRejected, memVars, budgetVars
<1>4. ASSUME NEW t \in Threads, NEW r \in Runs, PostAccepted(t, r) \/ PostAnswerLost(t, r)
      PROVE  BudgetType'
  <2>1. /\ buildsToday' = buildsToday /\ budgetDay' = budgetDay /\ today' = today
        /\ submitters' = submitters /\ actor' = actor /\ chargeDay' = chargeDay
    BY <1>4 DEF PostAccepted, PostAnswerLost, memVars, budgetVars
  <2>2. \A u \in Threads : pc'[u] # "idle" => pc[u] # "idle"
    BY <1>4 DEF PostAccepted, PostAnswerLost
  <2> QED
    BY <2>1, <2>2
<1>5. ASSUME NEW t \in Threads, Refund(t)
      PROVE  BudgetType'
  <2>1. submitters' \in Seq(Submission) /\ Len(submitters') <= LogMax
    BY <1>5, LogKept DEF Refund
  <2>2. buildsToday' \in 0..MaxPerDay
    BY <1>5 DEF Refund
  <2> QED
    BY <1>5, <2>1, <2>2 DEF Refund
<1>6. ASSUME NEW t \in Threads, RejectOverBudget(t) \/ Swap(t) \/ Drop(t)
      PROVE  BudgetType'
  <2>1. /\ buildsToday' = buildsToday /\ budgetDay' = budgetDay /\ today' = today
        /\ submitters' = submitters
        /\ actor' = [actor EXCEPT ![t] = None] /\ chargeDay' = [chargeDay EXCEPT ![t] = 0]
        /\ pc' = [pc EXCEPT ![t] = "idle"]
    BY <1>6 DEF RejectOverBudget, Swap, Drop, budgetVars
  <2>2. BusyHasActor'
    BY <2>1
  <2> QED
    BY <2>1, <2>2
<1>7. ASSUME Restart
      PROVE  BudgetType'
  BY <1>7 DEF Restart
<1>8. ASSUME Midnight
      PROVE  BudgetType'
  BY <1>8 DEF Midnight, memVars, budgetVars, threadVars
<1>9. ASSUME \/ Resolve \/ GrantChanges \/ LatchExpires \/ UNCHANGED vars
             \/ \E r \in Runs : Poll(r) \/ PollError(r) \/ RunEnds(r)
      PROVE  BudgetType'
  BY <1>9 DEF Resolve, GrantChanges, LatchExpires, Poll, PollError, RunEnds, vars, memVars, budgetVars, threadVars
<1> QED
  BY <1>1, <1>2, <1>3, <1>4, <1>5, <1>6, <1>7, <1>8, <1>9 DEF Next, Submit

\* The daily counter never leaves 0..MAX_BUILDS_PER_DAY and the submission log never
\* outgrows its bound, whatever submissions straddle midnight or fail.
THEOREM BudgetWithinBounds == Spec => []BudgetType
BY LockInvariant, InitBudgetType, BudgetStep, PTL DEF Spec
-----------------------------------------------------------------------------
\* The rest of the type invariant: what no lock and no counter depends on.
RestType ==
    /\ path \in {"unresolved", "", "set"} /\ readable \in BOOLEAN /\ latched \in BOOLEAN
    /\ strayed \in BOOLEAN
    /\ runActor \in [Runs -> Actors \union {None}]
    /\ runDay \in [Runs -> 0..today]
    /\ orphans \in SUBSET Runs /\ watching \in SUBSET Runs /\ gaveUp \in SUBSET Runs
    /\ restarts \in 0..MaxRestarts

LEMMA RestStep ==
    ASSUME LockInv, BudgetType, RestType, [Next]_vars
    PROVE  RestType'
<1>0. /\ today \in Nat
      /\ \A t \in Threads : chargeDay[t] \in 0..today /\ actor[t] \in Actors \union {None}
  <2>1. today \in Nat
    BY BuildAssumption DEF BudgetType
  <2>2. ASSUME NEW t \in Threads
        PROVE  chargeDay[t] \in 0..today /\ actor[t] \in Actors \union {None}
    BY DEF BudgetType
  <2> QED BY <2>1, <2>2
<1> USE DEF RestType
<1>1. ASSUME NEW t \in Threads, NEW tb \in Tables, NEW a \in Actors, Reserve(t, tb, a)
      PROVE  RestType'
  BY <1>1 DEF Reserve, budgetVars, runVars, clientVars
<1>2. ASSUME NEW t \in Threads, Charge(t) PROVE RestType'
  <2>1. strayed' \in BOOLEAN
    BY <1>2 DEF Charge
  <2> QED BY <1>2, <2>1 DEF Charge, runVars, clientVars
<1>3. ASSUME NEW t \in Threads, Refund(t) PROVE RestType'
  <2>1. strayed' \in BOOLEAN
    BY <1>3 DEF Refund
  <2> QED BY <1>3, <2>1 DEF Refund, runVars, clientVars
<1>4. ASSUME NEW t \in Threads, RejectOverBudget(t) \/ Preflight(t) \/ PostRejected(t) \/ Drop(t)
      PROVE  RestType'
  BY <1>4 DEF RejectOverBudget, Preflight, PostRejected, Drop, memVars, budgetVars, runVars, clientVars
<1>5. ASSUME NEW t \in Threads, NEW r \in Runs, PostAccepted(t, r) \/ PostAnswerLost(t, r)
      PROVE  RestType'
  <2>1. /\ runActor' = [runActor EXCEPT ![r] = actor[t]]
        /\ runDay' = [runDay EXCEPT ![r] = chargeDay[t]]
        /\ today' = today /\ orphans' \in {orphans, orphans \union {r}}
        /\ UNCHANGED <<path, readable, latched, strayed, watching, gaveUp, restarts>>
    BY <1>5 DEF PostAccepted, PostAnswerLost, Launch, memVars, budgetVars, clientVars
  <2>2. runActor' \in [Runs -> Actors \union {None}] /\ runDay' \in [Runs -> 0..today]
    BY <1>0, <2>1
  <2> QED BY <2>1, <2>2
<1>6. ASSUME NEW t \in Threads, Swap(t) PROVE RestType'
  <2>1. run[t] \in Runs
    BY <1>6 DEF Swap, Return, Goto, LockInv, LaunchedIsOurs
  <2> QED BY <1>6, <2>1 DEF Swap, budgetVars, runVars
<1>7. ASSUME NEW r \in Runs, Poll(r) \/ PollError(r) \/ RunEnds(r) PROVE RestType'
  BY <1>7 DEF Poll, PollError, RunEnds, memVars, budgetVars, runVars, clientVars
<1>8. ASSUME Midnight PROVE RestType'
  <2>1. today' = today + 1 /\ UNCHANGED <<runDay, memVars, readable, runActor, orphans, clientVars, restarts>>
    BY <1>8 DEF Midnight, runVars
  <2>2. \A r \in Runs : runDay[r] \in 0..today'
    <3> HIDE DEF RestType
    <3>1. \A r \in Runs : runDay[r] \in 0..today
      BY DEF RestType
    <3> QED BY <1>0, <2>1, <3>1
  <2>3. runDay' \in [Runs -> 0..today']
    BY <2>1, <2>2
  <2> QED BY <2>1, <2>3 DEF memVars, budgetVars, clientVars
<1>9. ASSUME Resolve \/ GrantChanges \/ LatchExpires PROVE RestType'
  BY <1>9 DEF Resolve, GrantChanges, LatchExpires, memVars, budgetVars, runVars, clientVars
<1>10. ASSUME Restart PROVE RestType'
  <2>1. /\ path' = "unresolved" /\ latched' = FALSE /\ strayed' = FALSE
        /\ restarts < MaxRestarts /\ restarts' = restarts + 1
        /\ orphans' = orphans \union Launched
        /\ UNCHANGED <<readable, today, runActor, runDay, watching, gaveUp>>
    BY <1>10 DEF Restart, runVars, clientVars
  <2>2. restarts' \in 0..MaxRestarts /\ orphans' \in SUBSET Runs
    <3> HIDE DEF RestType
    <3>1. restarts \in 0..MaxRestarts
      BY DEF RestType
    <3>2. restarts' \in 0..MaxRestarts
      BY <2>1, <3>1, BuildAssumption
    <3>3. orphans' \in SUBSET Runs
      BY <2>1 DEF Launched, RestType
    <3> QED BY <3>2, <3>3
  <2> QED BY <2>1, <2>2
<1>11. ASSUME UNCHANGED vars PROVE RestType'
  BY <1>11 DEF vars, budgetVars
<1> QED
  BY <1>1, <1>2, <1>3, <1>4, <1>5, <1>6, <1>7, <1>8, <1>9, <1>10, <1>11 DEF Next, Submit

\* The three parts together are inductive.
BuildInv == LockInv /\ BudgetType /\ RestType

THEOREM BuildInvariant == Spec => []BuildInv
<1>1. Init => BuildInv
  <2>1. ASSUME Init PROVE RestType
    <3>1. readable \in BOOLEAN
      BY <2>1 DEF Init
    <3>2. latched \in BOOLEAN /\ strayed \in BOOLEAN
      BY <2>1 DEF Init
    <3>3. runDay \in [Runs -> 0..today] /\ restarts \in 0..MaxRestarts
      BY <2>1, BuildAssumption DEF Init
    <3> QED BY <2>1, <3>1, <3>2, <3>3 DEF Init, RestType
  <2> QED BY <2>1, InitLockInv, InitBudgetType DEF BuildInv
<1>2. BuildInv /\ [Next]_vars => LockInv' /\ BudgetType' /\ RestType'
  <2> SUFFICES ASSUME BuildInv, [Next]_vars PROVE LockInv' /\ BudgetType' /\ RestType'
    OBVIOUS
  <2>1. LockInv'
    BY LockStep DEF BuildInv
  <2> QED BY <2>1, BudgetStep, RestStep DEF BuildInv
<1> QED BY <1>1, <1>2, PTL DEF Spec, BuildInv

\* Type correctness of the whole module.
THEOREM TypeCorrect == Spec => []TypeOK
<1>1. BuildInv => TypeOK
  BY DEF BuildInv, LockInv, LockType, BudgetType, RestType, TypeOK
<1> QED BY <1>1, BuildInvariant, PTL

-----------------------------------------------------------------------------
(***************************************************************************)
(* The daily counter.  What it is compared with are two finite sets; a          *)
(* submission passes its charge on to the run it launched (Swap), and every      *)
(* other action changes both sides alike or neither.                           *)
(***************************************************************************)
Paying == {"charged", "preflighted", "launched", "failed"}

\* A thread has a run id exactly while it records it, and the run is known and was
\* charged on the thread's day; nothing was charged after the counter's day.
ChargesFollow ==
    /\ \A t \in Threads :
          /\ pc[t] # "launched" => run[t] = None
          /\ pc[t] = "launched" => run[t] \in Launched \ orphans /\ runDay[run[t]] = chargeDay[t]
          /\ pc[t] \in Paying => chargeDay[t] <= budgetDay
    /\ \A r \in Launched \ orphans : runDay[r] <= budgetDay
    /\ orphans \subseteq Launched

FinitelyMany == IsFiniteSet({t \in Threads : Busy(t)}) /\ IsFiniteSet(Launched)

BudgetInv == FinitelyMany /\ ChargesFollow /\ BudgetExact

\* Both sides are finite numbers.
LEMMA CountsAreNumbers ==
    ASSUME FinitelyMany
    PROVE  /\ IsFiniteSet(BilledToday) /\ Cardinality(BilledToday) \in Nat
           /\ IsFiniteSet(ChargedToday) /\ Cardinality(ChargedToday) \in Nat
<1>1. BilledToday \subseteq Launched /\ ChargedToday \subseteq {t \in Threads : Busy(t)}
  BY DEF BilledToday, ChargedToday, Busy
<1> QED BY <1>1, FS_Subset, FS_CardinalityType DEF FinitelyMany

\* What makes the count's sets grow: a reservation, and a launch.
LEMMA FinitelyManyStep ==
    ASSUME LockInv, FinitelyMany, [Next]_vars
    PROVE  FinitelyMany'
<1> DEFINE B == {t \in Threads : Busy(t)}
<1> USE DEF LockInv, LockType
<1>1. \/ B' \subseteq B
      \/ \E t \in Threads : B' \subseteq B \union {t}
  <2>1. ASSUME NEW t \in Threads, NEW tb \in Tables, NEW a \in Actors, Reserve(t, tb, a)
        PROVE  B' \subseteq B \union {t}
    BY <2>1 DEF Reserve, Goto, Busy
  <2>2. ASSUME NEW t \in Threads, Submit(t) PROVE B' \subseteq B
    BY <2>2 DEF Submit, Charge, RejectOverBudget, Preflight, PostAccepted, PostRejected,
                PostAnswerLost, Swap, Refund, Drop, Return, Goto, Busy
  <2>3. ASSUME \/ Resolve \/ Midnight \/ GrantChanges \/ LatchExpires \/ UNCHANGED vars
               \/ \E r \in Runs : Poll(r) \/ PollError(r) \/ RunEnds(r)
        PROVE  B' \subseteq B
    BY <2>3 DEF Resolve, Midnight, GrantChanges, LatchExpires, Poll, PollError, RunEnds, vars,
                threadVars, Busy
  <2>4. ASSUME Restart PROVE B' \subseteq B
    BY <2>4 DEF Restart, Busy
  <2> QED BY <2>1, <2>2, <2>3, <2>4 DEF Next
<1>2. \/ Launched' \subseteq Launched
      \/ \E r \in Runs : Launched' \subseteq Launched \union {r}
  <2>1. ASSUME NEW t \in Threads, NEW r \in Runs, PostAccepted(t, r) \/ PostAnswerLost(t, r)
        PROVE  Launched' \subseteq Launched \union {r}
    BY <2>1 DEF PostAccepted, PostAnswerLost, Launch, Launched
  <2>2. CASE UNCHANGED runTable
    BY <2>2 DEF Launched
  <2> QED BY <2>1, <2>2 DEF Next, Submit, Resolve, Reserve, Charge, RejectOverBudget, Preflight,
             PostRejected, Swap, Refund, Drop, Poll, PollError, RunEnds, Midnight,
             GrantChanges, LatchExpires, Restart, vars, runVars
<1>3. IsFiniteSet(B')
  <2>1. \A x : IsFiniteSet(B \union {x})
    BY FS_AddElement DEF FinitelyMany
  <2> QED BY <1>1, <2>1, FS_Subset DEF FinitelyMany
<1>4. IsFiniteSet(Launched')
  <2>1. \A x : IsFiniteSet(Launched \union {x})
    BY FS_AddElement DEF FinitelyMany
  <2> QED BY <1>2, <2>1, FS_Subset DEF FinitelyMany
<1> QED BY <1>3, <1>4 DEF FinitelyMany

\* A step that leaves both sides and the counter alone keeps them equal.
LEMMA CountKept ==
    ASSUME BudgetExact, UNCHANGED <<buildsToday, strayed>>,
           BilledToday' = BilledToday, ChargedToday' = ChargedToday
    PROVE  BudgetExact'
BY DEF BudgetExact

\* A submission's charges stay known as long as its thread, its run and the counter's
\* day do.
LEMMA ChargesFollowStep ==
    ASSUME LockInv, BudgetType, RestType, ChargesFollow, [Next]_vars
    PROVE  ChargesFollow'
<1> USE DEF LockInv, LockType
<1>0. /\ budgetDay \in Int /\ today \in Int /\ budgetDay <= today /\ None \notin Runs
      /\ \A t \in Threads : chargeDay[t] \in Int
      /\ \A r \in Runs : runDay[r] \in Int
      /\ runDay \in [Runs -> 0..today] /\ chargeDay \in [Threads -> 0..today]
  <2>1. budgetDay \in Int /\ today \in Int /\ budgetDay <= today
    BY BuildAssumption DEF BudgetType
  <2>2. runDay \in [Runs -> 0..today] /\ chargeDay \in [Threads -> 0..today]
    BY DEF BudgetType, RestType
  <2> QED BY <2>1, <2>2, BuildAssumption
<1>1. ASSUME UNCHANGED <<run, chargeDay, runTable, runDay, orphans, budgetDay>>,
             \A t \in Threads : /\ pc'[t] = "launched" <=> pc[t] = "launched"
                                /\ pc'[t] \in Paying => pc[t] \in Paying
      PROVE  ChargesFollow'
  BY <1>1 DEF ChargesFollow, Launched
<1>2. ASSUME NEW t \in Threads, NEW tb \in Tables, NEW a \in Actors, Reserve(t, tb, a)
      PROVE  ChargesFollow'
  BY <1>1, <1>2 DEF Reserve, Goto, budgetVars, runVars, Paying
<1>3. ASSUME NEW t \in Threads, Charge(t) PROVE ChargesFollow'
  <2>1. /\ UNCHANGED <<run, runTable, runDay, orphans>> /\ budgetDay' = today
        /\ pc[t] = "reserved"
        /\ \/ pc' = [pc EXCEPT ![t] = "overBudget"] /\ chargeDay' = chargeDay
           \/ pc' = [pc EXCEPT ![t] = "charged"] /\ chargeDay' = [chargeDay EXCEPT ![t] = today]
    BY <1>3 DEF Charge, Goto, runVars
  <2>2. \A u \in Threads : u # t => pc'[u] = pc[u] /\ chargeDay'[u] = chargeDay[u]
    BY <1>0, <2>1
  <2>3. pc'[t] # "launched" /\ (pc'[t] \in Paying => chargeDay'[t] = today)
    BY <1>0, <2>1 DEF Paying
  <2> QED BY <1>0, <2>1, <2>2, <2>3 DEF ChargesFollow, Launched
<1>4. ASSUME NEW t \in Threads, Preflight(t) \/ PostRejected(t) \/ Refund(t) PROVE ChargesFollow'
  BY <1>1, <1>4 DEF Preflight, PostRejected, Refund, Goto, memVars, budgetVars, runVars, Paying
<1>5. ASSUME NEW t \in Threads, NEW r \in Runs, PostAccepted(t, r) \/ PostAnswerLost(t, r)
      PROVE  ChargesFollow'
  <2>1. /\ pc[t] = "preflighted" /\ r \notin Launched
        /\ runTable' = [runTable EXCEPT ![r] = table[t]]
        /\ runDay' = [runDay EXCEPT ![r] = chargeDay[t]]
        /\ UNCHANGED <<chargeDay, budgetDay>>
        /\ \/ /\ pc' = [pc EXCEPT ![t] = "launched"] /\ run' = [run EXCEPT ![t] = r]
              /\ orphans' = orphans
           \/ /\ pc' = [pc EXCEPT ![t] = "failed"] /\ run' = run
              /\ orphans' = orphans \union {r}
    BY <1>5 DEF PostAccepted, PostAnswerLost, Launch, Goto, memVars, budgetVars
  <2>2. table[t] # None /\ chargeDay[t] <= budgetDay
    BY <2>1 DEF BusyHasTable, Busy, ChargesFollow, Paying
  <2>3. /\ runDay'[r] = chargeDay[t]
        /\ \A q \in Runs : q # r => runDay'[q] = runDay[q] /\ runTable'[q] = runTable[q]
    BY <1>0, <2>1
  <2>4. Launched' = Launched \union {r}
    BY <2>1, <2>2 DEF Launched
  <2>5. \A u \in Threads : u # t => pc'[u] = pc[u] /\ run'[u] = run[u]
    BY <2>1
  <2>6. pc'[t] \in Paying /\ (pc'[t] # "launched" => run'[t] = None)
    BY <2>1 DEF ChargesFollow, Paying
  <2>7. pc'[t] = "launched" => run'[t] = r /\ orphans' = orphans
    BY <2>1
  <2>8. orphans' \subseteq orphans \union {r}
    BY <2>1
  <2>9. r \notin orphans /\ orphans \subseteq Launched
    BY <2>1 DEF ChargesFollow
  <2>10. orphans' \subseteq Launched'
    BY <2>4, <2>8, <2>9
  <2>11. \A q \in Launched' \ orphans' : runDay'[q] <= budgetDay'
    BY <2>1, <2>2, <2>3, <2>4, <2>8 DEF ChargesFollow, Launched
  <2>12. ASSUME NEW u \in Threads
         PROVE  /\ pc'[u] # "launched" => run'[u] = None
                /\ pc'[u] = "launched" =>
                      run'[u] \in Launched' \ orphans' /\ runDay'[run'[u]] = chargeDay'[u]
                /\ pc'[u] \in Paying => chargeDay'[u] <= budgetDay'
    <3>1. CASE u = t
      BY <2>1, <2>2, <2>3, <2>4, <2>6, <2>7, <2>9, <3>1
    <3>2. CASE u # t
      <4>1. pc'[u] = pc[u] /\ run'[u] = run[u] /\ chargeDay'[u] = chargeDay[u]
        BY <2>1, <2>5, <3>2
      <4>2. pc[u] = "launched" => run[u] # r /\ run[u] \in Runs
        BY <2>1 DEF ChargesFollow, Launched
      <4>3. pc[u] = "launched" =>
                run[u] \in Launched' \ orphans' /\ runDay'[run[u]] = chargeDay[u]
        BY <2>3, <2>4, <2>8, <4>2 DEF ChargesFollow
      <4> QED BY <2>1, <4>1, <4>3 DEF ChargesFollow
    <3> QED BY <3>1, <3>2
  <2> QED BY <2>10, <2>11, <2>12 DEF ChargesFollow
<1>6. ASSUME NEW t \in Threads, RejectOverBudget(t) \/ Swap(t) \/ Drop(t) PROVE ChargesFollow'
  <2>1. /\ pc' = [pc EXCEPT ![t] = "idle"] /\ run' = [run EXCEPT ![t] = None]
        /\ chargeDay' = [chargeDay EXCEPT ![t] = 0]
        /\ UNCHANGED <<runTable, runDay, orphans, budgetDay>>
    BY <1>6 DEF RejectOverBudget, Swap, Drop, Return, Goto, budgetVars, runVars
  <2>2. \A u \in Threads : u # t => /\ pc'[u] = pc[u] /\ run'[u] = run[u]
                                    /\ chargeDay'[u] = chargeDay[u]
    BY <1>0, <2>1
  <2>3. pc'[t] = "idle" /\ run'[t] = None
    BY <2>1
  <2> QED BY <2>1, <2>2, <2>3 DEF ChargesFollow, Launched, Paying
<1>7. ASSUME Restart PROVE ChargesFollow'
  <2>1. /\ \A t \in Threads : pc'[t] = "idle" /\ run'[t] = None
        /\ orphans' = orphans \union Launched /\ runTable' = runTable
    BY <1>7 DEF Restart, runVars
  <2>2. Launched' = Launched /\ orphans' = Launched'
    BY <2>1 DEF Launched, ChargesFollow
  <2> QED BY <2>1, <2>2 DEF ChargesFollow, Paying
<1>8. ASSUME \/ Resolve \/ Midnight \/ GrantChanges \/ LatchExpires \/ UNCHANGED vars
             \/ \E r \in Runs : Poll(r) \/ PollError(r) \/ RunEnds(r)
      PROVE  ChargesFollow'
  <2>1. UNCHANGED <<pc, run, chargeDay, runTable, runDay, orphans, budgetDay>>
    BY <1>8 DEF Resolve, Midnight, GrantChanges, LatchExpires, Poll, PollError, RunEnds, vars,
                memVars, budgetVars, threadVars, runVars
  <2> QED BY <1>1, <2>1
<1> QED BY <1>2, <1>3, <1>4, <1>5, <1>6, <1>7, <1>8 DEF Next, Submit

-----------------------------------------------------------------------------
\* Two submissions never hold one run's id: it was launched for both their tables.
LEMMA RunsApart ==
    ASSUME LockInv, NEW t \in Threads, NEW u \in Threads, t # u,
           pc[t] = "launched", pc[u] = "launched"
    PROVE  run[t] # run[u]
BY DEF LockInv, LaunchedIsOurs, ReservationOwned, Busy

\* A charge adds one to both sides; the first of a new day starts both anew.
LEMMA ChargeCounts ==
    ASSUME LockInv, BudgetType, RestType, BudgetInv, NEW t \in Threads, Charge(t)
    PROVE  BudgetExact'
<1>0. /\ budgetDay \in Int /\ today \in Int /\ budgetDay <= today
      /\ buildsToday \in Nat /\ MaxPerDay \in Nat
      /\ \A r \in Runs : runDay[r] \in Int
      /\ chargeDay \in [Threads -> 0..today] /\ pc \in [Threads -> Locations]
  <2>1. /\ budgetDay \in Int /\ today \in Int /\ budgetDay <= today
        /\ buildsToday \in Nat /\ MaxPerDay \in Nat
    BY BuildAssumption DEF BudgetType
  <2>2. \A r \in Runs : runDay[r] \in 0..today
    BY DEF RestType
  <2>3. chargeDay \in [Threads -> 0..today] /\ pc \in [Threads -> Locations]
    BY DEF BudgetType, LockInv, LockType
  <2> QED BY <2>1, <2>2, <2>3
<1>1. /\ pc[t] = "reserved" /\ budgetDay' = today /\ strayed' = (strayed /\ budgetDay = today)
      /\ UNCHANGED <<run, runTable, runDay, orphans>>
      /\ \/ /\ SpentToday >= MaxPerDay /\ pc' = [pc EXCEPT ![t] = "overBudget"]
            /\ chargeDay' = chargeDay /\ buildsToday' = SpentToday
         \/ /\ SpentToday < MaxPerDay /\ pc' = [pc EXCEPT ![t] = "charged"]
            /\ chargeDay' = [chargeDay EXCEPT ![t] = today] /\ buildsToday' = SpentToday + 1
  BY DEF Charge, Goto, runVars
<1>2. /\ \A u \in Threads : u # t => pc'[u] = pc[u] /\ chargeDay'[u] = chargeDay[u]
      /\ \A u \in Threads : Busy(u)' <=> Busy(u)
  BY <1>0, <1>1 DEF Busy
<1>3. Launched' = Launched
  BY <1>1 DEF Launched
<1>4. CASE budgetDay = today
  <2>1. BilledToday' = BilledToday
    BY <1>1, <1>2, <1>3, <1>4 DEF BilledToday
  <2>2. SpentToday = buildsToday
    BY <1>4 DEF SpentToday
  <2>3. t \notin ChargedToday
    BY <1>1 DEF ChargedToday
  <2>4. CASE buildsToday' = buildsToday /\ pc' = [pc EXCEPT ![t] = "overBudget"] /\ chargeDay' = chargeDay
    <3>1. ChargedToday' = ChargedToday
      BY <1>0, <1>1, <1>2, <1>4, <2>3, <2>4 DEF ChargedToday
    <3>2. strayed' <=> strayed
      BY <1>1, <1>4
    <3> QED BY <2>1, <2>4, <3>1, <3>2 DEF BudgetInv, BudgetExact
  <2>5. CASE /\ buildsToday' = buildsToday + 1 /\ pc' = [pc EXCEPT ![t] = "charged"]
             /\ chargeDay' = [chargeDay EXCEPT ![t] = today]
    <3>1. ChargedToday' = ChargedToday \union {t}
      BY <1>0, <1>1, <1>2, <1>4, <2>3, <2>5 DEF ChargedToday
    <3>2. Cardinality(ChargedToday') = Cardinality(ChargedToday) + 1
      BY <2>3, <3>1, CountsAreNumbers, FS_AddElement DEF BudgetInv
    <3>3. strayed' <=> strayed
      BY <1>1, <1>4
    <3>4. Cardinality(BilledToday) \in Nat /\ Cardinality(ChargedToday) \in Nat
      BY CountsAreNumbers DEF BudgetInv
    <3> QED BY <1>0, <2>1, <2>5, <3>2, <3>3, <3>4 DEF BudgetInv, BudgetExact
  <2> QED BY <1>1, <2>2, <2>4, <2>5
<1>5. CASE budgetDay # today
  <2>1. BilledToday' = {}
    BY <1>0, <1>1, <1>3, <1>5 DEF BilledToday, BudgetInv, ChargesFollow, Launched
  <2>2. SpentToday = 0
    BY <1>5 DEF SpentToday
  <2>3. \A u \in Threads : pc[u] \in Paying => chargeDay[u] # today
    BY <1>0, <1>5 DEF BudgetInv, ChargesFollow
  <2>4. CASE buildsToday' = 0 /\ pc' = [pc EXCEPT ![t] = "overBudget"] /\ chargeDay' = chargeDay
    <3>1. ChargedToday' = {}
      BY <1>0, <1>1, <1>2, <2>3, <2>4 DEF ChargedToday, Paying
    <3> QED BY <2>1, <2>4, <3>1, FS_EmptySet DEF BudgetExact
  <2>5. CASE /\ buildsToday' = 1 /\ pc' = [pc EXCEPT ![t] = "charged"]
             /\ chargeDay' = [chargeDay EXCEPT ![t] = today]
    <3>1. ChargedToday' = {t}
      BY <1>0, <1>1, <1>2, <2>3, <2>5 DEF ChargedToday, Paying
    <3>2. Cardinality({t}) = 1
      BY FS_Singleton
    <3> QED BY <2>1, <2>5, <3>1, <3>2, FS_EmptySet DEF BudgetExact
  <2> QED BY <1>1, <2>2, <2>4, <2>5
<1> QED BY <1>4, <1>5

\* A refund takes one off both sides, or off the counter alone if it strays.
LEMMA RefundCounts ==
    ASSUME LockInv, BudgetType, BudgetInv, NEW t \in Threads, Refund(t)
    PROVE  BudgetExact'
<1>0. buildsToday \in Nat /\ pc \in [Threads -> Locations]
  BY BuildAssumption DEF BudgetType, LockInv, LockType
<1>1. /\ pc[t] = "failed" /\ pc' = [pc EXCEPT ![t] = "refunded"]
      /\ buildsToday' = IF buildsToday > 0 THEN buildsToday - 1 ELSE 0
      /\ strayed' = (strayed \/ chargeDay[t] # budgetDay)
      /\ UNCHANGED <<budgetDay, run, chargeDay, runTable, runDay, orphans>>
  BY DEF Refund, Goto, runVars
<1>2. BilledToday' = BilledToday
  BY <1>0, <1>1 DEF BilledToday, Launched, Busy
<1>3. /\ Cardinality(BilledToday) \in Nat /\ Cardinality(ChargedToday) \in Nat
      /\ IsFiniteSet(ChargedToday)
  BY CountsAreNumbers DEF BudgetInv
<1>4. CASE chargeDay[t] = budgetDay
  <2>1. t \in ChargedToday /\ ChargedToday' = ChargedToday \ {t}
    BY <1>0, <1>1, <1>4 DEF ChargedToday
  <2>2. Cardinality(ChargedToday') = Cardinality(ChargedToday) - 1
    BY <1>3, <2>1, FS_RemoveElement
  <2>3. Cardinality(ChargedToday') \in Nat
    BY <1>3, <2>1, FS_RemoveElement, FS_CardinalityType
  <2>4. strayed' <=> strayed
    BY <1>1, <1>4
  <2> QED BY <1>0, <1>1, <1>2, <1>3, <2>2, <2>3, <2>4 DEF BudgetInv, BudgetExact
<1>5. CASE chargeDay[t] # budgetDay
  <2>1. ChargedToday' = ChargedToday
    BY <1>0, <1>1, <1>5 DEF ChargedToday
  <2>2. strayed'
    BY <1>1, <1>5
  <2> QED BY <1>0, <1>1, <1>2, <1>3, <2>1, <2>2 DEF BudgetInv, BudgetExact
<1> QED BY <1>4, <1>5

\* The swap moves a charge from the submission to its run.
LEMMA SwapCounts ==
    ASSUME LockInv, BudgetType, BudgetInv, NEW t \in Threads, Swap(t)
    PROVE  BudgetExact'
<1> DEFINE q == run[t]
<1>0. pc \in [Threads -> Locations] /\ run \in [Threads -> Runs \union {None}]
      /\ chargeDay \in [Threads -> 0..today]
  BY DEF LockInv, LockType, BudgetType
<1>1. /\ pc[t] = "launched" /\ pc' = [pc EXCEPT ![t] = "idle"]
      /\ run' = [run EXCEPT ![t] = None] /\ chargeDay' = [chargeDay EXCEPT ![t] = 0]
      /\ UNCHANGED <<buildsToday, strayed, budgetDay, runTable, runDay, orphans>>
  BY DEF Swap, Return, Goto, budgetVars, runVars
<1>2. q \in Launched \ orphans /\ runDay[q] = chargeDay[t] /\ q \in Runs
  BY <1>1 DEF BudgetInv, ChargesFollow, Launched
<1>3. \A u \in Threads : u # t => pc'[u] = pc[u] /\ run'[u] = run[u] /\ chargeDay'[u] = chargeDay[u]
  BY <1>0, <1>1
<1>4. \A u \in Threads : u # t /\ Busy(u) => run[u] # q
  <2>1. ASSUME NEW u \in Threads, u # t, pc[u] = "launched" PROVE run[u] # q
    BY <1>1, <2>1, RunsApart
  <2>2. ASSUME NEW u \in Threads, pc[u] # "launched" PROVE run[u] # q
    BY <1>2, <2>2, BuildAssumption DEF BudgetInv, ChargesFollow
  <2> QED BY <2>1, <2>2
<1>5. /\ Cardinality(BilledToday) \in Nat /\ Cardinality(ChargedToday) \in Nat
      /\ IsFiniteSet(BilledToday) /\ IsFiniteSet(ChargedToday)
  BY CountsAreNumbers DEF BudgetInv
<1>6. Launched' = Launched /\ pc'[t] = "idle"
  BY <1>0, <1>1 DEF Launched
<1>7. CASE chargeDay[t] = budgetDay
  <2>1. t \in ChargedToday /\ ChargedToday' = ChargedToday \ {t}
    BY <1>1, <1>3, <1>6, <1>7 DEF ChargedToday
  <2>2. q \notin BilledToday
    BY <1>1 DEF BilledToday, Busy
  <2>3. BilledToday' = BilledToday \union {q}
    <3>1. q \in BilledToday'
      BY <1>1, <1>2, <1>3, <1>4, <1>6, <1>7 DEF BilledToday, Busy
    <3>2. ASSUME NEW r \in BilledToday PROVE r \in BilledToday'
      BY <1>1, <1>3, <1>6, <3>2 DEF BilledToday, Busy
    <3>3. ASSUME NEW r \in BilledToday', r # q PROVE r \in BilledToday
      BY <1>1, <1>3, <1>6, <3>3 DEF BilledToday, Busy
    <3> QED BY <3>1, <3>2, <3>3
  <2>4. /\ Cardinality(ChargedToday') = Cardinality(ChargedToday) - 1
        /\ Cardinality(BilledToday') = Cardinality(BilledToday) + 1
    BY <1>5, <2>1, <2>2, <2>3, FS_RemoveElement, FS_AddElement
  <2> QED BY <1>1, <1>5, <2>4 DEF BudgetInv, BudgetExact
<1>8. CASE chargeDay[t] # budgetDay
  <2>1. ChargedToday' = ChargedToday
    BY <1>1, <1>3, <1>6, <1>8 DEF ChargedToday
  <2>2. BilledToday' = BilledToday
    BY <1>1, <1>2, <1>3, <1>6, <1>8 DEF BilledToday, Busy
  <2> QED BY <1>1, <2>1, <2>2, CountKept DEF BudgetInv
<1> QED BY <1>7, <1>8

\* The other actions leave both sides alone.
LEMMA OtherCounts ==
    ASSUME LockInv, BudgetType, BudgetInv, [Next]_vars,
           \A t \in Threads : ~ Charge(t) /\ ~ Refund(t) /\ ~ Swap(t), ~ Restart
    PROVE  BudgetExact'
<1>0. pc \in [Threads -> Locations] /\ run \in [Threads -> Runs \union {None}]
      /\ chargeDay \in [Threads -> 0..today]
      /\ \A t \in Threads : pc[t] # "launched" => run[t] = None
  BY DEF LockInv, LockType, BudgetType, BudgetInv, ChargesFollow
<1>1. ASSUME NEW t \in Threads, pc[t] # "launched", pc'[t] # "launched",
             pc[t] \in Paying <=> pc'[t] \in Paying,
             pc[t] \in Paying => chargeDay'[t] = chargeDay[t],
             run'[t] = None,
             \A u \in Threads : u # t => /\ pc'[u] = pc[u] /\ run'[u] = run[u]
                                         /\ chargeDay'[u] = chargeDay[u],
             UNCHANGED <<budgetVars, runTable, runDay, orphans>>
      PROVE  BudgetExact'
  <2>1. BilledToday' = BilledToday
    BY <1>0, <1>1, BuildAssumption DEF BilledToday, Launched, Busy, budgetVars
  <2>2. ChargedToday' = ChargedToday
    BY <1>1 DEF ChargedToday, Paying, budgetVars
  <2> QED BY <1>1, <2>1, <2>2, CountKept DEF BudgetInv, budgetVars
<1>2. ASSUME NEW t \in Threads, NEW tb \in Tables, NEW a \in Actors, Reserve(t, tb, a)
      PROVE  BudgetExact'
  <2>1. /\ pc[t] = "idle" /\ pc' = [pc EXCEPT ![t] = "reserved"]
        /\ UNCHANGED <<budgetVars, run, chargeDay, runTable, runDay, orphans>>
    BY <1>2 DEF Reserve, Goto, runVars
  <2> QED BY <1>0, <1>1, <2>1 DEF Paying
<1>3. ASSUME NEW t \in Threads, Preflight(t) \/ PostRejected(t) PROVE BudgetExact'
  <2>1. /\ pc[t] \in {"charged", "preflighted"}
        /\ \E to \in {"preflighted", "failed"} : pc' = [pc EXCEPT ![t] = to]
        /\ UNCHANGED <<budgetVars, run, chargeDay, runTable, runDay, orphans>>
    BY <1>3 DEF Preflight, PostRejected, Goto, memVars, runVars
  <2> QED BY <1>0, <1>1, <2>1 DEF Paying
<1>4. ASSUME NEW t \in Threads, RejectOverBudget(t) \/ Drop(t) PROVE BudgetExact'
  <2>1. /\ pc[t] \in {"overBudget", "refunded"} /\ pc' = [pc EXCEPT ![t] = "idle"]
        /\ run' = [run EXCEPT ![t] = None] /\ chargeDay' = [chargeDay EXCEPT ![t] = 0]
        /\ UNCHANGED <<budgetVars, runTable, runDay, orphans>>
    BY <1>4 DEF RejectOverBudget, Drop, Return, Goto, runVars
  <2> QED BY <1>0, <1>1, <2>1 DEF Paying
<1>5. ASSUME NEW t \in Threads, NEW r \in Runs, PostAccepted(t, r) \/ PostAnswerLost(t, r)
      PROVE  BudgetExact'
  <2>1. /\ pc[t] = "preflighted" /\ r \notin Launched
        /\ runTable' = [runTable EXCEPT ![r] = table[t]]
        /\ runDay' = [runDay EXCEPT ![r] = chargeDay[t]]
        /\ UNCHANGED <<chargeDay, budgetVars>>
        /\ \/ /\ pc' = [pc EXCEPT ![t] = "launched"] /\ run' = [run EXCEPT ![t] = r]
              /\ orphans' = orphans
           \/ /\ pc' = [pc EXCEPT ![t] = "failed"] /\ run' = run
              /\ orphans' = orphans \union {r}
    BY <1>5 DEF PostAccepted, PostAnswerLost, Launch, Goto, memVars
  <2>2. \A q \in Runs : q # r => runDay'[q] = runDay[q] /\ runTable'[q] = runTable[q]
    BY <2>1 DEF LockInv, LockType
  <2>3. \A u \in Threads : u # t => pc'[u] = pc[u] /\ run'[u] = run[u]
    BY <1>0, <2>1
  <2>4. pc'[t] \in {"launched", "failed"} /\ (pc'[t] = "launched" => run'[t] = r)
        /\ (pc'[t] = "failed" => run'[t] = None /\ r \in orphans')
    BY <1>0, <2>1
  <2>5. ChargedToday' = ChargedToday
    BY <2>1, <2>3, <2>4 DEF ChargedToday, budgetVars
  <2>6. r \notin BilledToday' /\ r \notin BilledToday
    BY <2>1, <2>4 DEF BilledToday, Busy
  <2>7. \A q \in Runs : q # r => (q \in BilledToday' <=> q \in BilledToday)
    <3> SUFFICES ASSUME NEW q \in Runs, q # r PROVE q \in BilledToday' <=> q \in BilledToday
      OBVIOUS
    <3>1. /\ q \in Launched' <=> q \in Launched
          /\ q \in orphans' <=> q \in orphans
          /\ runDay'[q] = budgetDay' <=> runDay[q] = budgetDay
      BY <2>1, <2>2 DEF Launched, budgetVars
    <3>2. run[t] # q /\ run'[t] # q
      BY <1>0, <2>1, <2>4, BuildAssumption
    <3>3. \A u \in Threads : u # t => ((Busy(u) => run[u] # q) <=> (Busy(u)' => run'[u] # q))
      BY <2>3 DEF Busy
    <3> QED BY <3>1, <3>2, <3>3 DEF BilledToday
  <2>8. BilledToday \subseteq Runs /\ BilledToday' \subseteq Runs
    BY DEF BilledToday, Launched
  <2>9. BilledToday' = BilledToday
    BY <2>6, <2>7, <2>8
  <2> QED BY <2>1, <2>5, <2>9, CountKept DEF BudgetInv, budgetVars
<1>6. ASSUME \/ Resolve \/ Midnight \/ GrantChanges \/ LatchExpires \/ UNCHANGED vars
             \/ \E r \in Runs : Poll(r) \/ PollError(r) \/ RunEnds(r)
      PROVE  BudgetExact'
  <2>1. UNCHANGED <<pc, run, chargeDay, runTable, runDay, orphans, buildsToday, budgetDay, strayed>>
    BY <1>6 DEF Resolve, Midnight, GrantChanges, LatchExpires, Poll, PollError, RunEnds, vars,
                memVars, budgetVars, threadVars, runVars
  <2>2. BilledToday' = BilledToday /\ ChargedToday' = ChargedToday
    BY <2>1 DEF BilledToday, ChargedToday, Launched, Busy
  <2> QED BY <2>1, <2>2, CountKept DEF BudgetInv
<1> QED BY <1>2, <1>3, <1>4, <1>5, <1>6 DEF Next, Submit

\* A restart forgets the counter, the submissions and which runs it launched.
LEMMA RestartCounts ==
    ASSUME LockInv, BudgetInv, Restart
    PROVE  BudgetExact'
<1>1. /\ \A t \in Threads : pc'[t] = "idle"
      /\ orphans' = orphans \union Launched /\ runTable' = runTable /\ buildsToday' = 0
  BY DEF Restart, runVars
<1>2. BilledToday' = {} /\ ChargedToday' = {}
  BY <1>1 DEF BilledToday, ChargedToday, Launched
<1> QED BY <1>1, <1>2, FS_EmptySet DEF BudgetExact

\* The daily counter equals what it stands for, along every failure path and for any
\* number of submissions, except that a refund that strays into the next day makes it
\* show too little until that day ends.
THEOREM BudgetIsExact == Spec => []BudgetExact
<1>1. Init => BudgetInv
  <2> SUFFICES ASSUME Init PROVE BudgetInv
    OBVIOUS
  <2>1. {t \in Threads : Busy(t)} = {} /\ Launched = {}
    BY DEF Init, Busy, Launched
  <2>2. BilledToday = {} /\ ChargedToday = {}
    BY <2>1 DEF BilledToday, ChargedToday, Busy
  <2>3. FinitelyMany
    BY <2>1, FS_EmptySet DEF FinitelyMany
  <2>4. ChargesFollow
    BY <2>1 DEF Init, ChargesFollow, Paying
  <2>5. BudgetExact
    BY <2>2, FS_EmptySet DEF Init, BudgetExact
  <2> QED BY <2>3, <2>4, <2>5 DEF BudgetInv
<1>2. BuildInv /\ BudgetInv /\ [Next]_vars => BudgetInv'
  <2> SUFFICES ASSUME BuildInv, BudgetInv, [Next]_vars PROVE BudgetInv'
    OBVIOUS
  <2>1. LockInv /\ BudgetType /\ RestType
    BY DEF BuildInv
  <2>2. FinitelyMany' /\ ChargesFollow'
    BY <2>1, FinitelyManyStep, ChargesFollowStep DEF BudgetInv
  <2>3. BudgetExact'
    BY <2>1, ChargeCounts, RefundCounts, SwapCounts, OtherCounts, RestartCounts
  <2> QED BY <2>2, <2>3 DEF BudgetInv
<1>3. BudgetInv => BudgetExact
  BY DEF BudgetInv
<1> QED BY <1>1, <1>2, <1>3, BuildInvariant, PTL DEF Spec

=============================================================================
