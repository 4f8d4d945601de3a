----------------------------- MODULE BuildService -----------------------------
(***************************************************************************)
(* backend/build_service.py: submitting serverless lineage builds under a    *)
(* per-table lock, an in-flight ceiling and a daily budget, and polling them. *)
(*                                                                          *)
(* submit_build_job runs in worker threads; between its critical sections    *)
(* (_build_lock, _budget_lock) it makes two remote calls, the preflight and  *)
(* the runs/submit POST, so other submissions, polls, midnight, the end of a  *)
(* run or a restart of the process can fall between any two of its steps.    *)
(* A submission that is rejected under _build_lock (table locked, too many in *)
(* flight, not configured) changes nothing and is no action.                 *)
(***************************************************************************)
EXTENDS Integers, Sequences, FiniteSets

CONSTANTS
    Threads,      \* worker threads serving POST /api/transform/build
    Tables,       \* fully qualified table names
    Actors,       \* submitting admins
    Runs,         \* run ids the jobs service can hand out (bound on launches)
    MaxInFlight,  \* MAX_BUILDS_IN_FLIGHT
    MaxPerDay,    \* MAX_BUILDS_PER_DAY
    LogMax,       \* _BUILD_LOG_MAX
    LastDay,      \* bound: days that pass
    MaxRestarts,  \* bound: restarts of the process
    None,         \* no value
    Reserved      \* _BUILD_RESERVED

ASSUME BuildAssumption ==
    /\ IsFiniteSet(Tables)
    /\ MaxInFlight \in Nat /\ MaxPerDay \in Nat /\ LogMax \in Nat \ {0}
    /\ LastDay \in Nat \ {0} /\ MaxRestarts \in Nat
    /\ None \notin Runs \union Tables \union Actors
    /\ Reserved \notin Runs /\ None # Reserved

VARIABLES
    path,         \* _pipeline_notebook_path_cache: "unresolved", "" or "set"
    readable,     \* the app's service principal can see the notebook (external)
    latched,      \* _source_access_ok_until has not passed
    locks,        \* _build_locks, None where a table has no entry
    buildsToday,  \* _builds_today
    budgetDay,    \* _budget_day, 0 for ""
    strayed,      \* history: a refund of another day's charge hit today's counter
    today,        \* the calendar day
    submitters,   \* _build_submitters
    pc, table, actor, run, chargeDay,    \* each thread's submission
    runTable, runActor, runDay,          \* what each launched run was launched for
    active,       \* the runs the jobs service is executing (external)
    orphans,      \* launched runs whose id no process ever recorded, or has lost
    watching,     \* runs a browser is polling
    gaveUp,       \* runs whose browser stopped polling before it saw the run end
    restarts

budgetVars == <<buildsToday, budgetDay, strayed>>
memVars == <<path, latched, locks, budgetVars, submitters>>
threadVars == <<pc, table, actor, run, chargeDay>>
runVars == <<runTable, runActor, runDay>>
clientVars == <<watching, gaveUp>>
vars == <<path, readable, latched, locks, budgetVars, today, submitters,
          pc, table, actor, run, chargeDay, runTable, runActor, runDay,
          active, orphans, watching, gaveUp, restarts>>

Locations == {"idle", "reserved", "overBudget", "charged", "preflighted",
              "launched", "failed", "refunded"}

Submission == [actor : Actors, table : Tables]

TypeOK ==
    /\ path \in {"unresolved", "", "set"}
    /\ readable \in BOOLEAN /\ latched \in BOOLEAN
    /\ locks \in [Tables -> Runs \union {None, Reserved}]
    /\ buildsToday \in 0..MaxPerDay
    /\ today \in 1..LastDay /\ budgetDay \in 0..today /\ strayed \in BOOLEAN
    /\ submitters \in Seq(Submission) /\ Len(submitters) <= LogMax
    /\ pc \in [Threads -> Locations]
    /\ table \in [Threads -> Tables \union {None}]
    /\ actor \in [Threads -> Actors \union {None}]
    /\ run \in [Threads -> Runs \union {None}]
    /\ chargeDay \in [Threads -> 0..today]
    /\ runTable \in [Runs -> Tables \union {None}]
    /\ runActor \in [Runs -> Actors \union {None}]
    /\ runDay \in [Runs -> 0..today]
    /\ active \in SUBSET Runs /\ orphans \in SUBSET Runs /\ watching \in SUBSET Runs
    /\ gaveUp \in SUBSET Runs
    /\ restarts \in 0..MaxRestarts

Init ==
    /\ path = "unresolved" /\ latched = FALSE
    /\ locks = [tb \in Tables |-> None]
    /\ buildsToday = 0 /\ budgetDay = 0 /\ strayed = FALSE /\ submitters = <<>>
    /\ pc = [t \in Threads |-> "idle"]
    /\ table = [t \in Threads |-> None]
    /\ actor = [t \in Threads |-> None]
    /\ run = [t \in Threads |-> None]
    /\ chargeDay = [t \in Threads |-> 0]
    /\ readable \in BOOLEAN
    /\ today = 1
    /\ runTable = [r \in Runs |-> None]
    /\ runActor = [r \in Runs |-> None]
    /\ runDay = [r \in Runs |-> 0]
    /\ active = {} /\ orphans = {} /\ watching = {} /\ gaveUp = {}
    /\ restarts = 0

-----------------------------------------------------------------------------
Locked == {tb \in Tables : locks[tb] # None}
Launched == {r \in Runs : runTable[r] # None}

Goto(t, from, to) == pc[t] = from /\ pc' = [pc EXCEPT ![t] = to]

\* The submission is over; its locals are gone.
Return(t, from) ==
    /\ Goto(t, from, "idle")
    /\ table' = [table EXCEPT ![t] = None]
    /\ actor' = [actor EXCEPT ![t] = None]
    /\ run' = [run EXCEPT ![t] = None]
    /\ chargeDay' = [chargeDay EXCEPT ![t] = 0]

\* get_pipeline_notebook_path: resolved once, under _pipeline_path_lock; a failed
\* discovery is cached as "" just like a successful one.
Resolve ==
    /\ path = "unresolved"
    /\ path' \in {"", "set"}
    /\ UNCHANGED <<readable, latched, locks, budgetVars, today, submitters,
                   threadVars, runVars, active, orphans, clientVars, restarts>>

\* Mutants: an over-budget rejection that keeps its reservation; a preflight that waits for the grant; a refund without its guard, and
\* none at all; a poll that releases a run still executing, and one that never does.
RejectKeepsReservation(t) ==
    /\ Return(t, "overBudget")
    /\ UNCHANGED <<memVars, readable, today, runVars, active, orphans, clientVars, restarts>>
PreflightWaits(t) ==
    /\ latched \/ readable
    /\ Goto(t, "charged", "preflighted")
    /\ latched' = TRUE
    /\ UNCHANGED <<path, readable, locks, budgetVars, today, submitters, table,
                   actor, run, chargeDay, runVars, active, orphans, clientVars, restarts>>
RefundUnguarded(t) ==
    /\ Goto(t, "failed", "refunded")
    /\ buildsToday' = buildsToday - 1
    /\ strayed' = (strayed \/ chargeDay[t] # budgetDay)
    /\ UNCHANGED <<path, readable, latched, locks, budgetDay, today, submitters, table, actor,
                   run, chargeDay, runVars, active, orphans, clientVars, restarts>>
RefundNothing(t) ==
    /\ Goto(t, "failed", "refunded")
    /\ UNCHANGED <<memVars, readable, today, table, actor, run, chargeDay, runVars,
                   active, orphans, clientVars, restarts>>
PollReleasesRunning(r) ==
    /\ r \in Launched
    /\ locks' = [tb \in Tables |-> IF locks[tb] = r THEN None ELSE locks[tb]]
    /\ watching' = watching \ {r}
    /\ UNCHANGED <<gaveUp, path, readable, latched, budgetVars, today, submitters,
                   threadVars, runVars, active, orphans, restarts>>
PollReleasesNothing(r) ==
    /\ r \in Launched \ active
    /\ watching' = watching \ {r}
    /\ UNCHANGED <<gaveUp, memVars, readable, today, threadVars, runVars, active, orphans,
                   restarts>>

\* submit_build_job, first critical section: check and reserve together.
Reserve(t, tb, a) ==
    /\ path = "set"
    /\ locks[tb] = None
    /\ Cardinality(Locked) < MaxInFlight
    /\ locks' = [locks EXCEPT ![tb] = Reserved]
    /\ Goto(t, "idle", "reserved")
    /\ table' = [table EXCEPT ![t] = tb]
    /\ actor' = [actor EXCEPT ![t] = a]
    /\ UNCHANGED <<path, readable, latched, budgetVars, today, submitters, run,
                   chargeDay, runVars, active, orphans, clientVars, restarts>>

\* The counter as _reserve_budget sees it, after the roll-over to a new day.
SpentToday == IF budgetDay = today THEN buildsToday ELSE 0

\* The log after append and `del _build_submitters[:-_BUILD_LOG_MAX]`.
Logged(e) ==
    IF Len(submitters) >= LogMax THEN Append(Tail(submitters), e) ELSE Append(submitters, e)

\* _reserve_budget.
Charge(t) ==
    /\ pc[t] = "reserved"
    /\ budgetDay' = today
    /\ strayed' = (strayed /\ budgetDay = today)
    /\ \/ /\ SpentToday >= MaxPerDay
          /\ Goto(t, "reserved", "overBudget")
          /\ buildsToday' = SpentToday
          /\ UNCHANGED <<submitters, chargeDay>>
       \/ /\ SpentToday < MaxPerDay
          /\ Goto(t, "reserved", "charged")
          /\ buildsToday' = SpentToday + 1
          /\ submitters' = Logged([actor |-> actor[t], table |-> table[t]])
          /\ chargeDay' = [chargeDay EXCEPT ![t] = today]
    /\ UNCHANGED <<path, readable, latched, locks, today, table, actor, run,
                   runVars, active, orphans, clientVars, restarts>>

\* The two places that give up a reservation clear only the placeholder.
DropReservation(tb) ==
    locks' = IF locks[tb] = Reserved THEN [locks EXCEPT ![tb] = None] ELSE locks

\* `except BuildBudgetError`.
RejectOverBudget(t) ==
    /\ Return(t, "overBudget")
    /\ DropReservation(table[t])
    /\ UNCHANGED <<path, readable, latched, budgetVars, today, submitters,
                   runVars, active, orphans, clientVars, restarts>>

\* _assert_source_readable: a latched success is trusted, otherwise probe.
Preflight(t) ==
    /\ \/ latched /\ Goto(t, "charged", "preflighted") /\ UNCHANGED latched
       \/ ~latched /\ readable /\ Goto(t, "charged", "preflighted") /\ latched' = TRUE
       \/ ~latched /\ ~readable /\ Goto(t, "charged", "failed") /\ UNCHANGED latched
    /\ UNCHANGED <<path, readable, locks, budgetVars, today, submitters, table,
                   actor, run, chargeDay, runVars, active, orphans, clientVars, restarts>>

\* The jobs service (external) accepts the POST and starts run r for t's table.
Launch(t, r) ==
    /\ r \notin Launched
    /\ runTable' = [runTable EXCEPT ![r] = table[t]]
    /\ runActor' = [runActor EXCEPT ![r] = actor[t]]
    /\ runDay' = [runDay EXCEPT ![r] = chargeDay[t]]
    /\ active' = active \union {r}

\* The POST is answered with a run id.
PostAccepted(t, r) ==
    /\ Goto(t, "preflighted", "launched")
    /\ Launch(t, r)
    /\ run' = [run EXCEPT ![t] = r]
    /\ UNCHANGED <<memVars, readable, today, table, actor, chargeDay, orphans, clientVars, restarts>>

\* The POST is refused, or never arrives.
PostRejected(t) ==
    /\ Goto(t, "preflighted", "failed")
    /\ UNCHANGED <<memVars, readable, today, table, actor, run, chargeDay, runVars,
                   active, orphans, clientVars, restarts>>

\* The POST starts a run, but its answer does not come within the 30 s timeout.
PostAnswerLost(t, r) ==
    /\ Goto(t, "preflighted", "failed")
    /\ Launch(t, r)
    /\ orphans' = orphans \union {r}
    /\ UNCHANGED <<memVars, readable, today, table, actor, run, chargeDay, clientVars, restarts>>

\* The reservation is swapped for the run id, which is returned to the browser.
Swap(t) ==
    /\ Return(t, "launched")
    /\ locks' = [locks EXCEPT ![table[t]] = run[t]]
    /\ watching' = watching \union {run[t]}
    /\ UNCHANGED <<gaveUp, path, readable, latched, budgetVars, today, submitters,
                   runVars, active, orphans, restarts>>

\* `except BaseException`, first part: _refund_budget.
Refund(t) ==
    /\ Goto(t, "failed", "refunded")
    /\ buildsToday' = IF buildsToday > 0 THEN buildsToday - 1 ELSE 0
    /\ submitters' = IF submitters = <<>> THEN <<>>
                     ELSE SubSeq(submitters, 1, Len(submitters) - 1)
    /\ strayed' = (strayed \/ chargeDay[t] # budgetDay)
    /\ UNCHANGED <<path, readable, latched, locks, budgetDay, today, table, actor, run, chargeDay,
                   runVars, active, orphans, clientVars, restarts>>

\* `except BaseException`, second part.
Drop(t) ==
    /\ Return(t, "refunded")
    /\ DropReservation(table[t])
    /\ UNCHANGED <<path, readable, latched, budgetVars, today, submitters,
                   runVars, active, orphans, clientVars, restarts>>

-----------------------------------------------------------------------------
\* get_build_status on a run in a terminal state releases every lock that holds
\* its id; on a run still executing it changes nothing.  Any client may ask for
\* any run id; a browser that was watching the run stops.  (The state is read
\* before _build_lock is taken; a terminal state never changes, so the two are one
\* step.)
Poll(r) ==
    /\ r \in Launched \ active
    /\ locks' = [tb \in Tables |-> IF locks[tb] = r THEN None ELSE locks[tb]]
    /\ watching' = watching \ {r}
    /\ UNCHANGED <<gaveUp, path, readable, latched, budgetVars, today, submitters,
                   threadVars, runVars, active, orphans, restarts>>

\* A poll that raises is answered with is_complete = True and releases nothing,
\* and the browser stops polling (as it does when its panel is closed).
PollError(r) ==
    /\ r \in watching
    /\ watching' = watching \ {r}
    /\ gaveUp' = gaveUp \union {r}
    /\ UNCHANGED <<memVars, readable, today, threadVars, runVars, active, orphans, restarts>>

\* The environment: a run ends, midnight, a grant is given or revoked, the
\* reachability latch expires.
RunEnds(r) ==
    /\ r \in active
    /\ active' = active \ {r}
    /\ UNCHANGED <<memVars, readable, today, threadVars, runVars, orphans, clientVars, restarts>>

Midnight ==
    /\ today < LastDay
    /\ today' = today + 1
    /\ UNCHANGED <<memVars, readable, threadVars, runVars, active, orphans, clientVars, restarts>>

GrantChanges ==
    /\ readable' = ~readable
    /\ UNCHANGED <<memVars, today, threadVars, runVars, active, orphans, clientVars, restarts>>

LatchExpires ==
    /\ latched
    /\ latched' = FALSE
    /\ UNCHANGED <<path, readable, locks, budgetVars, today, submitters,
                   threadVars, runVars, active, orphans, clientVars, restarts>>

\* The process restarts: nothing of this module's state is persisted, while the
\* jobs it launched run on.
Restart ==
    /\ restarts < MaxRestarts
    /\ restarts' = restarts + 1
    /\ path' = "unresolved" /\ latched' = FALSE
    /\ locks' = [tb \in Tables |-> None]
    /\ buildsToday' = 0 /\ budgetDay' = 0 /\ strayed' = FALSE /\ submitters' = <<>>
    /\ pc' = [t \in Threads |-> "idle"]
    /\ table' = [t \in Threads |-> None]
    /\ actor' = [t \in Threads |-> None]
    /\ run' = [t \in Threads |-> None]
    /\ chargeDay' = [t \in Threads |-> 0]
    /\ orphans' = orphans \union Launched
    /\ UNCHANGED <<readable, today, runVars, active, clientVars>>

Submit(t) ==
    \/ Charge(t)
    \/ RejectOverBudget(t)
    \/ Preflight(t)
    \/ PostRejected(t)
    \/ \E r \in Runs : PostAccepted(t, r) \/ PostAnswerLost(t, r)
    \/ Swap(t)
    \/ Refund(t)
    \/ Drop(t)

Next ==
    \/ Resolve
    \/ \E t \in Threads : (\E tb \in Tables, a \in Actors : Reserve(t, tb, a)) \/ Submit(t)
    \/ \E r \in Runs : Poll(r) \/ PollError(r) \/ RunEnds(r)
    \/ Midnight
    \/ GrantChanges
    \/ LatchExpires
    \/ Restart

Spec == Init /\ [][Next]_vars

\* A submission runs to its end (every remote call has a timeout), a job ends,
\* and a browser that is watching a run polls it again.
Fairness ==
    /\ \A t \in Threads : WF_vars(Submit(t))
    /\ \A r \in Runs : WF_vars(RunEnds(r)) /\ WF_vars(r \in watching /\ Poll(r))

FairSpec == Spec /\ Fairness

-----------------------------------------------------------------------------
Busy(t) == pc[t] # "idle"

\* Every reservation belongs to exactly one submission under way, and every
\* submission under way still holds its reservation: no failure path leaks the
\* placeholder (which only a restart would clear) or frees another one's.
ReservationOwned ==
    /\ \A tb \in Tables :
          locks[tb] = Reserved <=> \E t \in Threads : Busy(t) /\ table[t] = tb
    /\ \A t, u \in Threads : Busy(t) /\ Busy(u) /\ table[t] = table[u] => t = u

\* A12: an executing run whose id this process knows keeps its table locked until
\* it ends, so that two of them are never for the same table, even though the
\* check and the recording of the run id are two remote calls apart.
KnownRunsExclusive ==
    /\ \A r \in active \ orphans :
          \/ locks[runTable[r]] = r
          \/ \E t \in Threads : pc[t] = "launched" /\ run[t] = r /\ table[t] = runTable[r]
    /\ \A r, s \in active \ orphans : runTable[r] = runTable[s] => r = s

\* MAX_BUILDS_IN_FLIGHT: reservations and recorded runs together never exceed the
\* ceiling.
InFlightBounded == Cardinality(Locked) <= MaxInFlight

\* The runs of this process that were charged on the counter's day and are recorded,
\* and the submissions that hold a charge of that day.
BilledToday ==
    {r \in Launched \ orphans : runDay[r] = budgetDay
        /\ \A t \in Threads : Busy(t) => run[t] # r}
ChargedToday ==
    {t \in Threads : pc[t] \in {"charged", "preflighted", "launched", "failed"}
        /\ chargeDay[t] = budgetDay}

\* The daily counter never shows more than there is: one per run launched plus one per
\* submission that is charged and not yet refunded, so a rejected duplicate and a
\* failed submission cost nothing.  It shows less only after a refund of a charge made
\* before midnight was taken off the new day's counter.
BudgetExact ==
    LET spent == Cardinality(BilledToday) + Cardinality(ChargedToday)
    IN  buildsToday <= spent /\ (~strayed => buildsToday = spent)

\* Every submission ends, and with it its claim on the table.
SubmissionsEnd == \A t \in Threads : Busy(t) ~> ~Busy(t)

\* The table of every finished build is unlocked, unless the browser that started
\* it stopped polling before it saw the build end.
WatchedBuildUnlocks ==
    \A tb \in Tables, r \in Runs : locks[tb] = r ~> locks[tb] # r \/ r \in gaveUp
=============================================================================
