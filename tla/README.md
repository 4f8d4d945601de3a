# BrickTrace in TLA+

BrickTrace is a Databricks App (FastAPI in `src/backend`, React in `src/frontend`)
that shows table and column lineage, and a Spark job (`src/transformation_lineage`)
that parses the code behind tables into column hops.  Many browsers share one
backend process with a pool of worker threads, one SQL warehouse and one service
principal; build jobs run elsewhere and meet the backend only in Delta tables and in
the jobs API.  What is hard here lies between the parts: threads that share caches,
slots and locks, remote calls that fail late or answer never, jobs that commit table
after table, and requests that delete while others read.

This directory models that.  Data are abstracted to what the properties tell apart
(a cached value to the time its sources were read, a notebook to a version token and
its hops); control is kept.

Contents: 1 inventory, 2 what is modelled and how, 3 the runs, 4 fairness, 5 the
proofs, 6 what the checks found, 7 hazards without a property, 8 what is only
model-checked or not modelled, 9 the plan, 10 how to run it.

## 1. Inventory

| component | state | operations | interacts with | what is hard | what makes it correct |
|---|---|---|---|---|---|
| warehouse gate, `backend/warehouse_gate.py` | semaphore `_slots`, `_stats` gauges | `_Slot.__enter__/__exit__` around each gated statement | breaker; every module with an `_execute_sql` | slots across error paths; two locks for one fact; timeouts | slots conserved, gauge exact, shed only when full, own backpressure never counted as an outage |
| circuit breaker, `backend/circuit_breaker.py` | state, failure count, time of last failure | `check`, `record_success`, `record_failure`, lazy recovery | gate | outcomes out of order; checked before the wait for a slot | state agrees with the count; recovers when statements succeed |
| build service, `backend/build_service.py` | `_build_locks`, day's budget, submission log, access latch, notebook path | `submit_build_job`, `get_build_status` | jobs API, browser polling, feature route of `main.py` | two remote calls inside one reservation; lost answers; midnight; restarts | no leaked or stolen reservation; one known run per table; ceilings |
| in-process lineage cache, `backend/lineage_service.py` | `_cache` (TTL, size), `_keyed_locks` (bounded LRU) | `_cached_fetch`, `invalidate_cache`, `evict_cache_entry` | system tables, all read routes | eviction of locks in use; fetches in flight across a flush; nested locks; a key written without its lock | single flight; a client never sees older data; a flush sticks; no circular wait |
| transform cache and clear, `backend/transform_service.py` | `_transform_cache`, `_transform_flights` | `_transform_cached_fetch`, `invalidate_transform_cache`, `clear_transform_lineage` | store tables; build service (flush on success) | flush before delete; partial deletes | what was wiped does not come back |
| build job, `transformation_lineage/pipeline.py` | Delta tables: raw code, versions, nodes, edges, endpoints, statistics | eight phases, each commits by itself | store tables, read by `transform_service.py`; other runs; clears | a crash between commits; runs interleaved; version gate ahead of the parse | a finished run serves what it parsed; the gate skips only what was taken up |
| lineage graph assembly, `lineage_service.py`, `perf_patches.py`, `parallel.py` | none of its own; result cached | rows to nodes and edges; breadth-first trace in two parallel walks with budgets | cache, gate, thread pool | budgets and truncation; dropped partial failures; entities, direct rows and a cycle break that rely on each other | a cached trace is complete; every row read is drawn; an empty graph after a failure is not kept |
| cost cache, `lineage_service.py` | three globals, a non-blocking lock | refresh, read | gate | three assignments read without the lock | answers from one refresh |
| sublineage, `transformation_lineage/sublineage` | caches of graphs and hashes per session; a shared table of path results | `backtrack_from_target`, bidirectional walk, k paths, enrichment of expressions | endpoints table, LLM | cycles, depth limits, pruning; what a hash leaves out; runs that enrich at once | results agree with their definitions; an answer is the run's own; each expression paid once |
| extraction, `transformation_lineage/extraction` | audit-path cache | discover, resolve, fetch, deduplicate | workspace API, `system.*` tables | tiers skipping each other; failures only logged | each artifact once; nothing found is explained |
| parsing, `transformation_lineage/parsing` | none | cells to column edges | extraction, build job | names bound again and again; columns several tables could own | an edge points at what the frame was at that statement |
| distributed cache, `cache_service.py` | Delta table, hit buffer | `get`, `set`, `invalidate_namespace`, `vacuum`, patch of accessors | in-process cache | two tiers, two TTLs, several replicas | no answer two lifetimes old; a live row has its payload |
| capability cache, `server/capability_cache.py` | Delta table | `serve_or_compute`, `evict` | impact, root cause, governance and access routes | overlapping computations; late statements | a report is not replaced by one computed before it |
| analysis store, `server/analysis_store.py`, producer analysis | Delta table of versions | `save_analysis`, `get_latest`, analyze, compare, deep analysis | LLM, workspace API, peers | read maximum, then insert | newest analysis shown; stale exactly when the source changed |
| notifications, `routes/notifications.py` | Delta table | `run_scan` (timer and admin), prune, mark read | detectors | two scans at once, retention | each event once; nothing found is dropped |
| LLM budget, rate limiter, cache of users | dictionaries under a lock | one critical section per call; a remote lookup between two | all routes | day boundary, eviction, lookups that overlap | limits hold per window; no admin by an outdated answer |
| federated workspaces, flags | Delta tables, a 30 s list cache, client cache | register, look up, evict; MERGE and audit | source fetching | reads in flight across invalidation; half of a change | a new registration takes effect; the audit tells the flag |
| browser: transform panel and stores | Zustand stores | build, poll, load, close | build routes | answers and timers out of date | shows the table that is open |
| readers (governance, access, ML, discovery, observability ...), exports, CRUD routes | Delta tables, one statement each | queries | warehouse | none beyond the statement | not modelled |

`PROJECT.json` lists every part with its sources and status, and under "hazards" what
in this code is hard to test, at its line.

## 2. The modules

### WarehouseGate, CircuitBreaker, AdmissionControl
`WarehouseGate` follows a statement through `_Slot.__enter__`, its execution and
`_Slot.__exit__`, one action per critical section: `Call` (breaker check), `Acquire`
or `Shed` (semaphore with timeout), `Admit` (gauges), `Finish` (the poll loops of the
`_execute_sql` family: success, failure raised inside the block, failure noticed after
it, poll budget exhausted), `ExitStats`, `Release`, `Record`.  `kind` tells gated
statements from the ones that use the breaker only.  `orphans` counts statements whose
budget ran out and which the warehouse still executes.  `CircuitBreaker` has the three
methods as operators on its state, and the lazy transition to HALF_OPEN as
`CurrentState`.  Time is the action `RecoveryTimeout`.  `AdmissionControl` is the
abstract specification: at most `MaxSlots` callers inside, each at most once.

### BuildService
A submission moves through `Reserve` (under `_build_lock`), `Charge` or
`RejectOverBudget` (under `_budget_lock`), `Preflight`, the POST in three outcomes
(`PostAccepted`, `PostRejected`, `PostAnswerLost`: accepted although the caller got an
exception), `Swap` (the run id replaces the placeholder), or `Refund` and `Drop`.  Each
is the part of `submit_build_job` between two lock operations or remote calls, so polls,
midnight, revoked grants, ends of runs and a restart fall in between.  The module's
globals are variables of their own names.  History variables: what each run was
launched for and on which day; `orphans`, launched runs whose id nobody holds.  A
submission refused under `_build_lock` changes nothing and is no action.

### KeyedCache, TransformCache
`KeyedCache` is the single-flight cache, with its bounded registry of lock objects:
`Ask` is the first look into the cache, then `GetLock`, `Acquire`, `Recheck`, the fetch
(`Read`; or `Nest` and `Collect` when the fetcher itself calls a keyed accessor;
or `ReadColumns` and `StoreColumns`, with which a lineage or a trace caches a second key
without its lock; or `FetchFails`, before or after any of these),
`Store`, `Release`, `Finish`.  `AskTier` is the accessor that `perf_patches.py` installs, for
the callers that find it: `ReadRow` is a row of the shared Delta table, of any age, and
`LoadRow` puts it without the keyed lock; `MissRow` goes on as `Ask` does.  Entries leave at any time (`Drop`: expiry, size,
`evict_cache_entry`), `Flush` is `invalidate_cache`, `Tick` a change of the sources.  A
value is the time at which its sources were read.  `TransformCache` reuses those
actions, as `transform_service.py` repeats that code, and adds a wipe, which flushes
first and deletes later, and builds that store new edges.

### LineagePipeline
`run_daily_pipeline` as one action per commit or read: `Begin`, `Extract` (any subset
of the discovered code may be fetched), `CheckVersions`, `RecordVersions` (with
`force_reparse` and the early termination), `WriteNodes`, `WriteEdges`,
`BuildEndpoints` (the join), and `Fail` from anywhere.  Several runs interleave with
each other, with edits and with `clear_transform_lineage`, one DELETE per action, each
of which may fail.  `ServingRun` and `Shown` are what `_get_latest_run_id` and
`load_edges` return.  Columns are abstracted to their tables and a text to its version
token.

### LineageGraph, Levels
The two readers of `system.access.table_lineage`.  The trace is the one that
`perf_patches.py` installs at start-up: two walks, one against and one along the rows,
`Hop` and `Follow` their queries and rows, `MayHop` the budgets of hops and nodes,
`HopFails` a failed query.  `DrawTrace` is `_build_graph_from_rows`, `DrawScope` the
schema and catalog graph of `_fetch_table_lineage` with its follow-up query, the entities
between tables, the direct rows they cover and the cycle break.  What is kept and when is
part of both.  A row is source, target and the entity that ran it, any of them missing.
`Levels` has the walk by levels: what one more level adds, and what lies within a number
of them.  The layers of the panel are made of it, and it says which tables a trace is to
reach.

### ColumnGraph, TransformTrace
`ColumnGraph` is `bfs.py` (two frontiers, one expanded per step), `k_paths.py` (a
depth-first trail) and `backtrack.py` (a level per step), over EVERY graph on four
columns.  `TransformTrace` has the panel's questions of one column:
`load_edges` with the run that serves a table, its backtrack, the layers, the diagnosis
of a table without edges and the freshness badge.

### TableReports
Impact and root cause behind `serve_or_compute`: look up, one query per level of the
walk, report, store; each may fail, and a store whose statement outlives its wait lands
later.  Two callers, an eviction, and rows that are recorded meanwhile.

### NotebookParser, SqlParser
Builds notebooks statement by statement (bindings, chains of calls, joins, cells, SQL with
CTEs) and at the same time runs them, so `truth` holds which column really came from where.
`Parse` is what the tree walk of `pyspark_ast_parser.py` and `sql_parser.py` and
`graph_builder.py` make of the text.  `SqlParser` has the part about one statement: what
Spark makes of it (`SqlRan`) and what is read off its text (`SqlEdges`).

### PeerWorkspaces, ProducerAnalysis, SublineageStore, Extraction, Notifications
`PeerWorkspaces`: the registry (rows are only added), the 30 s list, the cache of clients,
their eviction, and the flag all of it depends on; a MERGE or an INSERT may go on after
its call gave up (`RegisterLate`, `SetFlagLate`, `AuditLands`).  `ProducerAnalysis`: analyze, compare
and deep analysis from the question to the inserted version; requests of one producer
block the event loop, the others are threads.  `SublineageStore`: the endpoints a run
writes, the translations shared by runs, version hashes and cached path results.
`Extraction`: the tiers of `run_extraction_phase`, the four executions of the discovery
query (`Discover`, `ReadCovered`, `ResolvePaths`, `NotebooksDone`), each of which may see
other rows, its pools of threads whose results
arrive in any order, skip reasons, audit-path cache and deduplication.
`Notifications`: a scan's read of the known keys, its detectors, inserts and prune.

### UserInfo, RateLimit, LlmBudget, DeltaTier
`UserInfo`: `_get_user_info`, its bounded cache with two lifetimes and its lookup
between two critical sections.  `RateLimit`: `RateLimitMiddleware`, one step per request.
`LlmBudget`: `_charge_llm_budget`, which reads the day before its lock, and the retry of
`_invoke_chat`.  `DeltaTier`: the patched accessors over replicas that share one row per
graph, with `invalidate_namespace` and `vacuum` as count, then write.  The patches of the
trace, the costs and the sizes take effect for every caller; those of the lineage and
column readers rebind names that `main.py`, `openlineage.py` and `graph_snapshots.py`
imported before, so only automatic snapshots (`capability_closures.py`) read through the
row.  `AskCold` therefore has both kinds of reader.

### Composites
`MCLineageReads` puts the five modules of what a user is shown side by side,
`MCAppServices` the nine that keep tables, caches and counters.  They have no variable in
common and the code has no call between them whose order matters, so in a behaviour one of
them (`reader`, `service`) is at work and the others rest in their first state: every
behaviour of each module is one of the composite, without the product of their states.
`ReadsTypeOK` and `ServicesTypeOK` are the modules' type invariants together.

The other `MC*` modules hold instances and, where a comment says something of the
code that the model refutes, that statement as a property.

## 3. The runs

| run | instance | checks | shows |
|---|---|---|---|
| `gate` | 2 threads, 1 slot, threshold 2, 1 orphan | TypeOK, SlotsConserved, GaugeExact, BreakerConsistent, ImplementsAdmission, CallsReturn, RecoversWhenHealthy | slots on every exit path, breaker under late outcomes, recovery |
| `build` | 2 threads, 3 tables, 2 runs, 2 days, 1 restart, ceilings 2 | TypeOK, ReservationOwned, KnownRunsExclusive, BudgetExact | reservations and charges across all failure paths, midnight and a restart |
| `build_liveness` | 2 threads, 2 tables, 1 day, no restart | SubmissionsEnd, WatchedBuildUnlocks | submissions end; locks come back |
| `build_duplicate_jobs` | 1 thread, 1 table, 2 runs | NoDuplicateJobs (violated) | lost answer, second job |
| `cache` | 2 threads with nested calls, 2 keys, room for 1 lock | TypeOK, SingleFlight, NoCircularWait | eviction of locks, nesting |
| `cache_fresh` | 2 threads, lineage and columns keys, a shared tier for the lineage, 1 change | ReadsNeverGoBack, FlushSticks | staleness |
| `transform_cache` | 2 threads, trace over edges, 1 change | WipeSticks | wipes |
| `pipeline` | 2 runs, 3 tables, 2 notebooks, 1 edit, 1 clear | TypeOK, DoneMeansServed, SkippedMeansTaken | joins and version gate under failures |
| `lineage_reads` | five tables, two entities; every graph on four columns; nine stored edges; two report callers; notebooks of up to two cells | ReadsTypeOK, TraceIsTheCone, DrawnRight, SearchesAgree, TraceLayersRight, ReportsReachAll, AnswersDoNotGoBack, LineageIsTheNotebooks | what is shown agrees with its definition, or a failure or a budget explains why not |
| `app_services` | two threads (scans, sessions, replicas) of each service | ServicesTypeOK, ChangesTakeEffect, StoredIsCurrent, SharedRight, ExtractionAccounts, AlertsKept, AdminIsRecent, FairLimit, DailyLimitExact, TierBoundsAge | tables, caches and counters under overlapping requests and failing statements |
| `sublineage_text` | as `app_services` | AnswersWithTheText (violated) | a changed expression, the old cached answer |
| `scope_rows` | as `lineage_reads` | ScopeDrawsRows (violated) | a direct flow no edge shows |

A property of the composites that speaks of one module is there the conjunction of its
named parts:

| property | parts |
|---|---|
| DrawnRight | `TraceDrawsRows`: every row of a kept trace can be followed; `NoFalseCycle`: no table is drawn as written and read by one entity; `KeptScopeIsNotBlank`: a failed query is not kept as an empty scope |
| SearchesAgree | `ShortestIsShortest`, `PathsAreAll`, `BacktrackLevelsRight`: the three searches of the sublineage package against distances and routes |
| LineageIsTheNotebooks | `EdgesAreTrue`: no edge the notebook did not make, as long as no variable is bound both as a table and as a chain; `OneTableIsExact`: none missing when one table is read |
| ChangesTakeEffect | `PeerAnswersCurrent`: after a registration no older client; `AuditTellsTheFlag`: the trail ends with the flag's value again after each change made on its own |
| StoredIsCurrent | `LoadShowsNewest`: not an older version after a newer was saved; `StaleMeansChanged`: stale only if a source changed or became (un)readable |
| SharedRight | `TranslatedOnce`, `BackfilledAll`: an expression is paid once and shown in every run; `AnswersTheRun`: an answer shows the hops of its run |
| ExtractionAccounts | `EmptyIsExplained`, `KeptOnce` |
| AlertsKept | `NoDuplicateAlert`, `ScanStoredAll`, and of every step `PruneKeepsNewest` |
| FairLimit | `RateHolds`, and of every step `ForgetsTheQuietest` |
| DailyLimitExact | `LlmLimitHolds`: nobody calls more; `RefusedWhenSpent`: nobody is refused early |
| TierBoundsAge | `TwoLifetimes`: the age of an answer over both tiers; `LiveRowIsWhole`: vacuum never empties a live row |

Bounds and why they are enough.  Two threads on one slot already give every pair of
steps an interleaving, and a third only waits like the second; threshold 2 distinguishes
"one failure" from "enough failures".  In `build`, three tables with two in-flight
builds let a submission be refused for each reason; two days and one restart let a
charge and its refund, or a lock and its poll, fall on different sides.  `LocksMax = 1`
with two keys forces an eviction on every change of key; the properties of `cache_fresh`
do not depend on the registry, so there it has room, and a view leaves locks and registry out of the
fingerprint (`MCWithoutRegistry`: they follow from the calls' locations as long as no lock is
evicted, and the rest does not depend on which object serves a key), with the histories no
property asks about any more.  One change of the sources
distinguishes old from new, which is all that the order of two values can show.  In
`pipeline`, `fan` writes a table that `load` writes too and has a mapping without a
known target; one edit makes two versions of a text, and one clear cuts into any
point of either run.  Bounds on counters are constants: `MaxOrphans`, `LastDay`,
`MaxRestarts`, `Runs`, `LastTime`, `Locks`, `MaxClears`, `Edits`.

In `lineage_reads`, four columns allow two routes of different length, a
cycle on a route and one beside it; limits 1 and 5 for paths and 1 and 3 for depth fall
below and above what any of those graphs needs; the four pools of rows of `LineageGraph`
have a table read back by its writer, a chain longer than the hop budget, a loop, and a
volume written and read by different paths, and every subset of each is a start.  In
`app_services`, two versions, alerts, edits or registrations tell new from old; three
users against room for two force an eviction in the limiter, two tokens against
room for one in the cache of users; lifetimes of two and clocks of two to four let an entry
age, be refreshed and expire, and `MaxHours = 4` is twice the lifetime, which `TwoLifetimes`
needs to be violated at all.  Every change of the flag is explored while
nothing is registered, registrations after at most one change, made on its own
(`MCFewChanges`): the flag meets the registry only in whether a request is let in.  Bounds: `MaxIters` and `NodeCap` are the code's own budgets,
made small; `MaxCells`, `MaxStatements`, `MaxRows`, `MaxToggles`, `MaxEdits`, `MaxVersions`,
`MaxJobRuns`, `MaxAlerts`, `MaxClock`, `MaxTime`, `MaxPassed`, `MaxDays` and `MaxHours` bound
the histories.

Deadlock checking is off for `LineagePipeline` (a run is started once per id and ends) and
for the two composites (a history is bounded, a question of `ColumnGraph` or a notebook is
answered and that is all).  Symmetry is used in safety runs only: threads, runs
and tables in `build`, runs in `pipeline`, callers and dataframes in `lineage_reads`; the
constants of that instance that stand for those are otherwise unused, and no initial state
tells them apart.

## 4. Fairness

`WarehouseGate!Fairness`: a thread inside a call makes progress (`acquire` has a timeout
and each poll loop a budget, so neither waits for ever), requests keep coming (which is
what reads the lazy breaker), and time passes.  `OrphanEnds` is not fair: nothing
obliges the warehouse.  `BuildService!Fairness`: a submission goes on (HTTP calls have
timeouts), a job ends, and a browser that is watching polls again; nothing makes
somebody come back who closed the panel.  `RecoversWhenHealthy` is conditional on
statements ceasing to fail.  The other modules have safety properties only.

## 5. The proofs

TLAPS checks every theorem from the definitions TLC runs, for all values of the
constants that satisfy the named `ASSUME`s.

* `WarehouseGate_proofs`.  `IInv` adds to the properties the link between a thread's
  program counter and whether it is gated (`KindOK`) and weak types for the rest.
  Slots and gauge are cardinalities of sets of threads by location; each step
  moves one thread, so a lemma about adding or removing one element does the rest.
  From it: `TypeCorrect`, `SlotsAreConserved`, `GaugeIsExact`, `BreakerIsConsistent`,
  `ShedsOnlyWhenFull` (an action property), and `GateImplementsAdmission`, where only
  `Acquire` and `Release` are not stutters.
* `BuildService_proofs`.  `LockInv`: a busy thread has a table, and a table is reserved
  exactly while one busy thread has it; an executing run with a known id is in the
  table's lock or on its way there.  Two known runs of one table would need two values
  of one lock.  `InFlightIsBounded` and `BudgetWithinBounds` have invariants of their
  own: the former from the guard of `Reserve`, since no other step adds to the
  locked tables, the latter because `_refund_budget` is guarded by zero.
  `BudgetIsExact` counts: a day is charged for its launched runs and for the submissions
  that are charged and not yet refunded, two finite sets (`FinitelyMany`) whose days
  `ChargesFollow` relates to the counter's; each step moves one element, and after a
  refund of another day's charge only the inequality is left.
* `KeyedCache_proofs`.  The invariant ties lock objects to keys: two frames that have
  locks of one key have the same one unless the key is in `lost`, no lock
  object serves two keys, and only the frame that `owner` names is past `Acquire`.  That a
  held lock is known to its holder is part of `TypeCorrect`: no way out of the `with` block,
  a failed fetch included, keeps one.  The
  nested frame of a thread is at work only while its parent waits for it, and a nested
  key needs no further key; hence no circular wait, at any number of threads.
  What a call may be answered with takes two more.  `Flow` says step by step where a
  value in hand comes from.  `Ages` compares: while the lock of a key is good and nobody has put the key without it (`bare`), what is cached
  or fetched is no older than any answer of that key (`NewestCached`, `NewestFetched`),
  whoever fetches found nothing cached (`MissIsEmpty`), and what a key delivers is never
  newer than what the key its fetcher asks for has delivered (`NeedsAhead`, `NestedFloor`).
  Hence `ReadsNeverGoBackHolds`.
  `FlushSticksHolds` uses a barrier: from a moment `at` on, every value of a key not in
  a set `dirty` is at least `at` old, a predicate each step keeps once the flush has
  established it with the fetches then under way as `dirty`; an older row of the shared
  table makes its key dirty when it is put.
  The last part of the module is about `TransformCache`: every step of it is a step or a
  stutter of `KeyedCache`, so its locks have the same properties and its reads go forward
  (`TransformReadsForward`).  `WipeSticksHolds` uses the same barrier, set up by
  the end of the wipe.
* `LineagePipeline_proofs`.  `SkippedMeansTaken` is not inductive: between
  `CheckVersions` and `RecordVersions` a run relies on what it read, so `Checked` says
  that for each artifact it is going to skip some run accounts for that very text, or a
  clear has caught the run.  `Commits` says, location by location, which of the
  three tables already hold exactly this run's rows.  The lemma `AccountsKept` shows
  that no step takes away what accounts for a text, except a wipe, which empties the
  record too.
* `Limits_proofs`.  Four bounds on ages and counts.  `AdminIsRecentHolds` (`InfoInv`): an
  entry that says admin was written when the user was one, and a thread that looks up
  carries a time no older than its request.  `TierBoundsAgeHolds` (`TierInv`): a row is at
  most one lifetime older than its stamp, and so is a process's entry, which may have been
  taken from a row; the sum is the bound.  `FairLimitHolds` (`LimitInv`): the table lists each
  user once, in the order of their last pass, so an eviction takes the quietest; a
  user who is remembered has in the list all that passed within the window.
  `LimitIsExact` (`LlmInv`): a refused thread compares with counters that a reset may
  have emptied, so `DailyLimitExact` alone is not inductive.  `CountersCovered`: the
  counters never exceed what was charged on their day (a reset forgets charges and
  invents none), hence a refusal is right.  `CountersExact`: without a late charge they
  are the charges of that day, and later days have none, hence the limit holds.
* `SharedTables_proofs`.  `ChangesTakeEffectHolds` (`PeerInv`): what the list or the client
  cache holds of a workspace is the newest row it had when that was read (`FreshInv`,
  `AnswersInv`), and while no change is between its two statements and none has blurred
  the trail since the last that was made on its own, the last audit row is the flag (`AuditInv`).
  `StoredIsCurrentHolds` (`AnalysisInv`): the versions of a producer climb (`Climbing`), a row
  says what was on disk when its request read it (`RowOf`), and a request
  has a lower bound on the rows it may be shown (`JobSound`).
* `AppServices_proofs`.  `AnswersHold` (`StoredSound`): every report in hand, stored or
  landing is at least as new as `floor`; a walk in progress began after it.  `ReportsReach`
  (`WalksSound`): every table a walk knows was expanded or is on its frontier, so an empty
  frontier leaves a set that no row leads out of, and the depth that was not walked holds
  nothing more; rows recorded meanwhile bring no table farther away (`LevelsGrow`).
  `ReportTypesCorrect` assumes that rows have two ends (`RowsBetweenTables`): both walks pass
  over the others.
  `AlertsKeptHolds` (`AlertsSound`): the keys a scan does not know are in `unseen`, those it
  knows were stored; that a prune leaves `Keep` rows is a count of the alerts on either
  side of the row it prunes below (`PruneCounts`).  `SharedRightHolds` (`StoreSound`): what an
  enrichment asks for it asks for alone, or it is noted (`AskedAlone`), and an expression is paid
  for once its answer is there or awaited (`PaidFor`); each session's caches hold hops of
  runs that were inserted, whichever run filled them.  `AccountsHold` (`ExtractSound`): as
  long as something that was read is still to be fetched, nothing is owed, and afterwards
  something was brought or said (`Accounted`), or no read named an entity (`CoveredByNobody`); the deduplication is right because ranking the
  positions of the first occurrences lists each of them once (`Listed`).  At the end,
  `ServicesTypesCorrect` puts the type invariants of the nine services together: a step of
  the composite is a step of one and a stutter of the others (`OneServiceMoves`).
* `LineageReads_proofs`.  What a user is shown, walk by walk.  A walk by levels that has
  taken n of them has seen what lies within n edges (`WithinLevels`), which is what a way
  of at most n edges reaches (`LevelsAreWays`); a level that adds nothing is the last, and
  a shortest way meets no node twice, so it has fewer edges than there are nodes.
  - `TraceIsTheConeHolds`, `DrawnRightHolds` (`LineageGraphSound`): what a walk has met lies
    in the cone of the rows there are by now, and lacks nothing of the rows there were
    when it was asked for, unless it is still to be asked for or something was cut; rows
    recorded meanwhile only add.  What is drawn of rows is then compared with the rows
    alone, step by step through entities, covered rows, the cycle break and roles.
  - `TraceLayersHold` (`TraceSound`): the layers are differences of `WithinLevels`, hence
    the columns of shortest ways.
  - `SearchesAgreeHolds` (`ColumnGraphSound`).  `ShortestSound` holds what each of the two
    frontiers knows (`SideIs`); when they meet, the sum of two distances is that of the
    whole, and when one is empty there is no way.  `BacktrackSound` is the same for one side,
    with the hops collected so far.  `PathsSound` is of another kind: the paths returned are
    exactly those that the stack of the depth-first search has left behind (`Behind`).
  - `SqlEdgesAreTrue`, `SqlEdgesAreAll`, facts about the operators of `SqlParser`, for any
    statement: an edge that names a table is one that the statement makes, and of an
    expression whose text leaves no choice (`SqlClear`) nothing is missed.

  The assumptions: the column graph is finite with two different ends
  (`ColumnGraphAssumption`); the budgets are positive and the scope is among the tables
  (`GraphBounds`); tables, paths, volumes and entities have names of their own, which their
  prefixes see to (`NamesApart`); rows name tables, paths and entities (`RowsOfTheTable`);
  a deduction is about columns of the opened table (`DeductionsOfTheTable`).

Two arguments stand in for induction, whose theorems take an operator as a parameter: a
set of naturals that is not empty has a smallest member (`WFMin`, so a claim is proved by
looking at its least counterexample; thus also that the function by which `Within` is defined
exists and has its values, `ReachExists` and `ReachSteps`), and an injection between finite sets of one size is
onto (`FS_Injection`, so counting the smaller elements numbers a set without gaps).

The specifications' own bounds are constants of the theorems, so the theorems hold for
any number of restarts, days, clears and edits.

## 6. What the checks found

Three disagreements have a run with `expect: violation` and a finding in `PROJECT.json`.

* **Duplicate jobs** (`build_duplicate_jobs`). Any exception of the POST is treated as
  "nothing is running" (`build_service.py:496`).  A timeout after acceptance frees the
  table, and the next submission starts a second job.
* **The old expression** (`sublineage_text`). An edge's id is a hash of the notebook's path
  and the columns (`graph_builder.py:220`), so when only the expression changes the version
  hash of the run does not, and the cached answer shows the old one.
* **A flow nobody draws** (`scope_rows`). A direct row is left out because an entity is
  going to show it (`lineage_service.py:1606`); the cycle break then takes that entity's
  edge away.

Attempts at a proof changed the model where it said less than it meant.  `ReadsNeverGoBack`
counted "no key" among the keys that are written without their lock, and so excused
every key whose fetcher asks for no other.  `BudgetExact` was stated for one day and is now stated across midnight,
where it turns into an inequality, and the `build` run checks it.
`BacktrackLevelsRight` took a column that is out of reach to be at a distance, and called its
hops collected when the depth limit was above the number of columns.  The cases of a table's
role overlapped where the code asks one after the other.  What rows and deductions
may name was true of the instance and said nowhere; it is assumed by name now.  A comparison of
one producer was a step of `ProducerAnalysis`, which the code refuses
(`routes/lineage.py:758`), and so is its guard now.

More were met while modelling.  The models behave as the code does; no run is spent on
them.

| code | says otherwise |
|---|---|
| every caller passes a HALF_OPEN circuit until the first outcome, `circuit_breaker.py:76` | "allow one probe call", `:7` |
| a refund lowers the counter of the day it happens on, so a submission charged before midnight and refunded after it buys an extra run, `build_service.py:369` | "MAX_BUILDS_PER_DAY - total spend", `:317` |
| a wipe flushes before its deletes, so a read in between caches the doomed rows for the whole TTL, `transform_service.py:245` | 'then it shows as "not built"', `:240` |
| building a source table parses the notebook that reads it, becomes the latest run of that notebook's target, and hides what others contribute, `transform_service.py:564` | "never hides another's", `docs/REFERENCE.md:420` |
| `bool("false")` is true: a flag turned off reads as on, `feature_flags.py:346` | booleans arrive as text, `federated_workspaces.py:128` |
| an LLM charge dated before midnight empties the counters of the new day, `llm.py:117` | the limit is per day |
| a report's key leaves out `max_hops`, and one computed after a failure is kept until a refresh, `capability_cache.py:76` | the route offers `max_hops`, `impact.py:198` |
| the detectors swallow errors of their queries | "Detector errors propagate", docstring of `run_scan` |
| a pruned alert whose trouble persists is raised again, unread; two flows into one column share a key | "Idempotent across runs" |
| every thread that misses looks the user up, and a failed lookup overwrites a good entry, `main.py:190` | "thundering herd", `:167` |
| suspects of equal rank keep the order of the walk, which need not be a chain, `root_cause.py:490` | the failure path described in the same function |
| paths come depth first and stop at the limit: not the shortest k, `k_paths.py` | its module docstring |
| a hit in the Delta tier starts a new TTL; a publisher may publish what another thread put | TTLs of one lifetime |
| the soft warm-up puts keys no reader asks for, `startup.py` | warm-up |

## 7. Hazards the properties do not cover

Some behaviours are in the model, and TLC reaches them, but the repository states
nothing they contradict.

* A statement whose poll budget ran out goes on in the warehouse (`orphans`), so the
  slots do not bound the warehouse's load.  A statement that reaches FAILED is judged
  after the `with` block, so it is recorded as a success of the breaker.
* `_refund_budget` pops the newest entry of the submission log, which may be another
  admin's, and no property is about the log's entries; a failed discovery of the app's source is cached as "" and disables builds
  (`build_service.py:161`).  A run that no poll sees ending keeps its table locked until a
  restart (`WatchedBuildUnlocks` names that exception).
* A keyed lock evicted before it was acquired gives one key two fetches at once:
  `SingleFlight` says that this is the only way.  A fetch in flight across a flush
  stores old data after it, and the patched accessor puts a row that a replica published
  before it (`perf_patches.py:328`, the row outlives the flush): `FlushSticks` says that nothing
  else brings old data back.  That put takes no lock and compares nothing, so a lineage can go
  back in time for the readers of the process, as columns can (`lineage_service.py:1253`, `:1084`);
  `ReadsNeverGoBack` excepts such keys and no others.  A value larger
  than the cache raises instead of going uncached (`lineage_service.py:424`).
* A wipe that falls between a run's version check and its record leaves text on record
  whose hops are gone; the next build skips it.  `SkippedMeansTaken` excepts runs that a
  clear caught.  A clear of one table never touches the versions, so only a forced
  build restores it.  A run that read an older text but ends later is the one that is shown.
* The discovery query is executed anew for each of its four uses, over a window that ends
  now (`discovery.py:66`).  When the targets read say that an entity writes the table and
  no read names one (the row aged out, or landed, in between), the query history is skipped
  and a build that brings nothing gives no reason: `ExtractionAccounts` excepts that.
* A change of the flag whose MERGE outlives its wait raises, leaves no audit row and takes
  effect afterwards (`feature_flags.py:382`); the trail is wrong until the next change.
* In the browser a timer set for one table may fire when another is open
  (`transformStore.ts:260`); not modelled.

The exceptions that the properties of the new services name are the hazards that are left:
two statements without a transaction (`clashed`, `unseen`, `overlapped`, `crossed`), a read
in hand at an eviction (`PeerAnswersCurrent`), a statement that outlives its call
(`auditBlurred`, `heldOver`), reads that contradict each other (`CoveredByNobody`), an eviction from a full table
(`shortened`), a day read early (`late`).  Each is a history variable set exactly at
that step, or a condition on what was read, so the properties say that nothing else goes wrong.

## 8. Only model-checked, and not modelled

Liveness (`CallsReturn`, `RecoversWhenHealthy`, `SubmissionsEnd`, `WatchedBuildUnlocks`)
is out of the prover's reach and rests on TLC.  Of the safety properties, two are
model-checked only.  `LineageIsTheNotebooks` compares what a recursive descent through
chains of calls (`Roots`, `Resolve`) says with what the notebook did: its definitions are
`RECURSIVE`, and a proof is an induction over the text; of its SQL statements, which are
read without recursion, `SqlEdgesAreTrue` and `SqlEdgesAreAll` say so for any one.  `ReadsTypeOK` has the parser's types
among its parts; the other four are theorems (`LineageGraphTypeCorrect`,
`TraceTypeCorrect`, `ColumnGraphTypeCorrect`, `ReportTypesCorrect`).  The finding runs rest on
TLC's counterexamples.

Simplified: sizes and TTLs of entries of the lineage and transform caches (they go at any
time); failed freshness reads, which `get_transform_freshness` lets the transform cache
keep (`transform_service.py:414`); `reset_stats` and `_reset_*`, which only tests call;
the text of statements; reconciliation, KPI subgraphs, metrics and raw code of the
pipeline, on which nothing modelled depends; which artifacts an extraction gets in
`LineagePipeline` (any subset; `Extraction` has the detail); time, including the freshness
check in front of a submission; in the parser, aliases of dataframes, DLT targets,
string variables and, of the regular expressions the parser falls back on, all but those
of created and selected columns; column lineage from system
tables, counts and metadata of nodes; what health is made of in the root cause; prompts
and answers of the model.

Not modelled, with reasons in `PROJECT.json`: readers of system tables (stateless),
presentation, browser state and exports, CRUD routes of one statement each, document
shaping, the cost cache (decoration), plan capture (runs inside other people's jobs),
installer, fixtures.

## 9. The plan

Done: every module of section 2, and proofs of all safety properties of the gate, the
builds, the caches, the pipeline, the services and what a user is shown (section 5), the
notebook parser excepted.  There are eight proof modules, each for a group of components; a
further proof joins the group its component belongs to.  `NotebookParser` is the one
module with recursive operators and has no theorem.

Left, in order of weight: the parser's recursion as functions over positions of the text;
reconciliation and KPI subgraphs of the pipeline; the browser's timers
(`transformStore.ts:260`).

## 10. Running it

    tlc -workers 2 -config WarehouseGate.cfg MCWarehouseGate
    tlapm WarehouseGate_proofs.tla

and likewise for the other configurations (`PROJECT.json` gives the module of each) and
proof modules.  The runs take from seconds to about four minutes.
