---------------------------- MODULE TableReports ----------------------------
(***************************************************************************)
(* The reports of one table that server/capability_cache.py keeps in a     *)
(* Delta table: the impact report of routes/impact.py (a walk with the     *)
(* rows of system.access.table_lineage) and the root-cause trace of        *)
(* server/root_cause.py (a walk against them, and the health of the        *)
(* producers it meets).                                                    *)
(*                                                                         *)
(* A request answers from the stored report, else it computes: one query   *)
(* per level of the walk, one or more for the entities, one to store. Each *)
(* is a step, any of them may fail, and a store whose statement outlives   *)
(* the wait may land later.                                                *)
(***************************************************************************)
EXTENDS Integers, FiniteSets

CONSTANTS
    Callers,        \* the worker threads that answer requests
    ReportTables,   \* tables
    Focus,          \* the table the reports are about
    ReportEntities, \* jobs and pipelines, and NoEntity
    NoEntity,       \* a row that no job or pipeline wrote
    Health,         \* ReportEntities -> failed, stale, healthy, no_history
    ReportRows,     \* the rows the lineage table may start with
    MoreRows,       \* rows that may be recorded later
    HopLimits,         \* max_hops of the requests
    MaxReports      \* bound: computations

ASSUME ReportBounds ==
    /\ Focus \in ReportTables /\ NoEntity \in ReportEntities
    /\ HopLimits \subseteq Nat \ {0} /\ MaxReports \in Nat

\* Both walks pass over rows that lack an end: what they meet are tables.
ASSUME RowsBetweenTables ==
    \A r \in MoreRows \union UNION ReportRows : r.src \in ReportTables /\ r.tgt \in ReportTables

VARIABLES
    lineageRows,    \* system.access.table_lineage
    call,       \* each caller's request
    stored,     \* the capability_cache table: the reports of each tab
    landing,    \* reports whose MERGE outlived its wait
    computed,   \* history: how many computations have begun
    floor       \* history: per tab, the stored report when none was on its way

reportVars == <<lineageRows, call, stored, landing, computed, floor>>

Tabs == {"impact", "root_cause"}
Rank == [failed |-> 3, stale |-> 2, healthy |-> 1, no_history |-> 0]
NoStored == [tab |-> "none"]
NoCall == [pc |-> "idle", tab |-> "none", hops |-> 0, hop |-> 0,
           frontier |-> {}, visited |-> << >>, broken |-> FALSE, of |-> {}, began |-> 0,
           report |-> NoStored]

TableReportsInit ==
    /\ lineageRows \in ReportRows /\ computed = 0
    /\ call = [c \in Callers |-> NoCall]
    /\ stored = [b \in Tabs |-> {}] /\ landing = {}
    /\ floor = [b \in Tabs |-> 0]

(***************************************************************************)
(* The walk, and what is made of it.                                       *)
(***************************************************************************)
\* One level: the tables one row further from those of the frontier.
Further(R, b, F) ==
    IF b = "impact" THEN {r.tgt : r \in {q \in R : q.src \in F}}
                    ELSE {r.src : r \in {q \in R : q.tgt \in F}}

\* The tables of a level are numbered even when an earlier level had them.
Renumbered(found, level, hop) ==
    [t \in DOMAIN found \union (level \ {Focus}) |->
        IF t \in level THEN hop ELSE found[t]]

\* A loop brings the table of the report into its own walk.
VisitedWithFocus(found, level, hop) ==
    [t \in DOMAIN found \union level |-> IF t \in DOMAIN found THEN found[t] ELSE hop]

\* visited[t] = hop, unless the walk has been there.
Visited(found, level, hop) ==
    [t \in DOMAIN found \union (level \ {Focus}) |->
        IF t \in DOMAIN found THEN found[t] ELSE hop]

\* _consumers: who reads the focus or a table of the walk.
Readers(found) == {r.by : r \in {q \in lineageRows : q.src \in {Focus} \union DOMAIN found}} \ {NoEntity}

\* _producers_for_table, and the worst of their health.
ProducersOf(t) == {r.by : r \in {q \in lineageRows : q.tgt = t}} \ {NoEntity}
Worst(t) == CHOOSE s \in {Health[e] : e \in ProducersOf(t)} :
                \A e \in ProducersOf(t) : Rank[Health[e]] <= Rank[s]

\* trace_root_cause_table, the tables of unread left out: their lookup failed.
Flagged(found, unread) ==
    LET hops == [t \in {Focus} \union DOMAIN found |-> IF t = Focus THEN 0 ELSE found[t]]
    IN  {[table |-> t, hop |-> hops[t], status |-> Worst(t)] :
            t \in {u \in DOMAIN hops \ unread : ProducersOf(u) # {}}}

Bad(f) == f.status \in {"failed", "stale"}
Suspects(F) == {f \in F : Bad(f) /\ f.table # Focus}
NearestWorst(F) ==
    {f \in F : \A g \in F : \/ Rank[g.status] < Rank[f.status]
                            \/ Rank[g.status] = Rank[f.status] /\ f.hop <= g.hop}

\* The suspect, one of those the sort may put first; {} when nothing is flagged.
Primes(F) == NearestWorst(IF Suspects(F) # {} THEN Suspects(F) ELSE F)
FailurePath(F, prime) ==
    IF prime.table = Focus THEN {}
    ELSE {f \in F : f.hop <= prime.hop /\ (f.table = Focus \/ Bad(f))}

\* What a report says, with (history) the rows when it began and which it was.
Report(c, entities, path, prime) ==
    LET now == call[c]
    IN  [tab |-> now.tab, hops |-> now.hops, tables |-> now.visited, entities |-> entities,
         path |-> path, prime |-> prime, broken |-> now.broken, of |-> now.of, began |-> now.began]

(***************************************************************************)
(* A request.                                                              *)
(***************************************************************************)
\* Other reports of tab b are being made, or may still land.
Others(c, b) ==
    landing # {} \/ \E d \in Callers \ {c} : call[d].tab = b /\ call[d].pc \in {"walk", "store"}

\* compute() begins.
Begun(b, h) ==
    [NoCall EXCEPT !.pc = "walk", !.tab = b, !.hops = h, !.frontier = {Focus},
                   !.of = lineageRows, !.began = computed + 1]

Ask(c, b, h) ==
    /\ call[c].pc = "idle"
    /\ call' = [call EXCEPT ![c] = [NoCall EXCEPT !.pc = "look", !.tab = b, !.hops = h]]
    /\ UNCHANGED <<lineageRows, stored, landing, computed, floor>>

\* refresh = true.
AskAgain(c, b, h) ==
    /\ call[c].pc = "idle" /\ computed < MaxReports
    /\ call' = [call EXCEPT ![c] = Begun(b, h)] /\ computed' = computed + 1
    /\ UNCHANGED <<lineageRows, stored, landing, floor>>

Answered(m) == [NoCall EXCEPT !.pc = "answered", !.tab = m.tab, !.report = m]

\* serve_or_compute, a stored report: it is served whatever its age or depth.
ServeStored(c) ==
    /\ call[c].pc = "look"
    /\ \E m \in stored[call[c].tab] :
          call' = [call EXCEPT ![c] = Answered(m)]
    /\ UNCHANGED <<lineageRows, stored, landing, computed, floor>>

\* No stored report, or get failed.
MissStored(c) ==
    /\ call[c].pc = "look" /\ computed < MaxReports
    /\ call' = [call EXCEPT ![c] = Begun(call[c].tab, call[c].hops)]
    /\ computed' = computed + 1
    /\ UNCHANGED <<lineageRows, stored, landing, floor>>

MayWalk(c) == call[c].pc = "walk" /\ call[c].frontier # {} /\ call[c].hop < call[c].hops
WalkOver(c) == call[c].pc = "walk" /\ (call[c].frontier = {} \/ call[c].hop = call[c].hops)

\* _bfs_downstream, _walk_upstream_tables: one level.
WalkLevel(c) ==
    /\ MayWalk(c)
    /\ LET level == Further(lineageRows, call[c].tab, call[c].frontier)
       IN  call' = [call EXCEPT ![c].hop = @ + 1,
                        ![c].visited = Visited(@, level, call[c].hop + 1),
                        ![c].frontier = level \ ({Focus} \union DOMAIN call[c].visited)]
    /\ UNCHANGED <<lineageRows, stored, landing, computed, floor>>

\* A level whose query fails ends the walk; what was found is reported.
LevelFails(c) ==
    /\ MayWalk(c)
    /\ call' = [call EXCEPT ![c].frontier = {}, ![c].broken = TRUE]
    /\ UNCHANGED <<lineageRows, stored, landing, computed, floor>>

ToStore(c, report) ==
    call' = [call EXCEPT ![c] = [NoCall EXCEPT !.pc = "store", !.tab = report.tab,
                                               !.report = report]]

\* _compute_impact: a failed consumer query is a report without consumers.
ReportImpact(c) ==
    /\ WalkOver(c) /\ call[c].tab = "impact"
    /\ \/ ToStore(c, Report(c, Readers(call[c].visited), {}, NoStored))
       \/ ToStore(c, [Report(c, {}, {}, NoStored) EXCEPT !.broken = TRUE])
    /\ UNCHANGED <<lineageRows, stored, landing, computed, floor>>

ReportRootCause(c) ==
    /\ WalkOver(c) /\ call[c].tab = "root_cause"
    /\ \E unread \in {{}} \union {{t} : t \in DOMAIN call[c].visited} :
         LET F == Flagged(call[c].visited, unread)
             marked(m) == [m EXCEPT !.broken = @ \/ unread # {}]
         IN \/ F = {} /\ ToStore(c, marked(Report(c, {}, {}, NoStored)))
            \/ \E prime \in Primes(F) :
                 ToStore(c, marked(Report(c, F, FailurePath(F, prime), prime)))
    /\ UNCHANGED <<lineageRows, stored, landing, computed, floor>>

\* A store that adds a row beside the one that is there.
Inserted(b, m) == stored[b] \union {m}

\* set, one MERGE: the row of the table and tab is replaced, or the first.
Merged(b, m) == {m}

StoreReport(c) ==
    /\ call[c].pc = "store"
    /\ LET tab == call[c].tab
       IN  /\ call' = [call EXCEPT ![c] = Answered(call[c].report)]
           /\ stored' = [stored EXCEPT ![tab] = Merged(tab, call[c].report)]
           /\ floor' = IF Others(c, tab) THEN floor
                       ELSE [floor EXCEPT ![tab] = call[c].report.began]
    /\ UNCHANGED <<lineageRows, landing, computed>>

\* Too large, the MERGE fails (then it is as if it had not been), or it is
\* still running when the wait is over.
StoreFails(c) ==
    /\ call[c].pc = "store"
    /\ call' = [call EXCEPT ![c] = Answered(call[c].report)]
    /\ landing' \in {landing, landing \union {call[c].report}}
    /\ UNCHANGED <<lineageRows, stored, computed, floor>>

StoreLands(m) ==
    /\ m \in landing
    /\ landing' = landing \ {m}
    /\ stored' = [stored EXCEPT ![m.tab] = Merged(m.tab, m)]
    /\ UNCHANGED <<lineageRows, call, computed, floor>>

EndCall(c) ==
    /\ call[c].pc = "answered"
    /\ call' = [call EXCEPT ![c] = NoCall]
    /\ UNCHANGED <<lineageRows, stored, landing, computed, floor>>

\* An admin evicts one tab, or (evict_table, evict_all) both.
EvictReports(B) ==
    /\ \E b \in B : stored[b] # {}
    /\ stored' = [b \in Tabs |-> IF b \in B THEN {} ELSE stored[b]]
    /\ UNCHANGED <<lineageRows, call, landing, computed, floor>>

RecordRow(r) ==
    /\ r \in MoreRows \ lineageRows
    /\ lineageRows' = lineageRows \union {r}
    /\ UNCHANGED <<call, stored, landing, computed, floor>>

TableReportsNext ==
    \/ \E c \in Callers :
         \/ \E b \in Tabs, h \in HopLimits : Ask(c, b, h) \/ AskAgain(c, b, h)
         \/ ServeStored(c) \/ MissStored(c) \/ WalkLevel(c) \/ LevelFails(c)
         \/ ReportImpact(c) \/ ReportRootCause(c)
         \/ StoreReport(c) \/ StoreFails(c) \/ EndCall(c)
    \/ \E m \in landing : StoreLands(m)
    \/ \E B \in SUBSET Tabs : EvictReports(B)
    \/ \E r \in MoreRows : RecordRow(r)

TableReportsSpec == TableReportsInit /\ [][TableReportsNext]_reportVars

-----------------------------------------------------------------------------
TableReportsTypeOK ==
    /\ \A c \in Callers :
          /\ call[c].pc \in {"idle", "look", "walk", "store", "answered"}
          /\ call[c].hop \in 0..call[c].hops /\ call[c].began \in 0..computed
          /\ DOMAIN call[c].visited \subseteq ReportTables \ {Focus}
    /\ \A b \in Tabs : floor[b] \in 0..computed

\* How far t is from the focus by the rows R, at most n.
Within(R, b, t, n) ==
    LET reach[i \in 0..n] == IF i = 0 THEN {Focus}
                             ELSE reach[i - 1] \union Further(R, b, reach[i - 1])
    IN  t \in reach[n]

ReportAnswers == {call[c].report : c \in {d \in Callers : call[d].pc = "answered"}}

\* _bfs_downstream ("to find all downstream tables ... {table: hop_distance}")
\* and _walk_upstream_tables, read one level at a time while rows arrive: no
\* answer lacks a table that was within its depth when it began, or puts it
\* farther than it was, and none is nearer than it is now.
ReportsReachAll ==
    \A m \in ReportAnswers : \A t \in ReportTables \ {Focus} :
        /\ ~m.broken => \A n \in 0..m.hops :
              Within(m.of, m.tab, t, n) => t \in DOMAIN m.tables /\ m.tables[t] <= n
        /\ t \in DOMAIN m.tables => Within(lineageRows, m.tab, t, m.tables[t])

\* "Only an explicit refresh or admin eviction replaces it", as far as it goes:
\* once a report is stored and no other is being made or is still landing, no
\* later answer is older.
AnswersDoNotGoBack ==
    [][\A c \in Callers :
         (call[c].pc # "answered" /\ call'[c].pc = "answered")
             => call'[c].report.began >= floor[call[c].tab]]_reportVars
=============================================================================
