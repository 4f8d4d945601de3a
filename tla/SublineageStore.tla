------------------------------ MODULE SublineageStore ------------------------------
(***************************************************************************)
(* What the searches of ColumnGraph are run on and where their results are *)
(* kept: the hops a pipeline run writes                                    *)
(* (sublineage/edge_endpoints_builder.py), the SQL translations of their   *)
(* expressions (expression_enricher.py), the per-session caches of graphs  *)
(* and version hashes (api.py) and the shared table of path results        *)
(* (cache_keys.py). Pipeline runs and notebook sessions are concurrent.    *)
(*                                                                         *)
(* A hop's edge_id is a hash of the notebook's path and the hop's columns, *)
(* not of its expression (parsing/graph_builder.py), so a hop stands for   *)
(* its edge_id. A path result is the part of the graph it shows, here all  *)
(* of it.                                                                  *)
(***************************************************************************)
EXTENDS Naturals, FiniteSets

CONSTANTS
    StoreRuns,   \* pipeline runs, 1..n in the order they write their hops
    StoreHops,   \* edge ids
    Exprs,       \* texts of PySpark expressions
    Contents,    \* bound: what a run may write, the expression of each of its hops
    Sessions     \* notebook sessions

ASSUME StoreAssumption ==
    /\ StoreRuns \subseteq Nat \ {0} /\ IsFiniteSet(StoreRuns)
    /\ Contents \subseteq UNION {[g -> Exprs] : g \in SUBSET StoreHops}

NoRun == 0
NoHash == {"no hash"}
\* A graph: per hop its expression and whether the SQL of it was there.
Graphs == UNION {[g -> [expr : Exprs, sql : BOOLEAN]] : g \in SUBSET StoreHops}
NoGraph == [h \in {"none"} |-> [expr |-> "none", sql |-> FALSE]]

VARIABLES
    written,      \* per run, the hops in lineage_edge_endpoints
    stage,        \* per run, how far it is
    pending,      \* per run, the expressions its enrichment translates
    translations, \* the pyspark_to_sql cache: per expression "none", "null" or "sql"
    paid,         \* per expression, how often the LLM was asked
    overlapped,   \* history: expressions asked for by two enrichments at a time
    graphCache,   \* _GRAPH_CACHE: per session and run
    hashCache,    \* _VERSION_CACHE: per session and run
    keptPaths,    \* lineage_sublineage_cache: the newest row per version hash
    query         \* per session, the query it runs

storeVars == <<written, stage, pending, translations, paid, overlapped,
               graphCache, hashCache, keptPaths, query>>
sessionVars == <<graphCache, hashCache, keptPaths, query>>
enrichVars == <<pending, translations, paid, overlapped>>

Stages == {"new", "cleared", "written", "asking", "merging", "enriched", "failed"}
NoQuery == [pc |-> "idle", run |-> NoRun, cached |-> FALSE, hash |-> NoHash, shows |-> NoGraph]

StoreTypeOK ==
    /\ written \in [StoreRuns -> Graphs \union {NoGraph}]
    /\ stage \in [StoreRuns -> Stages]
    /\ pending \in [StoreRuns -> SUBSET Exprs]
    /\ translations \in [Exprs -> {"none", "null", "sql"}]
    /\ paid \in [Exprs -> 0..Cardinality(StoreRuns)] /\ overlapped \subseteq Exprs
    /\ graphCache \in [Sessions -> [StoreRuns -> Graphs \union {NoGraph}]]
    /\ hashCache \in [Sessions -> [StoreRuns -> (SUBSET StoreHops) \union {NoHash}]]
    /\ keptPaths \in [SUBSET StoreHops -> Graphs \union {NoGraph}]
    /\ query \in [Sessions -> [pc : {"idle", "hash", "paths", "graph", "answered"},
                    run : StoreRuns \union {NoRun}, cached : BOOLEAN,
                    hash : (SUBSET StoreHops) \union {NoHash}, shows : Graphs \union {NoGraph}]]

StoreInit ==
    /\ written = [r \in StoreRuns |-> NoGraph] /\ stage = [r \in StoreRuns |-> "new"]
    /\ pending = [r \in StoreRuns |-> {}] /\ translations = [e \in Exprs |-> "none"]
    /\ paid = [e \in Exprs |-> 0] /\ overlapped = {}
    /\ graphCache = [s \in Sessions |-> [r \in StoreRuns |-> NoGraph]]
    /\ hashCache = [s \in Sessions |-> [r \in StoreRuns |-> NoHash]]
    /\ keptPaths = [h \in SUBSET StoreHops |-> NoGraph]
    /\ query = [s \in Sessions |-> NoQuery]

-----------------------------------------------------------------------------
InTable == {r \in StoreRuns : written[r] # NoGraph}

\* build_edge_endpoints: rows of the run are deleted (a run has none) ...
ClearHops(r) ==
    /\ stage[r] = "new"
    /\ \A q \in StoreRuns : q < r => stage[q] # "new"
    /\ stage' = [stage EXCEPT ![r] = "cleared"]
    /\ written' = [written EXCEPT ![r] = NoGraph]
    /\ UNCHANGED <<enrichVars, sessionVars>>

\* ... and the joined ones inserted, without SQL for the PySpark expressions.
InsertHops(r) ==
    /\ stage[r] = "cleared"
    /\ \E text \in Contents :
         written' = [written EXCEPT ![r] = [h \in DOMAIN text |->
                                               [expr |-> text[h], sql |-> FALSE]]]
    /\ stage' = [stage EXCEPT ![r] = "written"]
    /\ UNCHANGED <<enrichVars, sessionVars>>

\* The snippets without a row in the cache; a NULL translation is a row too.
NewOf(todo) == {e \in todo : translations[e] = "none"}

\* enrich_pyspark_expressions: the run's expressions without SQL, and of those the ones
\* the LLM is asked for, in one INSERT ... SELECT ai_query.
AskTranslations(r) ==
    LET todo == {written[r][h].expr : h \in {x \in DOMAIN written[r] : ~written[r][x].sql}}
        new == NewOf(todo)
    IN  /\ stage[r] = "written"
        /\ stage' = [stage EXCEPT ![r] = IF todo = {} THEN "enriched" ELSE "asking"]
        /\ pending' = [pending EXCEPT ![r] = new]
        /\ paid' = [e \in Exprs |-> paid[e] + IF e \in new THEN 1 ELSE 0]
        /\ overlapped' = overlapped \union
             {e \in new : \E q \in StoreRuns : stage[q] = "asking" /\ e \in pending[q]}
        /\ UNCHANGED <<written, translations, sessionVars>>

\* The INSERT commits; ai_query answers with SQL or with NULL.  Rows of two runs for one
\* expression are collapsed to any one that is not NULL.
KeepTranslations(r) ==
    /\ stage[r] = "asking"
    /\ \E got \in [pending[r] -> {"null", "sql"}] :
         translations' = [e \in Exprs |-> IF e \in pending[r] /\ translations[e] # "sql"
                                          THEN got[e] ELSE translations[e]]
    /\ stage' = [stage EXCEPT ![r] = "merging"]
    /\ UNCHANGED <<written, pending, paid, overlapped, sessionVars>>

\* A hop whose SQL is there when it was, or when it is known.
WithSql(hop, known) == [hop EXCEPT !.sql = @ \/ known]

\* Mutant: only the run's own new translations are merged back.
BackfillOwn(r) ==
    /\ stage[r] = "merging"
    /\ written' = [written EXCEPT ![r] = [h \in DOMAIN written[r] |->
         WithSql(written[r][h], written[r][h].expr \in pending[r]
                                /\ translations[written[r][h].expr] = "sql")]]
    /\ stage' = [stage EXCEPT ![r] = "enriched"]
    /\ UNCHANGED <<enrichVars, sessionVars>>

\* The MERGE: every row of the run whose expression has a translation.
Backfill(r) ==
    /\ stage[r] = "merging"
    /\ written' = [written EXCEPT ![r] = [h \in DOMAIN written[r] |->
         WithSql(written[r][h], translations[written[r][h].expr] = "sql")]]
    /\ stage' = [stage EXCEPT ![r] = "enriched"]
    /\ UNCHANGED <<enrichVars, sessionVars>>

\* Any statement raises: the pipeline goes on, the rows stay without SQL.
EnrichFails(r) ==
    /\ stage[r] \in {"asking", "merging"}
    /\ stage' = [stage EXCEPT ![r] = "failed"]
    /\ pending' = [pending EXCEPT ![r] = {}]
    /\ UNCHANGED <<written, translations, paid, overlapped, sessionVars>>

-----------------------------------------------------------------------------
QueryStep(s, from, to) ==
    /\ query[s].pc = from
    /\ query' = [query EXCEPT ![s] = to]
    /\ UNCHANGED <<written, stage, enrichVars>>

\* find_paths or backtrack_target: a named run of the table, or the latest one.
AskRun(s, r, cached) ==
    /\ r \in InTable
    /\ QueryStep(s, "idle", [NoQuery EXCEPT !.pc = "hash", !.run = r, !.cached = cached])
    /\ UNCHANGED <<graphCache, hashCache, keptPaths>>

\* compute_version_hash: over the sorted edge ids, once per session and run.
HashOf(s, r) == IF hashCache[s][r] # NoHash THEN hashCache[s][r] ELSE DOMAIN written[r]

VersionHash(s) ==
    LET r == query[s].run
        h == HashOf(s, r)
    IN  /\ QueryStep(s, "hash", [query[s] EXCEPT !.pc = IF query[s].cached THEN "paths" ELSE "graph",
                                                 !.hash = h])
        /\ hashCache' = [hashCache EXCEPT ![s][r] = h]
        /\ UNCHANGED <<graphCache, keptPaths>>

\* read_cache: the newest row of the key, whichever run it was computed for.
ReadPathCache(s) ==
    LET row == keptPaths[query[s].hash]
    IN  /\ QueryStep(s, "paths",
             IF row = NoGraph THEN [query[s] EXCEPT !.pc = "graph"]
             ELSE [query[s] EXCEPT !.pc = "answered", !.shows = row])
        /\ UNCHANGED <<graphCache, hashCache, keptPaths>>

\* The graph of the run, loaded once per session; the result is appended to the cache
\* when there are paths, a backtrack's is not.
SearchGraph(s) ==
    LET r == query[s].run
        g == IF graphCache[s][r] # NoGraph THEN graphCache[s][r] ELSE written[r]
    IN  /\ QueryStep(s, "graph", [query[s] EXCEPT !.pc = "answered", !.shows = g])
        /\ graphCache' = [graphCache EXCEPT ![s][r] = g]
        /\ keptPaths' = IF query[s].cached THEN [keptPaths EXCEPT ![query[s].hash] = g]
                        ELSE keptPaths
        /\ UNCHANGED hashCache

EndQuery(s) ==
    /\ QueryStep(s, "answered", NoQuery)
    /\ UNCHANGED <<graphCache, hashCache, keptPaths>>

\* invalidate_graph_cache: this session's caches, never the shared table.
InvalidateGraphs(s) ==
    /\ QueryStep(s, "idle", NoQuery)
    /\ graphCache' = [graphCache EXCEPT ![s] = [r \in StoreRuns |-> NoGraph]]
    /\ hashCache' = [hashCache EXCEPT ![s] = [r \in StoreRuns |-> NoHash]]
    /\ UNCHANGED keptPaths

StoreNext ==
    \/ \E r \in StoreRuns : ClearHops(r)
    \/ \E r \in StoreRuns : InsertHops(r)
    \/ \E r \in StoreRuns : AskTranslations(r)
    \/ \E r \in StoreRuns : KeepTranslations(r)
    \/ \E r \in StoreRuns : Backfill(r)
    \/ \E r \in StoreRuns : EnrichFails(r)
    \/ \E s \in Sessions, r \in StoreRuns, cached \in BOOLEAN : AskRun(s, r, cached)
    \/ \E s \in Sessions : VersionHash(s)
    \/ \E s \in Sessions : ReadPathCache(s)
    \/ \E s \in Sessions : SearchGraph(s)
    \/ \E s \in Sessions : EndQuery(s)
    \/ \E s \in Sessions : InvalidateGraphs(s)

StoreSpec == StoreInit /\ [][StoreNext]_storeVars

-----------------------------------------------------------------------------
\* The LLM is paid once for an expression, across runs, unless an enrichment failed or
\* another one asked for the same expression at that moment.
TranslatedOnce ==
    \A e \in Exprs : \/ paid[e] <= 1
                     \/ e \in overlapped
                     \/ \E r \in StoreRuns : stage[r] = "failed"

\* A run whose enrichment ended shows the SQL of every expression that had been
\* translated when it asked, by itself or by another run.
BackfilledAll ==
    \A r \in StoreRuns : stage[r] = "enriched" =>
        \A h \in DOMAIN written[r] :
            LET e == written[r][h].expr
            IN  /\ written[r][h].sql => translations[e] = "sql"
                /\ translations[e] = "sql" /\ e \notin overlapped => written[r][h].sql

\* An answer is made of the hops of the run it names, through two caches of a session
\* and a shared table that does not know of runs.
AnswersTheRun ==
    \A s \in Sessions : query[s].pc = "answered" =>
        DOMAIN query[s].shows = DOMAIN written[query[s].run]

\* The version hash changes whenever "the underlying expression changes (because
\* edge_id derives from content)" (cache_keys.py:29), so an answer shows the expressions
\* of the run it names.
AnswersWithTheText ==
    \A s \in Sessions : query[s].pc = "answered" =>
        \A h \in DOMAIN query[s].shows \intersect DOMAIN written[query[s].run] :
            query[s].shows[h].expr = written[query[s].run][h].expr

\* What sessions and runs share, hops by runs, translations and path results, is each
\* run's own where it must be and paid for once where it may be shared.
SharedRight == TranslatedOnce /\ BackfilledAll /\ AnswersTheRun

=============================================================================
