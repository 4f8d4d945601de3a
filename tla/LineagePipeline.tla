--------------------------- MODULE LineagePipeline ---------------------------
(***************************************************************************)
(* The build job: run_daily_pipeline of transformation_lineage/pipeline.py,    *)
(* the version gate that lets it skip unchanged code, the Delta tables it      *)
(* fills, the readers of those tables, and the clears that empty them          *)
(* (clear_transform_lineage of backend/transform_service.py).                  *)
(*                                                                          *)
(* Several runs may be under way, of different tables or of one (the lock of   *)
(* BuildService covers only the jobs it knows of).  The job itself holds no    *)
(* lock; it commits table after table, and may die between two commits.        *)
(*                                                                          *)
(* A piece of code (artifact) is abstracted to the version token of its text   *)
(* and to the hops its parse yields; a column to its table.                    *)
(***************************************************************************)
EXTENDS Integers, Sequences, FiniteSets

CONSTANTS
    Runs,       \* pipeline_run_ids
    Tables,     \* fully qualified table names
    Artifacts,  \* extraction_ids: paths of notebooks, files, definitions
    Hops,       \* what parsing yields: artifact, source, and the target or None
    Discovers,  \* [Tables -> SUBSET Artifacts]: code that reads or writes a table
    Edits,      \* [Artifacts -> Nat], bound: how often each text is changed
    MaxClears,  \* bound: requests to clear
    None

Rows == [art : Artifacts, src : Tables, dst : Tables, content : Nat]

ASSUME PipelineAssumption ==
    /\ Hops \subseteq [art : Artifacts, src : Tables, dst : Tables \union {None}]
    /\ Discovers \in [Tables -> SUBSET Artifacts]
    /\ Edits \in [Artifacts -> Nat] /\ MaxClears \in Nat
    /\ None \notin Tables \union Nat

VARIABLES
    content,    \* the code itself, as the workspace has it
    recorded,   \* lineage_code_versions: the latest token per artifact
    nodes,      \* lineage_nodes: the tables with column nodes, per run
    edges,      \* lineage_edges: derive edges, per run
    endpoints,  \* lineage_edge_endpoints, per run
    stored,     \* the runs in order of materialized_at
    pc, table, force, got, new,  \* each run: its locals in run_daily_pipeline
    clear,      \* the statement clear_transform_lineage is about to execute
    scope,      \* what it clears: a table, or None for scope "all"
    clears,     \* clears so far (bounds)
    cleared,    \* history: runs that had begun when a clear deleted something
    forgotten   \* history: runs that had ended when a clear deleted the versions

versions == <<content, recorded>>
graph == <<nodes, edges, endpoints, stored>>
runVars == <<pc, table, force, got, new>>
clearVars == <<clear, scope, clears, cleared, forgotten>>
vars == <<versions, graph, runVars, clearVars>>

Working == {"extract", "check", "record", "nodes", "edges", "endpoints"}
Ended == {"done", "unchanged", "empty", "failed"}
ClearSteps == {"none", "endpoints", "nodes", "edges", "versions"}

TypeOK ==
    /\ content \in [Artifacts -> Nat]
    /\ recorded \in [Artifacts -> Nat \union {None}]
    /\ nodes \in [Runs -> SUBSET Tables]
    /\ edges \in [Runs -> SUBSET Rows]
    /\ endpoints \in [Runs -> SUBSET Rows]
    /\ stored \in Seq(Runs)
    /\ pc \in [Runs -> {"idle"} \union Working \union Ended]
    /\ table \in [Runs -> Tables \union {None}]
    /\ force \in [Runs -> BOOLEAN]
    /\ got \in [Runs -> [Artifacts -> Nat \union {None}]]
    /\ new \in [Runs -> SUBSET Artifacts]
    /\ clear \in ClearSteps
    /\ scope \in Tables \union {None}
    /\ clears \in 0..MaxClears
    /\ cleared \in SUBSET Runs
    /\ forgotten \in SUBSET Runs

Init ==
    /\ content = [a \in Artifacts |-> 0]
    /\ recorded = [a \in Artifacts |-> None]
    /\ nodes = [r \in Runs |-> {}]
    /\ edges = [r \in Runs |-> {}]
    /\ endpoints = [r \in Runs |-> {}]
    /\ stored = <<>>
    /\ pc = [r \in Runs |-> "idle"]
    /\ table = [r \in Runs |-> None]
    /\ force = [r \in Runs |-> FALSE]
    /\ got = [r \in Runs |-> [a \in Artifacts |-> None]]
    /\ new = [r \in Runs |-> {}]
    /\ clear = "none"
    /\ scope = None
    /\ clears = 0
    /\ cleared = {}
    /\ forgotten = {}

-----------------------------------------------------------------------------
(* Readers: _get_latest_run_id and load_edges of transform_service.py.         *)

Targeting(r, t) == \E x \in endpoints[r] : x.dst = t
Touching(r, t) == \E x \in endpoints[r] : t \in {x.src, x.dst}

\* The latest run with t as a target, or else the latest with t as a source.
ServingRun(t) ==
    LET candidates == IF \E r \in Runs : Targeting(r, t)
                        THEN {i \in DOMAIN stored : Targeting(stored[i], t)}
                        ELSE {i \in DOMAIN stored : Touching(stored[i], t)}
    IN  IF candidates = {} THEN None
        ELSE stored[CHOOSE i \in candidates : \A j \in candidates : j <= i]

-----------------------------------------------------------------------------
(* The run.                                                                   *)

Extracted(r) == {a \in Artifacts : got[r][a] # None}

\* Mutants: the fallback is lost.
TargetAsParsed(hop, t) == hop.dst
\* The table a mapping without a known output is attributed to: the run's only
\* KPI table (default_table_fqn).
Target(hop, t) == IF hop.dst = None THEN t ELSE hop.dst

\* parse_artifact_cells and build_graph_from_parse_results over the new artifacts;
\* a column is never derived from itself.
Parsed(r) ==
    {[art |-> h.art, src |-> h.src, dst |-> Target(h, table[r]), content |-> got[r][h.art]] :
        h \in {g \in Hops : g.art \in new[r] /\ g.src # Target(g, table[r])}}

Goto(r, l) == pc' = [pc EXCEPT ![r] = l]

\* A job of one table starts.  The freshness check of the build route only keeps
\* an unforced request away while the table's lineage is recent; time is not
\* modelled, so such a request may come at any time.
Begin(r, t, f) ==
    /\ pc[r] = "idle"
    /\ Goto(r, "extract")
    /\ table' = [table EXCEPT ![r] = t]
    /\ force' = [force EXCEPT ![r] = f]
    /\ UNCHANGED <<versions, graph, got, new, clearVars>>

\* run_extraction_phase and write_extracted_artifacts: whatever could be fetched
\* of the discovered code, each path once; a fetch that fails is only logged.
Extract(r) ==
    /\ pc[r] = "extract"
    /\ \E fetched \in SUBSET Discovers[table[r]] :
        /\ got' = [got EXCEPT ![r] =
                     [a \in Artifacts |-> IF a \in fetched THEN content[a] ELSE None]]
        /\ Goto(r, IF fetched = {} THEN "empty" ELSE "check")
    /\ UNCHANGED <<versions, graph, table, force, new, clearVars>>

\* Mutants: an id seen before counts as unchanged.
CheckKnownOnly(r) ==
    /\ pc[r] = "check"
    /\ Goto(r, "record")
    /\ new' = [new EXCEPT ![r] = {a \in Extracted(r) : recorded[a] = None}]
    /\ UNCHANGED <<versions, graph, table, force, got, clearVars>>
\* batch_check_versions: one query of the latest recorded tokens.
CheckVersions(r) ==
    /\ pc[r] = "check"
    /\ Goto(r, "record")
    /\ new' = [new EXCEPT ![r] = {a \in Extracted(r) : recorded[a] # got[r][a]}]
    /\ UNCHANGED <<versions, graph, table, force, got, clearVars>>

\* batch_record_versions, for all the artifacts; then force_reparse and the early
\* termination.  The version is on record before anything of it is parsed.
RecordVersions(r) ==
    LET toParse == IF force[r] THEN Extracted(r) ELSE new[r]
    IN  /\ pc[r] = "record"
        /\ recorded' = [a \in Artifacts |->
                          IF a \in Extracted(r) THEN got[r][a] ELSE recorded[a]]
        /\ new' = [new EXCEPT ![r] = toParse]
        /\ Goto(r, IF toParse = {} THEN "unchanged" ELSE "nodes")
        /\ UNCHANGED <<content, graph, table, force, got, clearVars>>

Ends(rows) == {x.src : x \in rows} \union {x.dst : x \in rows}
\* Mutants: only the produced columns become nodes.
WriteTargetNodes(r) ==
    /\ pc[r] = "nodes"
    /\ Goto(r, "edges")
    /\ nodes' = [nodes EXCEPT ![r] = {x.dst : x \in Parsed(r)}]
    /\ UNCHANGED <<versions, edges, endpoints, stored, table, force, got, new, clearVars>>
\* The first commit of write_graph_records, after the parse and the metrics.
WriteNodes(r) ==
    /\ pc[r] = "nodes"
    /\ Goto(r, "edges")
    /\ nodes' = [nodes EXCEPT ![r] = Ends(Parsed(r))]
    /\ UNCHANGED <<versions, edges, endpoints, stored, table, force, got, new, clearVars>>

\* Its second commit.
WriteEdges(r) ==
    /\ pc[r] = "edges"
    /\ Goto(r, "endpoints")
    /\ edges' = [edges EXCEPT ![r] = Parsed(r)]
    /\ UNCHANGED <<versions, nodes, endpoints, stored, table, force, got, new, clearVars>>

\* build_edge_endpoints, after the reconciliation and the KPI subgraphs, of which
\* nothing here depends: the join of the run's edges with both their nodes.
BuildEndpoints(r) ==
    /\ pc[r] = "endpoints"
    /\ Goto(r, "done")
    /\ endpoints' = [endpoints EXCEPT ![r] = {x \in edges[r] : {x.src, x.dst} \subseteq nodes[r]}]
    /\ stored' = Append(stored, r)
    /\ UNCHANGED <<versions, nodes, edges, table, force, got, new, clearVars>>

\* An exception of any phase, a cancelled or a crashed job.
Fail(r) ==
    /\ pc[r] \in Working
    /\ Goto(r, "failed")
    /\ UNCHANGED <<versions, graph, table, force, got, new, clearVars>>

-----------------------------------------------------------------------------
(* clear_transform_lineage, one DELETE after the other.                        *)

ClearBegin(t) ==
    /\ clear = "none" /\ clears < MaxClears
    /\ clear' = "endpoints"
    /\ scope' = t
    /\ clears' = clears + 1
    /\ UNCHANGED <<versions, graph, runVars, cleared, forgotten>>

\* One DELETE has succeeded, and step is next.
ClearTo(step) ==
    /\ clear' = step
    /\ cleared' = cleared \union {r \in Runs : pc[r] # "idle"}
    /\ UNCHANGED <<scope, clears>>

ClearEndpoints ==
    /\ clear = "endpoints"
    /\ endpoints' = [r \in Runs |-> {x \in endpoints[r] : scope # None /\ scope \notin {x.src, x.dst}}]
    /\ ClearTo("nodes")
    /\ UNCHANGED <<versions, nodes, edges, stored, runVars, forgotten>>

ClearNodes ==
    /\ clear = "nodes"
    /\ nodes' = [r \in Runs |-> IF scope = None THEN {} ELSE nodes[r] \ {scope}]
    /\ ClearTo("edges")
    /\ UNCHANGED <<versions, edges, endpoints, stored, runVars, forgotten>>

\* A derive edge is named by its target; those out of a cleared table stay.
ClearEdges ==
    /\ clear = "edges"
    /\ edges' = [r \in Runs |-> {x \in edges[r] : scope # None /\ x.dst # scope}]
    /\ ClearTo(IF scope = None THEN "versions" ELSE "none")
    /\ UNCHANGED <<versions, nodes, endpoints, stored, runVars, forgotten>>

\* Only scope "all" reaches the recorded versions.
ClearVersions ==
    /\ clear = "versions"
    /\ recorded' = [a \in Artifacts |-> None]
    /\ forgotten' = forgotten \union {r \in Runs : pc[r] \in Ended}
    /\ ClearTo("none")
    /\ UNCHANGED <<content, graph, runVars>>

\* A DELETE fails: scope "all" logs it and goes on, a table's clear ends there.
ClearFails ==
    /\ clear # "none"
    /\ clear' = CASE scope # None \/ clear = "versions" -> "none"
                  [] clear = "endpoints" -> "nodes"
                  [] clear = "nodes" -> "edges"
                  [] OTHER -> "versions"
    /\ UNCHANGED <<versions, graph, runVars, scope, clears, cleared, forgotten>>

-----------------------------------------------------------------------------
\* Somebody edits a notebook, or a parser version is deployed.
Edit(a) ==
    /\ content[a] < Edits[a]
    /\ content' = [content EXCEPT ![a] = @ + 1]
    /\ UNCHANGED <<recorded, graph, runVars, clearVars>>

RunStep(r) ==
    \/ \E t \in Tables, f \in BOOLEAN : Begin(r, t, f)
    \/ Extract(r) \/ CheckVersions(r) \/ RecordVersions(r)
    \/ WriteNodes(r) \/ WriteEdges(r) \/ BuildEndpoints(r)
    \/ Fail(r)

ClearStep ==
    \/ \E t \in Tables \union {None} : ClearBegin(t)
    \/ ClearEndpoints \/ ClearNodes \/ ClearEdges \/ ClearVersions \/ ClearFails

Next ==
    \/ \E r \in Runs : RunStep(r)
    \/ ClearStep
    \/ \E a \in Artifacts : Edit(a)

Spec == Init /\ [][Next]_vars

-----------------------------------------------------------------------------
\* A run that reports success serves exactly what it parsed: the join over three
\* separately committed tables loses no hop and takes none from another run, unless
\* a clear deleted rows after the run had begun (build_edge_endpoints).
DoneMeansServed ==
    \A r \in Runs : pc[r] = "done" /\ r \notin cleared => endpoints[r] = Parsed(r)

\* What later builds will skip was taken up by a run: the very text on record was
\* parsed by a run that is still at it, that failed, or whose hops of that text are
\* stored.  Where a clear came in, a run that overlapped it put the text on record;
\* a wipe leaves nothing on record from the runs that had ended by then.  So the
\* version gate (versioning/change_detection.py) loses an artifact only to a run that
\* fails after RecordVersions or to a clear.
Took(r, a) ==
    /\ a \in new[r]
    /\ \/ pc[r] \in Working \union {"failed"}
       \/ {x \in Parsed(r) : x.art = a} \subseteq endpoints[r]
Accounts(r, a, c) == got[r][a] = c /\ r \notin forgotten /\ (r \in cleared \/ Took(r, a))
SkippedMeansTaken ==
    \A a \in Artifacts : recorded[a] # None => \E r \in Runs : Accounts(r, a, recorded[a])
=============================================================================
