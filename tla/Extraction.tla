-------------------------------- MODULE Extraction --------------------------------
(***************************************************************************)
(* The extraction phase of the pipeline                                    *)
(* (transformation_lineage/extraction): which source texts a run parses    *)
(* for its target table. Definitions are read first; then job runs,        *)
(* notebooks and DLT pipelines, each kind by a pool of threads whose       *)
(* results arrive in any order; then the query history, for a table nobody *)
(* is known to write. LineagePipeline has the phase as one step that       *)
(* yields artifacts.                                                       *)
(*                                                                         *)
(* Discovery is a query that nobody caches: what it says of job runs, of   *)
(* the target, of notebooks and of pipelines is read by four executions    *)
(* over a window of time that moves, so each read is of its own rows.      *)
(*                                                                         *)
(* An artifact is identified by the tag of where its text was read (the    *)
(* hash of it is the extraction id); its text is abstracted to whether     *)
(* there is one.                                                           *)
(***************************************************************************)
EXTENDS Naturals, Sequences, FiniteSets

CONSTANTS
    JobRuns,      \* job runs that discovery may find
    TasksOf,      \* per job run, its tasks: [kind, path]
    GitRuns,      \* job runs whose run or job has a git source
    Foreign,      \* paths whose language is neither SQL nor Python
    Notebooks,    \* notebooks that discovery may find
    PathsOf,      \* per notebook, the paths it had, the present one last
    Dlts,         \* DLT pipelines that discovery may find
    LibrariesOf,  \* per DLT pipeline, the source paths of its libraries
    MaxJobRuns    \* max_runs_per_execution, 0 for no limit

ASSUME ExtractionAssumption ==
    /\ MaxJobRuns \in Nat /\ GitRuns \subseteq JobRuns
    /\ \A j \in JobRuns :
          /\ TasksOf[j] \subseteq [kind : {"notebook", "python", "sql_file", "other"}, path : STRING]
          /\ IsFiniteSet(TasksOf[j])
    /\ \A n \in Notebooks : PathsOf[n] \in Seq(STRING) \ {<< >>}
    /\ \A d \in Dlts : IsFiniteSet(LibrariesOf[d])

Kinds == {"plain", "view", "foreign", "unknown"}
Reasons == {"external_source", "definition_unreadable", "no_resolvable_tasks", "resolve_error",
            "notebook_path_unresolved_or_empty", "pipeline_no_libraries",
            "query_history_unavailable", "no_producing_query"}
Workspace(p) == <<"workspace", p>>
Git(p) == <<"git", p>>
Library(p) == <<"pipeline", p>>
Definition == <<"definition", "target">>
HistoryTag == <<"query_history", "target">>

\* resolve_run_tasks: a notebook or a SQL file is read from git when the run or its job
\* has a git source; a Python file always from the workspace; other tasks not at all.
SourceOf(j, t) == IF t.kind # "python" /\ j \in GitRuns THEN Git(t.path) ELSE Workspace(t.path)
RunSources(j) == {SourceOf(j, t) : t \in {x \in TasksOf[j] : x.kind # "other" /\ x.path \notin Foreign}}

\* resolve_pipeline_libraries, less what _fetch_pipeline passes over.
DltSources(d) == {Library(p) : p \in LibrariesOf[d] \ Foreign}

Tags == (UNION {RunSources(j) : j \in JobRuns}) \union (UNION {DltSources(d) : d \in Dlts})
        \union {Workspace(PathsOf[n][Len(PathsOf[n])]) : n \in Notebooks}
        \union {Definition, HistoryTag}

VARIABLES
    phase,      \* how far the run is
    found,      \* what has been read of discovery so far, each part when it is read, and
                \* whether the target is covered
    waiting,    \* futures of the current pool that have not returned
    artifacts,  \* tags in the order their texts arrived
    reasons,    \* skip_reasons of the report, with their counts
    report,     \* runs_attempted and artifacts_extracted
    pathCache,  \* notebook_path_cache: per notebook a path or none, kept across runs
    kept        \* what the phase returns

extractVars == <<phase, found, waiting, artifacts, reasons, report, pathCache, kept>>

NoFind == [jobs |-> {}, notebooks |-> {}, dlts |-> {}, covered |-> FALSE]
NoReport == [attempted |-> 0, extracted |-> 0]

ExtractTypeOK ==
    /\ phase \in {"idle", "definition", "covered", "jobs", "resolve", "notebooks", "dlts", "history", "dedupe", "done"}
    /\ found \in [jobs : SUBSET JobRuns, notebooks : SUBSET Notebooks, dlts : SUBSET Dlts,
                  covered : BOOLEAN]
    /\ waiting \subseteq JobRuns \union Notebooks \union Dlts
    /\ \A i \in DOMAIN artifacts : artifacts[i] \in Tags
    /\ DOMAIN reasons = Reasons /\ \A r \in Reasons : reasons[r] \in Nat
    /\ report.attempted \in Nat /\ report.extracted \in Nat
    /\ \A n \in Notebooks : pathCache[n] \in 0..Len(PathsOf[n])
    /\ \A i \in DOMAIN kept : kept[i] \in Tags

ExtractInit ==
    /\ phase = "idle" /\ found = NoFind /\ waiting = {} /\ artifacts = << >>
    /\ reasons = [r \in Reasons |-> 0] /\ report = NoReport
    /\ pathCache \in [Notebooks -> {0, 1}] /\ kept = << >>

-----------------------------------------------------------------------------
Skip(r) == reasons' = [reasons EXCEPT ![r] = @ + 1]

\* A future of the pool returned the texts read under these tags, in this order.
Arrived(tags) ==
    /\ artifacts' = artifacts \o tags
    /\ report' = [report EXCEPT !.extracted = @ + Len(tags)]

\* max_runs_per_execution cuts the sorted run ids.
Chosen(jobs) ==
    {js \in SUBSET jobs : \/ MaxJobRuns > 0 /\ Cardinality(js) = MaxJobRuns
                          \/ js = jobs /\ (MaxJobRuns = 0 \/ Cardinality(jobs) <= MaxJobRuns)}

\* discover_lineage_runs and distinct_run_ids: the job runs of the window's rows.
Discover(jobs) ==
    /\ phase = "idle"
    /\ \E js \in Chosen(jobs) : found' = [found EXCEPT !.jobs = js]
    /\ phase' = "definition"
    /\ UNCHANGED <<waiting, artifacts, reasons, report, pathCache, kept>>

\* _extract_object_definitions, for the target.
ReadDefinition(kind) ==
    /\ phase = "definition"
    /\ \/ kind \in {"plain", "unknown"} /\ UNCHANGED <<artifacts, reasons, report, found>>
       \/ kind = "foreign" /\ Skip("external_source") /\ UNCHANGED <<artifacts, report, found>>
       \/ kind = "view" /\ Skip("definition_unreadable") /\ UNCHANGED <<artifacts, report, found>>
       \/ /\ kind = "view" /\ Arrived(<<Definition>>)
          /\ found' = [found EXCEPT !.covered = TRUE]
          /\ UNCHANGED reasons
    /\ phase' = "covered"
    /\ UNCHANGED <<waiting, pathCache, kept>>

\* Is the target the target of a row?  A read that fails counts as no.  Then the job
\* runs are submitted.
ReadCovered(covered) ==
    /\ phase = "covered"
    /\ found' = [found EXCEPT !.covered = @ \/ covered]
    /\ phase' = "jobs" /\ waiting' = found.jobs
    /\ UNCHANGED <<artifacts, reasons, report, pathCache, kept>>

Texts(tags) ==
    {s \in UNION {[1..n -> tags] : n \in 0..Cardinality(tags)} :
        \A i, k \in DOMAIN s : i # k => s[i] # s[k]}

\* A job run's future (_process_single_run): no tasks, or only blank texts, is a skip;
\* a fetch that raises loses the run's other texts too.
JobReturns(j) ==
    /\ phase = "jobs" /\ j \in waiting
    /\ waiting' = waiting \ {j}
    /\ \/ \E s \in Texts(RunSources(j)) \ {<< >>} :
            /\ artifacts' = artifacts \o s
            /\ report' = [attempted |-> report.attempted + 1,
                          extracted |-> report.extracted + Len(s)]
            /\ UNCHANGED reasons
       \/ /\ Skip("no_resolvable_tasks") \/ (RunSources(j) # {} /\ Skip("resolve_error"))
          /\ report' = [report EXCEPT !.attempted = @ + 1]
          /\ UNCHANGED artifacts
    /\ UNCHANGED <<phase, found, pathCache, kept>>

JobsDone ==
    /\ phase = "jobs" /\ waiting = {}
    /\ phase' = "resolve"
    /\ UNCHANGED <<found, waiting, artifacts, reasons, report, pathCache, kept>>

\* distinct_notebook_entities, and _resolve_notebook_paths_batch: cached paths first; the
\* audit log is scanned for the others, and what it tells is cached.  Either of the batch's
\* queries may fail.
ResolvePaths(notebooks) ==
    /\ phase = "resolve"
    /\ found' = [found EXCEPT !.notebooks = notebooks]
    /\ \E heard \in SUBSET {n \in notebooks : pathCache[n] = 0} :
         pathCache' = [n \in Notebooks |-> IF n \in heard THEN Len(PathsOf[n]) ELSE pathCache[n]]
    /\ phase' = "notebooks" /\ waiting' = notebooks
    /\ UNCHANGED <<artifacts, reasons, report, kept>>

\* A notebook's future: a path that is not known, one the notebook has left, a failed
\* fetch and a blank text all count the same.
NotebookReturns(n) ==
    /\ phase = "notebooks" /\ n \in waiting
    /\ waiting' = waiting \ {n}
    /\ \/ /\ pathCache[n] = Len(PathsOf[n])
          /\ artifacts' = Append(artifacts, Workspace(PathsOf[n][pathCache[n]]))
          /\ report' = [attempted |-> report.attempted + 1, extracted |-> report.extracted + 1]
          /\ UNCHANGED reasons
       \/ /\ Skip("notebook_path_unresolved_or_empty")
          /\ report' = [report EXCEPT !.attempted = @ + 1]
          /\ UNCHANGED artifacts
    /\ UNCHANGED <<phase, found, pathCache, kept>>

\* distinct_pipeline_entities.
NotebooksDone(dlts) ==
    /\ phase = "notebooks" /\ waiting = {}
    /\ found' = [found EXCEPT !.dlts = dlts]
    /\ phase' = "dlts" /\ waiting' = dlts
    /\ UNCHANGED <<artifacts, reasons, report, pathCache, kept>>

\* A DLT pipeline's future: a library that cannot be fetched is left out.
DltReturns(d) ==
    /\ phase = "dlts" /\ d \in waiting
    /\ waiting' = waiting \ {d}
    /\ \/ \E s \in Texts(DltSources(d)) \ {<< >>} :
            /\ artifacts' = artifacts \o s
            /\ report' = [attempted |-> report.attempted + 1,
                          extracted |-> report.extracted + Len(s)]
            /\ UNCHANGED reasons
       \/ /\ Skip("pipeline_no_libraries")
          /\ report' = [report EXCEPT !.attempted = @ + 1]
          /\ UNCHANGED artifacts
    /\ UNCHANGED <<phase, found, pathCache, kept>>

DltsDone ==
    /\ phase = "dlts" /\ waiting = {}
    /\ phase' = IF found.covered THEN "dedupe" ELSE "history"
    /\ UNCHANGED <<found, waiting, artifacts, reasons, report, pathCache, kept>>

\* _extract_from_query_history: only for a target neither the definition nor an entity
\* covers; the newest statement that writes it.
SearchHistory ==
    /\ phase = "history"
    /\ \/ Arrived(<<HistoryTag>>) /\ UNCHANGED reasons
       \/ \E r \in {"query_history_unavailable", "no_producing_query"} :
            Skip(r) /\ UNCHANGED <<artifacts, report>>
    /\ phase' = "dedupe"
    /\ UNCHANGED <<found, waiting, pathCache, kept>>

\* Mutant: neighbours that are equal are dropped.
NewAt(i) == i = 1 \/ artifacts[i - 1] # artifacts[i]

FirstAt(i) == \A k \in 1..i - 1 : artifacts[k] # artifacts[i]

\* The first artifact of an extraction id is kept.
Dedupe ==
    /\ phase = "dedupe"
    /\ LET firsts == {i \in DOMAIN artifacts : FirstAt(i)}
           nth(n) == CHOOSE i \in firsts : Cardinality({k \in firsts : k < i}) = n - 1
       IN  kept' = [n \in 1..Cardinality(firsts) |-> artifacts[nth(n)]]
    /\ phase' = "done"
    /\ UNCHANGED <<found, waiting, artifacts, reasons, report, pathCache>>

\* The notebook path cache outlives the run.
NextExtraction ==
    /\ phase = "done"
    /\ phase' = "idle" /\ found' = NoFind /\ artifacts' = << >> /\ kept' = << >>
    /\ reasons' = [r \in Reasons |-> 0] /\ report' = NoReport
    /\ UNCHANGED <<waiting, pathCache>>

ExtractNext ==
    \/ \E jobs \in SUBSET JobRuns : Discover(jobs)
    \/ \E kind \in Kinds : ReadDefinition(kind)
    \/ \E covered \in BOOLEAN : ReadCovered(covered)
    \/ \E j \in JobRuns : JobReturns(j)
    \/ JobsDone
    \/ \E notebooks \in SUBSET Notebooks : ResolvePaths(notebooks)
    \/ \E n \in Notebooks : NotebookReturns(n)
    \/ \E dlts \in SUBSET Dlts : NotebooksDone(dlts)
    \/ \E d \in Dlts : DltReturns(d)
    \/ DltsDone
    \/ SearchHistory
    \/ Dedupe
    \/ NextExtraction

ExtractSpec == ExtractInit /\ [][ExtractNext]_extractVars

-----------------------------------------------------------------------------
\* One read says that an entity writes the target, the others find not one entity: rows
\* landed or aged out between them, or name no entity.
CoveredByNobody == found.covered /\ found.jobs \union found.notebooks \union found.dlts = {}

\* A phase that found no source text says why (the reason a user is told when a build
\* of the table brings nothing), unless the reads of discovery contradict each other:
\* then the query history is not searched and nothing is said.
EmptyIsExplained ==
    phase = "done" /\ kept = << >> => CoveredByNobody \/ \E r \in Reasons : reasons[r] > 0

\* Every text that arrived is returned exactly once, whichever future brought it, and
\* the order is the one of the first arrivals.
KeptOnce ==
    phase = "done" =>
        /\ {kept[i] : i \in DOMAIN kept} = {artifacts[i] : i \in DOMAIN artifacts}
        /\ \A i, k \in DOMAIN kept : i # k => kept[i] # kept[k]
        /\ Len(artifacts) = report.extracted

\* The extraction's account is right: of what it returns, and of why there is nothing.
ExtractionAccounts == EmptyIsExplained /\ KeptOnce

=============================================================================
