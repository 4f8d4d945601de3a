---------------------------- MODULE ProducerAnalysis ----------------------------
(***************************************************************************)
(* The LLM analysis of the code that writes a table: routes/lineage.py,    *)
(* server/producer_source.py, server/framework_analysis.py and the append- *)
(* only table of versions in server/analysis_store.py.                     *)
(*                                                                         *)
(* One target table, several producers, each a pipeline of several source  *)
(* files. The text of a file is its edit number; whether the LLM finds     *)
(* column logic in a source is left open. Requests that analyse one        *)
(* producer run on the event loop, which they block, so at most one of     *)
(* them is under way; deep analyses and comparisons of producers run in    *)
(* worker threads.                                                         *)
(***************************************************************************)
EXTENDS Integers, Sequences, FiniteSets

CONSTANTS
    Producers,   \* recorded producers of the table
    Elsewhere,   \* those of them that run in a registered peer workspace
    Files,       \* source files
    FilesOf,     \* per producer, the files of its pipeline
    Guarded,     \* bound: the files access may be denied to (else to all of them)
    Edited,      \* bound: the producers and files that are edited
    Loop,        \* the event loop, which serves one blocking analysis at a time
    Pool,        \* worker threads
    MaxEdits,    \* bound: edits of source files
    MaxVersions  \* bound: rows of the versions table

ASSUME AnalysisAssumption ==
    /\ Elsewhere \subseteq Producers
    /\ FilesOf \in [Producers -> SUBSET Files]
    /\ Edited \subseteq Producers \X Files
    /\ MaxEdits \in Nat /\ MaxVersions \in Nat

Unread == -1
NoOne == "nobody"
NothingRead == [f \in Files |-> Unread]

Analysts == {Loop} \union Pool

VARIABLES
    disk,      \* per producer and file, the edit it is at
    versions,  \* the analysis table, in the order the rows were inserted
    job,       \* per request: what it is doing
    clashed    \* history: rows numbered after a failed MAX, or beside another save

analysisVars == <<disk, versions, job, clashed>>

NoJob == [pc |-> "idle", guessed |-> FALSE, deep |-> FALSE, force |-> FALSE, routed |-> TRUE,
          producer |-> NoOne, src |-> NothingRead, row |-> 0, next |-> 0,
          stale |-> FALSE, answer |-> "none", from |-> 0, rest |-> {}]

AnalysisTypeOK ==
    /\ disk \in [Producers -> [Files -> 0..MaxEdits]]
    /\ Len(versions) <= MaxVersions
    /\ \A i \in DOMAIN versions :
          versions[i] \in [producer : Producers, version : 1..MaxVersions,
                          src : [Files -> Unread..MaxEdits]]
    /\ job \in [Analysts ->
         [pc : {"idle", "load", "hash", "fetch", "config", "llm", "number",
                "insert", "answered"},
          guessed : BOOLEAN, deep : BOOLEAN, force : BOOLEAN, routed : BOOLEAN,
          producer : Producers \union {NoOne},
          src : [Files -> Unread..MaxEdits], row : 0..MaxVersions, next : 0..MaxVersions + 1,
          stale : BOOLEAN, answer : {"none", "stored", "llm", "unavailable"},
          from : 0..MaxVersions, rest : SUBSET Producers]]
    /\ clashed \subseteq 1..MaxVersions

AnalysisInit ==
    /\ disk = [p \in Producers |-> [f \in Files |-> 0]]
    /\ versions = << >>
    /\ job = [a \in Analysts |-> NoJob]
    /\ clashed = {}

-----------------------------------------------------------------------------
Ours(p) == {i \in DOMAIN versions : versions[i].producer = p}
Top(p) == IF Ours(p) = {} THEN 0
          ELSE CHOOSE v \in {versions[i].version : i \in Ours(p)} :
                   \A i \in Ours(p) : versions[i].version <= v

\* get_latest_version: ORDER BY version DESC LIMIT 1, any one of equals.
Latest(p) == {i \in Ours(p) : versions[i].version = Top(p)}

JobStep(a, from, to) == job[a].pc = from /\ job' = [job EXCEPT ![a] = to]

\* A request of p begins; the rows inserted by now are rows it must find.
Began(p, force) ==
    [NoJob EXCEPT !.pc = IF force THEN "fetch" ELSE "load", !.producer = p,
                  !.force = force, !.from = IF force THEN 0 ELSE Len(versions)]

\* analyze_producer_endpoint and column_transformations: the caller may name p (a
\* recorded producer, or an admin), and its workspace resolves.
AskAnalysis(p, force) ==
    /\ JobStep(Loop, "idle", Began(p, force))
    /\ UNCHANGED <<disk, versions, clashed>>

\* get_latest_for_table: the row of the table inserted last.
NewestRow == Len(versions)

\* column_transformations without a producer: the newest row of the table by time,
\* compared with its producer's source as read from the app's OWN workspace.
AskTable ==
    /\ versions # << >>
    /\ LET i == NewestRow
       IN  JobStep(Loop, "idle", [NoJob EXCEPT !.pc = "hash", !.routed = FALSE,
                     !.producer = versions[i].producer, !.row = i, !.from = i])
    /\ UNCHANGED <<disk, versions, clashed>>

\* compare-producers: two or more, each in turn, also from the app's own workspace.
AskCompare(a, force) ==
    /\ Cardinality(Producers) >= 2
    /\ LET p == CHOOSE q \in Producers : TRUE
       IN  JobStep(a, "idle", [Began(p, force) EXCEPT !.routed = FALSE,
                                                     !.rest = Producers \ {p}])
    /\ UNCHANGED <<disk, versions, clashed>>

\* deep-analyze: one step per event of the stream; it starts with the source.
AskDeep(a, p) ==
    /\ JobStep(a, "idle", [Began(p, TRUE) EXCEPT !.deep = TRUE])
    /\ UNCHANGED <<disk, versions, clashed>>

\* The load path of analyze_producer; a read that fails looks like nothing stored.
Load(a) ==
    /\ \/ \E i \in Latest(job[a].producer) :
             JobStep(a, "load", [job[a] EXCEPT !.pc = "hash", !.row = i])
       \/ JobStep(a, "load", [job[a] EXCEPT !.pc = "fetch"])
    /\ UNCHANGED <<disk, versions, clashed>>

\* The text of the pipeline's files as they are, without those that access is denied
\* to.  A producer of another workspace cannot be read from the app's own.
Readable(j) ==
    IF j.routed \/ j.producer \notin Elsewhere
    THEN {[f \in Files |-> IF f \in FilesOf[j.producer] \ denied
                           THEN disk[j.producer][f] ELSE Unread] :
             denied \in {Files} \union SUBSET Guarded}
    ELSE {NothingRead}

\* The answer; or, in a comparison, the next producer.
Finish(a, from, answer) ==
    LET j == job[a]
    IN  IF j.rest = {}
        THEN JobStep(a, from, [NoJob EXCEPT !.pc = "answered",
                                            !.producer = j.producer, !.answer = answer])
        ELSE LET p == CHOOSE q \in j.rest : TRUE
             IN  JobStep(a, from, [Began(p, j.force) EXCEPT !.routed = FALSE,
                                                          !.rest = j.rest \ {p}])

\* Stale when the current source can be read and its hash differs.
IsStale(src, stored) == src # NothingRead /\ src # stored

\* The stored version, with its stale flag.
ShowStored(a) ==
    LET j == job[a]
    IN  /\ j.pc = "hash"
        /\ IF j.rest # {} THEN Finish(a, "hash", "stored")
           ELSE \E src \in Readable(j) :
                  JobStep(a, "hash", [j EXCEPT !.pc = "answered", !.answer = "stored", !.src = src,
                                               !.stale = IsStale(src, versions[j.row].src)])
        /\ UNCHANGED <<disk, versions, clashed>>

\* A fresh analysis reads the source; nothing read (access_denied, entity_missing or
\* no_source) ends it.
Fetch(a) ==
    LET j == job[a]
    IN  /\ j.pc = "fetch"
        /\ \E src \in Readable(j) :
              IF src = NothingRead THEN Finish(a, "fetch", "unavailable")
              ELSE JobStep(a, "fetch", [j EXCEPT !.pc = IF j.deep THEN "config" ELSE "llm",
                                                 !.src = src, !.from = 0])
        /\ UNCHANGED <<disk, versions, clashed>>

\* Deep analysis: the LLM names the config tables, which are read with the parameters;
\* a failed detection, or tables that are provably empty, end it.
ReadConfig(a) ==
    /\ \/ JobStep(a, "config", [job[a] EXCEPT !.pc = "llm"])
       \/ job[a].pc = "config" /\ Finish(a, "config", "unavailable")
    /\ UNCHANGED <<disk, versions, clashed>>

\* The LLM finds column logic, or none that is meaningful, or fails.
AskLLM(a) ==
    /\ \/ JobStep(a, "llm", [job[a] EXCEPT !.pc = "number", !.deep = FALSE])
       \/ job[a].pc = "llm" /\ Finish(a, "llm", "unavailable")
    /\ UNCHANGED <<disk, versions, clashed>>

\* Mutant: MAX without the + 1.
SameVersion(p) == IF Top(p) = 0 THEN 1 ELSE Top(p)

NextVersion(p) == Top(p) + 1

\* save_analysis, first statement: MAX(version) + 1, or 1 when it fails.
Number(a) ==
    LET j == [job[a] EXCEPT !.pc = "insert", !.from = Cardinality(Ours(job[a].producer))]
    IN  /\ job[a].pc = "number"
        /\ \/ JobStep(a, "number", [j EXCEPT !.next = NextVersion(j.producer)])
           \/ JobStep(a, "number", [j EXCEPT !.next = 1, !.guessed = TRUE])
        /\ UNCHANGED <<disk, versions, clashed>>

\* Second statement: the INSERT.  When it fails the number is returned all the same.
InsertVersion(a) ==
    LET j == job[a]
        p == j.producer
        beside == j.guessed \/ j.from # Cardinality(Ours(p))
    IN  /\ j.pc = "insert"
        /\ \/ /\ Len(versions) < MaxVersions
              /\ versions' = Append(versions, [producer |-> p, version |-> j.next, src |-> j.src])
              /\ clashed' = IF beside THEN clashed \union {Len(versions')} ELSE clashed
           \/ UNCHANGED <<versions, clashed>>
        /\ Finish(a, "insert", "llm")
        /\ UNCHANGED disk

AnalysisReturn(a) ==
    JobStep(a, "answered", NoJob) /\ UNCHANGED <<disk, versions, clashed>>

\* Someone edits a source file.
Edit(p, f) ==
    /\ disk[p][f] < MaxEdits
    /\ disk' = [disk EXCEPT ![p][f] = @ + 1]
    /\ UNCHANGED <<versions, job, clashed>>

AnalysisNext ==
    \/ \E p \in Producers, force \in BOOLEAN : AskAnalysis(p, force)
    \/ AskTable
    \/ \E a \in Pool, force \in BOOLEAN : AskCompare(a, force)
    \/ \E a \in Pool, p \in Producers : AskDeep(a, p)
    \/ \E a \in Analysts : Load(a)
    \/ \E a \in Analysts : ShowStored(a)
    \/ \E a \in Analysts : Fetch(a)
    \/ \E a \in Analysts : ReadConfig(a)
    \/ \E a \in Analysts : AskLLM(a)
    \/ \E a \in Analysts : Number(a)
    \/ \E a \in Analysts : InsertVersion(a)
    \/ \E a \in Analysts : AnalysisReturn(a)
    \/ \E e \in Edited : Edit(e[1], e[2])

AnalysisSpec == AnalysisInit /\ [][AnalysisNext]_analysisVars

-----------------------------------------------------------------------------
\* A request that starts after an analysis of the producer was saved is not shown an
\* older one - unless the save's MAX(version) failed, or another save of the producer
\* came between its two statements.
LoadShowsNewest ==
    \A a \in Analysts :
        LET j == job[a]
        IN  j.pc = "answered" /\ j.answer = "stored" =>
                \A i \in Ours(j.producer) : j.row < i /\ i <= j.from => i \in clashed

\* The stale flag, which offers a paid re-analysis, is raised only if a file of the
\* producer was edited since its source was read for the version, or
\* a file could be read in one of the two fetches and not in the other.
StaleMeansChanged ==
    \A a \in Analysts :
        LET j == job[a]
            stored == versions[j.row]
        IN  j.pc = "answered" /\ j.stale =>
                \E f \in Files :
                    \/ disk[j.producer][f] # stored.src[f] /\ stored.src[f] # Unread
                    \/ (j.src[f] = Unread) # (stored.src[f] = Unread) /\ j.src # NothingRead

\* A stored analysis shown to a user is the newest, and called stale for a reason.
StoredIsCurrent == LoadShowsNewest /\ StaleMeansChanged

=============================================================================
