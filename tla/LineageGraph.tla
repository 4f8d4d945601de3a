---------------------------- MODULE LineageGraph ----------------------------
(***************************************************************************)
(* How backend/lineage_service.py turns rows of                            *)
(* system.access.table_lineage into a graph. Two readers share the shape   *)
(* of a row and of the result:                                             *)
(*                                                                         *)
(* - the trace of one table: two threads walk from it, one against and one *)
(* along the rows, each with its own set of tables already seen; the trace *)
(* is the one backend/perf_patches.py puts in place when the app starts;   *)
(*                                                                         *)
(* - the graph of one scope (a schema or a catalog): one query for rows    *)
(* that touch the scope, and a second for the other rows of the jobs and   *)
(* pipelines that the first one met.                                       *)
(*                                                                         *)
(* A row is [src, tgt, by]: it says that the entity by read src and wrote  *)
(* tgt, where any of the three may be Nothing.                             *)
(***************************************************************************)
EXTENDS Integers, FiniteSets, TLC, Levels

CONSTANTS
    TableRefs,      \* names of tables
    PathRefs,       \* raw storage paths
    VolumeOf,       \* PathRefs -> node: both spellings of a volume are one node
    Entities,       \* jobs, pipelines, notebooks
    Nothing,        \* a missing source, target or entity
    SeedTable,      \* the table a trace starts at
    ScopeTables,    \* the tables information_schema lists for the scope
    ScopeRefs,      \* the references the lineage query of the scope matches
    RowPools,       \* the contents system.access.table_lineage may have
    LateRows,       \* rows that may be recorded while a request runs
    MaxIters,       \* MAX_ITERS
    NodeCap         \* LINEAGE_MAX_NODES

ASSUME GraphBounds ==
    /\ {MaxIters, NodeCap} \subseteq Nat \ {0}
    /\ IsFiniteSet(TableRefs) /\ SeedTable \in TableRefs
    /\ ScopeTables \subseteq TableRefs \cap ScopeRefs

\* Tables, paths, volumes ("volume:...") and entities ("entity:...") are told apart by
\* their names.
ASSUME NamesApart ==
    /\ Nothing \notin TableRefs \union PathRefs \union Entities
    /\ TableRefs \cap (PathRefs \union Entities) = {}
    /\ \A p \in PathRefs : VolumeOf[p] \notin TableRefs \union Entities \union {Nothing}

\* What the system table may hold.
ASSUME RowsOfTheTable ==
    \A r \in LateRows \union UNION RowPools :
        /\ {r.src, r.tgt} \subseteq TableRefs \union PathRefs \union {Nothing}
        /\ r.by \in Entities \union {Nothing}

VARIABLES
    tableLineage,   \* the rows of the system table
    asked,          \* the request being answered: "none", "trace" or "scope"
    asOf,           \* history: the rows that were there when it started
    walk,           \* per direction: frontier, local_seen, rows not yet followed, hops
    seenAll,        \* seen_all, which the two walks share for the node cap
    readRows,       \* lineage_rows: what the queries of the request returned
    cutShort,       \* truncated["hit"], or a failed first query of a scope
    drawn,          \* the answer
    keptGraphs      \* the cached answer of each kind

lineageGraphVars == <<tableLineage, asked, asOf, walk, seenAll, readRows,
                      cutShort, drawn, keptGraphs>>

Ways == {"up", "down"}
NotDrawn == [nodes |-> {}, edges |-> {}, of |-> {}, kind |-> "none"]

(***************************************************************************)
(* The graph of a set of rows.                                             *)
(***************************************************************************)
\* _parse_lineage_ref: the node a reference stands for.
NodeOf(ref) == IF ref \in PathRefs THEN VolumeOf[ref] ELSE ref

Sources(R, e) == {NodeOf(r.src) : r \in {q \in R : q.by = e /\ q.src # Nothing}}
Targets(R, e) == {NodeOf(r.tgt) : r \in {q \in R : q.by = e /\ q.tgt # Nothing}}
Tables(R) == ({NodeOf(r.src) : r \in R} \union {NodeOf(r.tgt) : r \in R}) \ {Nothing}
Workers(R) == {r.by : r \in R} \ {Nothing}
Both(R) == {r \in R : r.src # Nothing /\ r.tgt # Nothing}
Pair(r) == <<NodeOf(r.src), NodeOf(r.tgt)>>

\* Rows pass through their entity (WithBackEdges); a table the entity writes never feeds it,
\* what was made from it is drawn from the table itself.
WithBackEdges(R, e) ==
    {<<s, e>> : s \in Sources(R, e)} \union {<<e, t>> : t \in Targets(R, e)}

ThroughEntity(R, e) ==
    {<<s, e>> : s \in Sources(R, e) \ Targets(R, e)}
      \union {<<e, t>> : t \in Targets(R, e)}
      \union {Pair(r) : r \in {q \in Both(R) :
                 q.by = e /\ NodeOf(q.src) \in Targets(R, e)}}

TraceEdges(R) ==
    (UNION {ThroughEntity(R, e) : e \in Workers(R)})
      \union {Pair(r) : r \in {q \in Both(R) : q.by = Nothing}}

\* The entities of a scope graph: those with a table of the scope.
ScopeWorkers(R) ==
    {e \in Workers(R) : (Sources(R, e) \union Targets(R, e)) \cap ScopeTables # {}}

DirectRows(R) ==
    {r \in R : r.by = Nothing /\ {NodeOf(r.src), NodeOf(r.tgt)} \cap ScopeTables # {}}

\* A direct pair is left out when some entity reads one side and writes the
\* other (entity_covered), whether or not the pair can be followed through it.
ScopeEdges(R, F) ==
    LET E == ScopeWorkers(R)
        All == R \union F
        Covered == UNION {Sources(All, e) \X Targets(All, e) : e \in E}
    IN  (UNION {ThroughEntity(All, e) : e \in E})
          \union ({Pair(r) : r \in Both(DirectRows(R))} \ Covered)

ScopeNodes(R, F) ==
    LET E == ScopeWorkers(R)
    IN  ScopeTables \union E
          \union Tables(DirectRows(R) \union {r \in R \union F : r.by \in E})

\* _classify_table_nodes.
Role(g, n) ==
    LET up == \E e \in g.edges : e[2] = n
        down == \E e \in g.edges : e[1] = n
    IN  CASE up /\ down -> "connected"
          [] up /\ ~down -> "leaf"
          [] ~up /\ down -> "root"
          [] OTHER -> "orphan"

(***************************************************************************)
(* The trace: two walks.                                                   *)
(***************************************************************************)
Resting == [frontier |-> {}, seen |-> {}, unread |-> {}, next |-> {}, hops |-> 0, at |-> "off"]
Setting == [Resting EXCEPT !.frontier = {SeedTable}, !.seen = {SeedTable}, !.at = "ask"]

LineageGraphInit ==
    /\ tableLineage \in RowPools
    /\ asked = "none" /\ asOf = {} /\ walk = [w \in Ways |-> Resting]
    /\ seenAll = {} /\ readRows = {} /\ cutShort = FALSE
    /\ drawn = NotDrawn /\ keptGraphs = [k \in {"trace", "scope"} |-> NotDrawn]

NearEnd(w, r) == IF w = "up" THEN r.tgt ELSE r.src
FarEnd(w, r) == IF w = "up" THEN r.src ELSE r.tgt

\* get_lineage_trace, when the answer is not in the cache.
AskTrace ==
    /\ asked = "none" /\ keptGraphs["trace"] = NotDrawn
    /\ asked' = "trace" /\ asOf' = tableLineage
    /\ walk' = [w \in Ways |-> Setting]
    /\ seenAll' = {SeedTable}
    /\ readRows' = {} /\ cutShort' = FALSE /\ drawn' = NotDrawn
    /\ UNCHANGED <<tableLineage, keptGraphs>>

\* range(MAX_ITERS), while there is a frontier and room for nodes.
MayHop(w) ==
    /\ walk[w].at = "ask"
    /\ Cardinality(seenAll) <= NodeCap /\ walk[w].frontier # {} /\ walk[w].hops < MaxIters

\* One query of a walk, for the rows at its frontier, and _collect.
Hop(w) ==
    /\ MayHop(w)
    /\ LET page == {r \in tableLineage : NearEnd(w, r) \in walk[w].frontier}
       IN /\ readRows' = readRows \union page
          /\ walk' = [walk EXCEPT ![w].unread = page, ![w].next = {}, ![w].at = "follow",
                                  ![w].hops = @ + 1]
    /\ UNCHANGED <<tableLineage, asked, asOf, seenAll, cutShort, drawn, keptGraphs>>

\* One row of the page: its far table is followed unless this walk has seen it.
\* A path is no table: the walk does not go past it.
Follow(w, r) ==
    /\ walk[w].at = "follow" /\ r \in walk[w].unread
    /\ LET far == FarEnd(w, r)
           fresh == IF far \in TableRefs \ walk[w].seen THEN {far} ELSE {}
       IN /\ seenAll' = seenAll \union fresh
          /\ walk' = [walk EXCEPT ![w].unread = @ \ {r}, ![w].next = @ \union fresh,
                                  ![w].seen = @ \union fresh]
    /\ UNCHANGED <<tableLineage, asked, asOf, readRows, cutShort, drawn, keptGraphs>>

HopDone(w) ==
    /\ walk[w].at = "follow" /\ walk[w].unread = {}
    /\ walk' = [walk EXCEPT ![w].frontier = walk[w].next, ![w].next = {}, ![w].at = "ask"]
    /\ UNCHANGED <<tableLineage, asked, asOf, seenAll, readRows, cutShort, drawn,
                   keptGraphs>>

\* The loop ends; what is left of the frontier says the trace is partial.
WalkEnds(w) ==
    /\ walk[w].at = "ask"
    /\ Cardinality(seenAll) > NodeCap \/ walk[w].frontier = {} \/ walk[w].hops = MaxIters
    /\ walk' = [walk EXCEPT ![w].at = "done"]
    /\ cutShort' = (cutShort \/ Cardinality(seenAll) > NodeCap \/ walk[w].frontier # {})
    /\ UNCHANGED <<tableLineage, asked, asOf, seenAll, readRows, drawn, keptGraphs>>

\* A failed query that looks like a frontier without rows.
HopFailsUnseen(w) ==
    /\ MayHop(w)
    /\ walk' = [walk EXCEPT ![w].at = "done", ![w].hops = @ + 1]
    /\ UNCHANGED <<tableLineage, asked, asOf, cutShort, seenAll, readRows, drawn, keptGraphs>>

\* A failed query ends the walk, with its frontier still there.
HopFails(w) ==
    /\ MayHop(w)
    /\ walk' = [walk EXCEPT ![w].at = "done", ![w].hops = @ + 1]
    /\ cutShort' = TRUE
    /\ UNCHANGED <<tableLineage, asked, asOf, seenAll, readRows, drawn, keptGraphs>>

\* _build_graph_from_rows; a truncated trace is served and not kept.
DrawTrace ==
    /\ asked = "trace" /\ \A w \in Ways : walk[w].at = "done"
    /\ drawn' = [nodes |-> Tables(readRows) \union Workers(readRows),
                 edges |-> TraceEdges(readRows), of |-> asOf,
                 kind |-> IF cutShort THEN "part" ELSE "trace"]
    /\ keptGraphs' = IF cutShort THEN keptGraphs ELSE [keptGraphs EXCEPT !["trace"] = drawn']
    /\ asked' = "none" /\ walk' = [w \in Ways |-> Resting]
    /\ UNCHANGED <<tableLineage, asOf, seenAll, readRows, cutShort>>

(***************************************************************************)
(* The graph of a scope.                                                   *)
(***************************************************************************)
\* The rows the lineage query of the scope matches.
ScopeRows == {r \in tableLineage : {r.src, r.tgt} \cap ScopeRefs # {}}

\* get_table_lineage: the tables of the scope, and its rows.  A failed lineage
\* query leaves the tables alone (lineage_ok = False).
AskScope ==
    /\ asked = "none" /\ keptGraphs["scope"] = NotDrawn
    /\ asked' = "scope" /\ asOf' = tableLineage /\ drawn' = NotDrawn
    /\ \/ readRows' = ScopeRows /\ cutShort' = FALSE
       \/ readRows' = {} /\ cutShort' = TRUE
    /\ UNCHANGED <<tableLineage, walk, seenAll, keptGraphs>>

\* The follow-up query, whose failure is only logged, then the graph.
DrawScope ==
    /\ asked = "scope"
    /\ \E F \in {{r \in tableLineage : r.by \in ScopeWorkers(readRows)}, {}} :
         drawn' = [nodes |-> ScopeNodes(readRows, F), edges |-> ScopeEdges(readRows, F),
                      of |-> asOf, kind |-> IF cutShort THEN "blank" ELSE "scope"]
    /\ keptGraphs' = IF cutShort THEN keptGraphs ELSE [keptGraphs EXCEPT !["scope"] = drawn']
    /\ asked' = "none"
    /\ UNCHANGED <<tableLineage, asOf, walk, seenAll, readRows, cutShort>>

\* The cache forgets an answer (KeyedCache says when).
ForgetGraph(k) ==
    /\ keptGraphs[k] # NotDrawn
    /\ keptGraphs' = [keptGraphs EXCEPT ![k] = NotDrawn]
    /\ UNCHANGED <<tableLineage, asked, asOf, walk, seenAll, readRows, cutShort, drawn>>

\* A query elsewhere in the metastore is recorded.
Record(r) ==
    /\ r \in LateRows \ tableLineage
    /\ tableLineage' = tableLineage \union {r}
    /\ UNCHANGED <<asked, asOf, walk, seenAll, readRows, cutShort, drawn, keptGraphs>>

LineageGraphNext ==
    \/ AskTrace \/ DrawTrace \/ AskScope \/ DrawScope
    \/ \E w \in Ways :
         \/ Hop(w) \/ HopDone(w) \/ WalkEnds(w) \/ HopFails(w)
         \/ \E r \in walk[w].unread : Follow(w, r)
    \/ \E k \in {"trace", "scope"} : ForgetGraph(k)
    \/ \E r \in LateRows : Record(r)

LineageGraphSpec == LineageGraphInit /\ [][LineageGraphNext]_lineageGraphVars

-----------------------------------------------------------------------------
LineageGraphTypeOK ==
    /\ asked \in {"none", "trace", "scope"} /\ cutShort \in BOOLEAN
    /\ seenAll \subseteq TableRefs
    /\ \A w \in Ways : /\ walk[w].frontier \subseteq TableRefs
                       /\ walk[w].hops \in 0..MaxIters
                       /\ walk[w].at \in {"off", "ask", "follow", "done"}
    /\ \A k \in {"trace", "scope"} : keptGraphs[k].kind \in {"none", k}

\* The tables reached from the seed in one direction by a set of rows.
TableEdges(R, w) == {<<NearEnd(w, r), FarEnd(w, r)>> : r \in {q \in R : FarEnd(w, q) \in TableRefs}}
Reached(R, w) == WithinLevels(TableEdges(R, w), {SeedTable}, Cardinality(TableRefs))

Cone(R) == UNION {{r \in R : NearEnd(w, r) \in Reached(R, w)} : w \in Ways}

\* _fetch_lineage_trace: "the trace stays within the seed's own lineage cone
\* (its true ancestors + descendants)".  A trace that is not marked truncated
\* lacks no row of the cone, also when a table is both an ancestor and a
\* descendant, and holds nothing outside it.
TraceIsTheCone ==
    drawn.kind = "trace" =>
        /\ Tables(Cone(drawn.of)) \subseteq drawn.nodes
        /\ drawn.nodes \subseteq Tables(Cone(tableLineage)) \union Workers(Cone(tableLineage))

\* From one table to the other in the graph, straight or through one entity.
Linked(g, p) == p \in g.edges \/ \E e \in Entities : {<<p[1], e>>, <<e, p[2]>>} \subseteq g.edges

\* Every row of a trace that names both tables can be followed in the drawing,
\* through its entity or straight, and its ends are not called roots or leaves
\* they are not: breaking the false cycles of an entity that reads back what
\* it wrote loses no dependency.
TraceDrawsRows ==
    \A k \in {keptGraphs["trace"]} : k # NotDrawn =>
        \A r \in Both(k.of) : {NodeOf(r.src), NodeOf(r.tgt)} \subseteq k.nodes /\ r \in Cone(k.of)
            => /\ Linked(k, Pair(r))
               /\ Role(k, NodeOf(r.src)) \in {"root", "connected"}
               /\ Role(k, NodeOf(r.tgt)) \in {"leaf", "connected"}

\* "a table the entity WRITES is never also drawn as feeding that entity", in
\* both graphs, with rows of the entity arriving between the two queries.
NoFalseCycle ==
    \A g \in {drawn, keptGraphs["trace"], keptGraphs["scope"]} :
        \A e \in g.edges : e[1] \in Entities \/ e[2] \in Entities => <<e[2], e[1]>> \notin g.edges

\* A kept graph of a scope knows every table that shared a row with a table of
\* the scope when it was asked for: a failed query is never kept as an empty
\* graph for the whole lifetime of the entry.
KeptScopeIsNotBlank ==
    keptGraphs["scope"] # NotDrawn =>
        Tables({r \in keptGraphs["scope"].of : {r.src, r.tgt} \cap ScopeTables # {}})
            \subseteq keptGraphs["scope"].nodes

\* "Only add if not already covered by an entity-routed path": every row that
\* touches the scope can be followed in its graph.
ScopeDrawsRows ==
    \A r \in Both(readRows) :
        drawn.kind = "scope" /\ {r.src, r.tgt} \cap ScopeTables # {} => Linked(drawn, Pair(r))

\* What is drawn is sound, whatever failed before: dependencies are kept, false
\* cycles are not, and a kept scope is whole.
DrawnRight == TraceDrawsRows /\ NoFalseCycle /\ KeptScopeIsNotBlank

=============================================================================
