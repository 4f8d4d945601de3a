------------------------------ MODULE TransformTrace ------------------------------
(***************************************************************************)
(* The transformation panel's questions about one column, as               *)
(* transform_service answers them: the trace upstream of the column over   *)
(* the edges that are stored, the analysis it falls back on, the freshness *)
(* badge and the diagnosis of a table without edges. TransformCache models *)
(* the cache every answer goes through and LineagePipeline the builds that *)
(* write the edges; here the stored rows are a set that any series of      *)
(* builds can leave.                                                       *)
(***************************************************************************)
EXTENDS Naturals, FiniteSets, Levels

CONSTANTS
    TraceColumns,  \* column nodes
    TableOf,       \* per column node, its table
    Opened,        \* the table the panel is open for
    RowPool,       \* bound: rows the edge table may hold
    Deductions,    \* bound: per column of the table, what is known of it
    TraceDepth     \* TRANSFORM_MAX_DEPTH

ASSUME TraceAssumption ==
    /\ TraceDepth \in Nat
    /\ \A r \in RowPool : r.run \in Nat /\ r.src \in TraceColumns /\ r.dst \in TraceColumns

VARIABLES
    rows,      \* the edge table: [run, src, dst, attributed], run = time of its build
    deduced,   \* what captured plans, CDC specs and stored analyses say of columns
    produced,  \* the warehouse's record of writers: "never", "before", "recently"
    skipped,   \* the last build could not read the producer
    panel      \* the answer the panel shows

traceVars == <<rows, deduced, produced, skipped, panel>>

Written == {"never", "before", "recently", "unreadable"}

\* Of a column of the table a deduction names the columns it is made of, by name only.
Mine == {c \in TraceColumns : TableOf[c] = Opened}
NoDeduction == {"nothing known"}

ASSUME DeductionsOfTheTable ==
    \A known \in Deductions :
        /\ DOMAIN known = Mine
        /\ \A c \in Mine : known[c] = NoDeduction \/ known[c] \subseteq Mine

NoPanel == [for |-> "nothing", lineage |-> FALSE, isSource |-> FALSE, layer |-> << >>,
            edges |-> {}, reason |-> "none"]

TraceTypeOK ==
    /\ rows \subseteq RowPool
    /\ \A c \in DOMAIN deduced : deduced[c] = NoDeduction \/ deduced[c] \subseteq Mine
    /\ produced \in Written /\ skipped \in BOOLEAN
    /\ panel.lineage \in BOOLEAN /\ panel.isSource \in BOOLEAN
    /\ panel.edges \subseteq TraceColumns \X TraceColumns

TraceInit ==
    /\ rows = {} /\ deduced = [c \in Mine |-> NoDeduction]
    /\ produced = "never" /\ skipped = FALSE
    /\ panel = NoPanel

\* Builds and analyses happened, some number of them; a table without edges is the
\* one that is diagnosed.
History(stored, known, when, denied) ==
    /\ rows' = stored /\ deduced' = known /\ produced' = when /\ skipped' = denied
    /\ panel' = [NoPanel EXCEPT !.for = "history"]

-----------------------------------------------------------------------------
\* A source the parser could not attribute to one table has no table name.
Touches(r) == (r.attributed /\ TableOf[r.src] = Opened) \/ TableOf[r.dst] = Opened
Newer(r, s) == LET to(x) == \E y \in rows : y.run = x.run /\ TableOf[y.dst] = Opened
               IN  (to(r) /\ ~to(s)) \/ (to(r) = to(s) /\ r.run > s.run)

\* Mutant: the self loops of stale parses are kept.
LoadedWithLoops == {<<r.src, r.dst>> : r \in {x \in rows : Touches(x) /\
                      \A y \in rows : Touches(y) => ~Newer(y, x)}}

\* load_edges: the rows of the table in the latest run that writes it (else the latest
\* that reads it), less the self loops.
Loaded ==
    {<<r.src, r.dst>> : r \in {x \in rows : Touches(x) /\ x.src # x.dst /\
                         \A y \in rows : Touches(y) => ~Newer(y, x)}}

\* The layers of the walk upstream: layer n holds what no earlier layer does.
Layers(c) ==
    LET upTo(n) == WithinLevels(Backward(Loaded), {c}, n)
    IN  [n \in 0..TraceDepth |-> IF n = 0 THEN {c} ELSE upTo(n) \ upTo(n - 1)]

\* _llm_fallback_trace: a stored deduction of the column as one layer of columns named
\* as if they were the table's own; one that names only the column itself, or nothing,
\* makes it a source column.
FallBack(c, known) ==
    LET others == deduced[c] \ {c}
    IN  IF known /\ deduced[c] # NoDeduction
        THEN [NoPanel EXCEPT !.for = c, !.lineage = others # {}, !.isSource = others = {},
                 !.layer = [n \in 0..TraceDepth |-> IF n = 0 THEN {c}
                                                    ELSE IF n = 1 THEN others ELSE {}],
                 !.edges = others \X {c}]
        ELSE [NoPanel EXCEPT !.for = c,
                 !.isSource = \E e \in Loaded : e[1] = c, !.layer = [n \in {0} |-> {c}]]

\* backtrack_transform_lineage: the walk, when an edge leads into the column; the
\* fallback fails open (known = FALSE) when the resolver raises.
Trace(c) ==
    /\ panel.for # "nothing"
    /\ IF \E e \in Loaded : e[2] = c
       THEN LET shown == UNION {Layers(c)[n] : n \in 0..TraceDepth - 1}
            IN  panel' = [NoPanel EXCEPT !.for = c, !.lineage = TRUE, !.layer = Layers(c),
                             !.edges = {e \in Loaded : e[2] \in shown}]
       ELSE \E known \in BOOLEAN : panel' = FallBack(c, known)
    /\ UNCHANGED <<rows, deduced, produced, skipped>>

\* get_transform_freshness: any row of any run; a query that fails reads "never built".
Freshness ==
    /\ panel.for # "nothing"
    /\ \E read \in BOOLEAN :
         panel' = [NoPanel EXCEPT !.for = "freshness",
                      !.reason = IF ~read THEN "unknown"
                                 ELSE IF \E r \in rows : Touches(r) THEN "built" ELSE "never"]
    /\ UNCHANGED <<rows, deduced, produced, skipped>>

\* diagnose_missing_lineage: by the writers on record, then by the last build's report.
Diagnose ==
    /\ panel.for # "nothing"
    /\ panel' = [NoPanel EXCEPT !.for = "diagnosis",
                    !.reason = CASE produced = "unreadable" -> "unknown"
                                 [] produced = "never" -> "no_producer"
                                 [] produced = "before" -> "producer_outside_window"
                                 [] produced = "recently" /\ skipped -> "unreadable_source"
                                 [] OTHER -> "generate"]
    /\ UNCHANGED <<rows, deduced, produced, skipped>>

TraceNext ==
    \/ /\ panel = NoPanel
       /\ \/ \E stored \in SUBSET RowPool, known \in Deductions :
                History(stored, known, "recently", FALSE)
          \/ \E when \in Written, denied \in BOOLEAN :
                History({}, [c \in Mine |-> NoDeduction], when, denied)
    \/ \E c \in Mine : Trace(c)
    \/ Freshness
    \/ Diagnose

TraceSpec == TraceInit /\ [][TraceNext]_traceVars

-----------------------------------------------------------------------------
\* Reference: an upstream way of n hops exists over the edges g.
UpstreamIn(g, b, c, n) ==
    \E way \in [0..n -> TraceColumns] :
        way[0] = b /\ way[n] = c /\ \A i \in 0..n - 1 : <<way[i], way[i + 1]>> \in g

\* A trace over stored edges shows a column in the layer of its shortest way to the
\* target, every edge it shows joins a column of one layer to one at most a layer above,
\* and no edge is a loop.
TraceLayersRight ==
    panel.for \in Mine /\ panel.lineage /\ (\E e \in Loaded : e[2] = panel.for) =>
        /\ \A n \in 0..TraceDepth : panel.layer[n] =
             {b \in TraceColumns : /\ UpstreamIn(Loaded, b, panel.for, n)
                                   /\ \A k \in 0..n - 1 : ~UpstreamIn(Loaded, b, panel.for, k)}
        /\ \A e \in panel.edges : e[1] # e[2] /\
             \E n \in 0..TraceDepth - 1 : e[2] \in panel.layer[n] /\
                \E k \in 0..n + 1 : e[1] \in panel.layer[k]
=============================================================================
