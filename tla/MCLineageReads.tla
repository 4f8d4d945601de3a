--------------------------- MODULE MCLineageReads ---------------------------
(***************************************************************************)
(* An instance of the services that compute what a user is shown: the      *)
(* lineage graph and the trace, the column graph's algorithms, the         *)
(* transformation panel's trace, the impact and root-cause reports and the *)
(* notebook parser. They share no state: in a behaviour one of them, the   *)
(* "reader", is at work and the others rest in their first state.          *)
(***************************************************************************)
EXTENDS LineageGraph, ColumnGraph, TransformTrace, TableReports, NotebookParser

VARIABLE reader

CONSTANTS
    T, A, B, C, D,              \* tables
    vol, rd, wr,                \* a volume and two paths in it
    e, f, j, k, l, nil,         \* entities, and none
    c1, c2,                     \* callers
    N1, N2, o, u, none,         \* a notebook's tables
    a, b, c, x, y,              \* their columns
    d1, d2                      \* dataframes

\* Rows of system.access.table_lineage.
Row(s, t, by) == [src |-> s, tgt |-> t, by |-> by]

\* The graph and the trace: a table read back through another, a chain, a loop, a
\* volume under two paths; any part of one of them, and a row that comes later.
MCVolumeOf == (rd :> vol) @@ (wr :> vol)
ReadBack == {Row(A, T, e), Row(T, B, e), Row(T, C, nil), Row(A, C, e)}
Chain == {Row(A, T, f), Row(B, A, nil), Row(C, B, f), Row(D, C, nil), Row(T, nil, e)}
Loop == {Row(A, T, nil), Row(T, B, nil), Row(B, A, nil), Row(C, B, nil)}
Volumes == {Row(A, wr, e), Row(rd, T, f), Row(T, B, f), Row(T, T, e)}
MCRowPools == UNION {SUBSET P : P \in {ReadBack, Chain, Loop, Volumes}}
MCLateRows == {Row(T, C, e)}

\* The column graph: every graph on four columns.
MCHopPairs == {p \in Columns \X Columns : p[1] # p[2]}
MCOtherKind == {<<"c2", "c4">>, <<"c1", "c2">>}

\* The panel: two tables of two columns, runs that overlap, deduced and looping rows.
MCTableOf == [q \in TraceColumns |-> IF q \in {"t1", "t2"} THEN "t" ELSE "u"]
RunRow(n, s, d, known) == [run |-> n, src |-> s, dst |-> d, attributed |-> known]
MCRowPool == {
    RunRow(1, "t1", "t2", TRUE), RunRow(1, "u1", "t1", TRUE), RunRow(1, "u1", "t2", FALSE),
    RunRow(2, "u2", "u1", TRUE), RunRow(1, "u2", "u1", TRUE), RunRow(2, "t2", "t2", TRUE),
    RunRow(2, "t2", "t1", TRUE), RunRow(2, "t2", "u2", TRUE), RunRow(3, "t1", "u1", FALSE)}
MCDeductions ==
    {[q \in {"t1", "t2"} |-> IF q = "t2" THEN s ELSE {"nothing known"}] :
       s \in {{"nothing known"}, {}, {"t2"}, {"t1", "t2"}}}

\* The reports: a focus with a sound producer below a failed one, and a loop.
MCHealth == (j :> "failed") @@ (k :> "stale") @@ (l :> "healthy") @@ (nil :> "no_history")
Fed == {Row(A, T, l), Row(B, A, l), Row(C, B, j), Row(C, T, k)}
Feeding == {Row(T, A, l), Row(A, B, nil), Row(T, C, j), Row(C, A, nil)}
MCReportRows == {Fed, Feeding}
MCMoreRows == {Row(T, B, nil)}

\* Notebooks: column calls, joins, and SQL cells with a join, a bare column, a CTE.
MCColumnsIn == (N1 :> {a}) @@ (N2 :> {b})
Ref(t, col) == [of |-> t, col |-> col]
MCSqlPool == {
    [to |-> u, from |-> ("p" :> N1) @@ ("q" :> N2), ctes |-> <<>>,
     items |-> (x :> <<Ref("p", a), Ref("q", b)>>)],
    [to |-> u, from |-> ("p" :> N1), ctes |-> <<>>, items |-> (x :> <<Ref("", a)>>)],
    [to |-> u, from |-> ("q" :> N2), ctes |-> ("w" :> [table |-> N1, items |-> (y :> <<a>>)]),
     items |-> (x :> <<Ref("w", y), Ref("q", b)>>)]}
With(col, refs) == [is |-> "with", items |-> <<[out |-> col, refs |-> refs]>>]
MCCallForms ==
    {With(x, <<a>>), With(x, <<b>>), With(y, <<x>>), With(y, <<x, a>>),
     [is |-> "rename", items |-> <<[out |-> y, refs |-> <<x>>]>>],
     [is |-> "select", items |-> <<[out |-> x, refs |-> <<a>>], [out |-> y, refs |-> <<a>>]>>],
     [is |-> "select", items |-> <<[out |-> y, refs |-> <<b>>]>>]}
    \union [is : {"join"}, other : {d1, d2, N2}, items : {<<>>}]

Alike == Permutations({c1, c2}) \union Permutations({d1, d2})

-----------------------------------------------------------------------------
ReadsInit ==
    /\ reader \in {"graph", "columns", "panel", "reports", "notebook"}
    /\ LineageGraphInit /\ (reader # "graph" => tableLineage = {})
    /\ GraphInit /\ TraceInit
    /\ TableReportsInit /\ (reader # "reports" => lineageRows = Fed)
    /\ NotebookInit

ReadsNext ==
    \/ /\ reader = "graph" /\ LineageGraphNext
       /\ UNCHANGED <<graphVars, traceVars, reportVars, notebookVars>>
    \/ /\ reader = "columns" /\ GraphNext
       /\ UNCHANGED <<lineageGraphVars, traceVars, reportVars, notebookVars>>
    \/ /\ reader = "panel" /\ TraceNext
       /\ UNCHANGED <<lineageGraphVars, graphVars, reportVars, notebookVars>>
    \/ /\ reader = "reports" /\ TableReportsNext
       /\ UNCHANGED <<lineageGraphVars, graphVars, traceVars, notebookVars>>
    \/ /\ reader = "notebook" /\ NotebookNext
       /\ UNCHANGED <<lineageGraphVars, graphVars, traceVars, reportVars>>

readsVars == <<reader, lineageGraphVars, graphVars, traceVars, reportVars, notebookVars>>

ReadsSpec == ReadsInit /\ [][ReadsNext /\ UNCHANGED reader]_readsVars

\* The type invariants of the five services: frontiers and numbers stay within the
\* tables, the columns and the hops there are.
ReadsTypeOK ==
    /\ LineageGraphTypeOK
    /\ GraphTypeOK
    /\ TraceTypeOK
    /\ TableReportsTypeOK
    /\ NotebookTypeOK

=============================================================================
