--------------------------- MODULE NotebookParser ---------------------------
(***************************************************************************)
(* transformation_lineage/parsing: the column lineage read off the text of *)
(* a notebook, without running it. The module builds notebooks, statement  *)
(* by statement, and runs them as it goes (frames, truth); parsing one     *)
(* gives the edges of graph_builder.py, to be compared with what ran.      *)
(*                                                                         *)
(* A Python cell binds DataFrame variables to tables or to chains of calls *)
(* and saves them; a SQL statement writes a table from tables and CTEs.    *)
(* withColumn, withColumnRenamed, select, groupBy and agg all create       *)
(* columns from columns; join adds a DataFrame; other calls create         *)
(* nothing. Expressions are the list of columns they mention.              *)
(***************************************************************************)
EXTENDS Integers, TLC, SqlParser

CONSTANTS
    BaseTables,     \* tables a notebook reads
    ColumnsIn,      \* BaseTables -> the columns each has
    NewColumns,     \* names of created columns
    Frames,         \* DataFrame variables
    SavedAs,        \* the table written
    CallForms,      \* the calls of a chain: [is, items] and [is |-> "join", other]
    SqlPool,        \* SQL statements: [to, from, ctes, items]
    MaxCells, MaxStatements, MaxCalls

ASSUME NotebookBounds ==
    /\ {MaxCells, MaxStatements, MaxCalls} \subseteq Nat
    /\ NoTable \notin BaseTables /\ SavedAs \notin BaseTables
    /\ \A s \in SqlPool : SqlStatement(s)

VARIABLES
    cells,      \* the notebook: a sequence of cells, each [broken, text]
    frames,     \* what ran: DataFrame variable -> column -> its base columns
    truth,      \* what ran: <<target, column, table, base column>>
    plain,      \* history: no name was used twice, no column mixes tables
    lineage     \* the edges parsed, or NotParsed

notebookVars == <<cells, frames, truth, plain, lineage>>

NotParsed == {<<"not parsed">>}
EmptyCell == [broken |-> FALSE, text |-> <<>>]
Bind(v, root) == [is |-> "bind", var |-> v, root |-> root, calls |-> <<>>]
SaveOf(v) == [is |-> "save", var |-> v]

\* Calls: new columns (each [out, refs], refs a sequence) or a joined frame.
Creates(call) == call.is \in {"with", "rename", "select"}
RefsOf(call) == IF Creates(call) THEN UNION {ToSet(i.refs) : i \in ToSet(call.items)} ELSE {}

NotebookInit ==
    /\ cells = <<EmptyCell>> /\ frames = <<>> /\ truth = {} /\ plain = TRUE
    /\ lineage = NotParsed

(***************************************************************************)
(* Writing and running the notebook.                                       *)
(***************************************************************************)
Cell == cells[Len(cells)]
Size == FoldSeq(LAMBDA c, n : n + Len(c.text), 0, cells)
Statements == FlattenSeq([i \in DOMAIN cells |-> cells[i].text])
CallsMade == FoldSeq(LAMBDA s, n : n + (IF s.is = "bind" THEN Len(s.calls) ELSE 0), 0, Statements)

Typed(statement) ==
    cells' = [cells EXCEPT ![Len(cells)].text = Append(@, statement)]

Base(t) == [c \in ColumnsIn[t] |-> {<<t, c>>}]
FrameOf(d) == IF d \in BaseTables THEN Base(d) ELSE frames[d]
InReach == BaseTables \union DOMAIN frames
TablesUnder(S) == {p[1] : p \in S}

\* A cell is in one language.
Speaks(sql) == \A s \in ToSet(Cell.text) : (s.is = "sql") = sql

NewBinding(v, root) ==
    /\ lineage = NotParsed /\ Size < MaxStatements /\ Speaks(FALSE)
    /\ root \in InReach
    /\ Typed(Bind(v, root))
    /\ frames' = (v :> FrameOf(root)) @@ frames
    /\ plain' = (plain /\ \A s \in ToSet(Cell.text) : s.is = "bind" => s.var # v)
    /\ UNCHANGED <<truth, lineage>>

\* The frame after a call on frame F.
Derived(F, refs) == UNION {F[r] : r \in ToSet(refs)}
After(F, call) ==
    LET made == [o \in {i.out : i \in ToSet(call.items)} |->
                   Derived(F, (CHOOSE i \in ToSet(call.items) : i.out = o).refs)]
    IN  CASE call.is = "with" -> made @@ F
          [] call.is = "rename" -> made @@ [c \in DOMAIN F \ RefsOf(call) |-> F[c]]
          [] call.is = "select" -> made
          [] call.is = "join" -> F @@ FrameOf(call.other)
          [] OTHER -> F

AddCall(call) ==
    /\ lineage = NotParsed /\ CallsMade < MaxCalls
    /\ LET n == Len(Cell.text)
           s == Cell.text[n]
       IN /\ n > 0 /\ s.is = "bind"
          /\ RefsOf(call) \subseteq DOMAIN frames[s.var]
          /\ call.is = "join" => /\ call.other \in InReach \ {s.var}
                                 /\ DOMAIN FrameOf(call.other) \cap DOMAIN frames[s.var] = {}
          /\ cells' = [cells EXCEPT ![Len(cells)].text[n].calls = Append(@, call)]
          /\ frames' = [frames EXCEPT ![s.var] = After(@, call)]
          /\ plain' = (plain /\ (Creates(call) => \A i \in ToSet(call.items) :
                         /\ \A q \in ToSet(Statements) : q.is = "bind" =>
                               \A c \in ToSet(q.calls) : Creates(c) =>
                                   \A j \in ToSet(c.items) : j.out # i.out
                         /\ Cardinality(TablesUnder(Derived(frames[s.var], i.refs))) = 1))
    /\ UNCHANGED <<truth, lineage>>

Save(v) ==
    /\ lineage = NotParsed /\ Size < MaxStatements /\ Speaks(FALSE) /\ v \in DOMAIN frames
    /\ Typed(SaveOf(v))
    /\ truth' = truth \union UNION {{<<SavedAs, c>> \o b : b \in frames[v][c]} : c \in DOMAIN frames[v]}
    /\ UNCHANGED <<frames, plain, lineage>>

NextCell ==
    /\ lineage = NotParsed /\ Len(cells) < MaxCells /\ Cell.text # <<>>
    /\ cells' = Append(cells, EmptyCell)
    /\ UNCHANGED <<frames, truth, plain, lineage>>

\* A magic command makes the cell a syntax error for ast.parse.
Magic ==
    /\ lineage = NotParsed /\ Cell.text # <<>> /\ Speaks(FALSE) /\ ~Cell.broken
    /\ cells' = [cells EXCEPT ![Len(cells)].broken = TRUE]
    /\ plain' = FALSE
    /\ UNCHANGED <<frames, truth, lineage>>

RunSql(s) ==
    /\ lineage = NotParsed /\ Size < MaxStatements /\ Speaks(TRUE)
    /\ Typed([is |-> "sql", stmt |-> s])
    /\ truth' = truth \union SqlRan(s)
    /\ UNCHANGED <<frames, plain, lineage>>

(***************************************************************************)
(* pyspark_ast_parser.py: symbols.                                         *)
(***************************************************************************)
Binds(text) == SelectSeq(text, LAMBDA s : s.is = "bind")
IsTable(s) == s.root \in BaseTables /\ s.calls = <<>>
LastOf(ss) == [v \in {s.var : s \in ToSet(ss)} |->
                 SelectSeq(ss, LAMBDA s : s.var = v)[Len(SelectSeq(ss, LAMBDA s : s.var = v))]]

\* _collect_symbols: the last table and the last chain each name is bound to.
Symbols(text) ==
    [tabs |-> [v \in DOMAIN LastOf(SelectSeq(Binds(text), IsTable)) |->
                 LastOf(SelectSeq(Binds(text), IsTable))[v].root],
     chains |-> LastOf(SelectSeq(Binds(text), LAMBDA s : ~IsTable(s)))]

Parseable == {i \in DOMAIN cells : ~cells[i].broken}
SymbolsOf(i) == Symbols(cells[i].text)

\* _shared_bindings: names every cell that binds them binds to one table.
SharedTabs ==
    LET Of(v) == {SymbolsOf(i).tabs[v] : i \in {j \in Parseable : v \in DOMAIN SymbolsOf(j).tabs}}
    IN  [v \in {w \in Frames : Cardinality(Of(w)) = 1} |-> CHOOSE t \in Of(v) : TRUE]

Binders(v) == {j \in Parseable : v \in DOMAIN SymbolsOf(j).chains}

\* _shared_df_chains: names one cell binds to a chain and none to a table.
SharedChains ==
    [v \in {w \in Frames : /\ Cardinality(Binders(w)) = 1
                           /\ \A j \in Parseable : w \notin DOMAIN SymbolsOf(j).tabs} |->
       SymbolsOf(CHOOSE j \in Binders(v) : TRUE).chains[v]]

\* The table a cell is parsed with: its own bindings over the shared ones.
Scope(i) == [tabs |-> SymbolsOf(i).tabs @@ SharedTabs,
             chains |-> SymbolsOf(i).chains @@ SharedChains]

RECURSIVE Roots(_, _, _), ChainRoots(_, _, _), Resolve(_, _, _), ResolveChain(_, _, _)

\* _trace_root_fqns: a name bound to a table is that table, else its chain.
Roots(d, sy, seen) ==
    IF d \in BaseTables THEN {d}
    ELSE IF d \in DOMAIN sy.tabs THEN {sy.tabs[d]}
    ELSE IF d \in DOMAIN sy.chains /\ d \notin seen
    THEN ChainRoots(sy.chains[d], sy, seen \union {d})
    ELSE {}

ChainRoots(ch, sy, seen) ==
    UNION {Roots(e, sy, seen) :
             e \in {ch.root} \union {c.other : c \in {k \in ToSet(ch.calls) : k.is = "join"}}}

Known(f, c) == IF c \in DOMAIN f THEN f[c] ELSE NoTable
FirstKnown(ts) ==
    LET known == SelectSeq(ts, LAMBDA t : t # NoTable)
    IN  IF known = <<>> THEN NoTable ELSE known[1]

\* _record_alias: the base columns of a created column and one table for them.
RecordAlias(st, avail, item) ==
    LET Cols(r) == IF r \in DOMAIN st.alias THEN st.alias[r].cols ELSE {r}
        Tab(r) == IF r \in DOMAIN st.alias THEN st.alias[r].tab ELSE Known(st.first, r)
        tab == FirstKnown([k \in DOMAIN item.refs |-> Tab(item.refs[k])])
    IN  [st EXCEPT !.alias =
            (item.out :> [cols |-> UNION {Cols(r) : r \in ToSet(item.refs)},
                          tab |-> IF tab = NoTable THEN Only(avail) ELSE tab]) @@ @]

\* A first mention after a join, credited to one of the tables in reach.
MentionAnywhere(st, avail, call) ==
    LET new == RefsOf(call) \ (DOMAIN st.first \union DOMAIN st.alias)
    IN  IF avail = {} THEN st
        ELSE [st EXCEPT !.first = @ @@ [c \in new |-> CHOOSE t \in avail : TRUE]]

\* First-mention attribution: a column first named where one table is in reach
\* belongs to that table.
Mention(st, avail, call) ==
    LET new == RefsOf(call) \ (DOMAIN st.first \union DOMAIN st.alias)
    IN  IF Only(avail) = NoTable THEN st
        ELSE [st EXCEPT !.first = @ @@ [c \in new |-> Only(avail)]]

\* _populate_resolution over a name, then over its chain;
\* st = [alias, first, visited].
Resolve(d, sy, st) ==
    IF d \in BaseTables \/ d \in st.visited THEN st
    ELSE LET seen == [st EXCEPT !.visited = @ \union {d}]
         IN  IF d \in DOMAIN sy.chains THEN ResolveChain(sy.chains[d], sy, seen) ELSE seen

ResolveChain(ch, sy, st) ==
    LET Step(acc, call) ==
            LET seen == Mention(acc.st, acc.avail, call)
            IN  IF call.is = "join"
                THEN [st |-> Resolve(call.other, sy, seen),
                      avail |-> acc.avail \union Roots(call.other, sy, {})]
                ELSE [acc EXCEPT !.st =
                        FoldLeft(LAMBDA s, i : RecordAlias(s, acc.avail, i), seen, call.items)]
    IN  FoldLeft(Step, [st |-> Resolve(ch.root, sy, st), avail |-> Roots(ch.root, sy, {})],
                 ch.calls).st

\* _walk_chain_for_outputs and _emit_mappings, for the chain of one save: a
\* mapping per base column of what its own calls create.
Emitted(v, sy) ==
    IF v \notin DOMAIN sy.chains THEN {}
    ELSE LET ch == sy.chains[v]
             st == ResolveChain(ch, sy, [alias |-> <<>>, first |-> <<>>, visited |-> {}])
             single == Only(ChainRoots(ch, sy, {}))
             Else(t, r) == IF t # NoTable THEN t
                           ELSE IF r \in DOMAIN st.first THEN st.first[r] ELSE single
             Of(out, r) == IF r \in DOMAIN st.alias
                           THEN {<<out, Else(st.alias[r].tab, r), b>> : b \in st.alias[r].cols}
                           ELSE {<<out, Else(NoTable, r), r>>}
         IN  UNION {UNION {Of(i.out, r) : r \in ToSet(i.refs)} :
                      i \in UNION {ToSet(c.items) : c \in ToSet(ch.calls)}}

ParseCell(i) ==
    UNION {{<<SavedAs>> \o m : m \in Emitted(s.var, Scope(i))} :
             s \in {q \in ToSet(cells[i].text) : q.is = "save"}}

(***************************************************************************)
(* pyspark_parser.py: the regular expressions, when the tree gave nothing. *)
(***************************************************************************)
TextBinds == SelectSeq(Statements, LAMBDA s : s.is = "bind")
ReadTables == {s.root : s \in {q \in ToSet(TextBinds) : q.root \in BaseTables}}
RegexEdges ==
    {<<SavedAs, i.out, Only(ReadTables), r>> :
       <<i, r>> \in {<<i, r>> \in UNION {UNION {ToSet(c.items) \X RefsOf(c) :
                         c \in {k \in ToSet(s.calls) : k.is \in {"with", "select"}}} : s \in ToSet(TextBinds)} :
                     r \in ToSet(i.refs)}}

(***************************************************************************)
(* artifact_parser.py and graph_builder.py.                                *)
(***************************************************************************)
SqlStatements == {q.stmt : q \in {s \in ToSet(Statements) : s.is = "sql"}}

\* The AST parser says something as soon as it saw a table or a save.
TreeSaysNothing ==
    \A i \in Parseable : \A s \in ToSet(cells[i].text) :
        s.is # "save" /\ (s.is = "bind" => ~IsTable(s))

\* An edge per mapping; a column is never derived from itself.
Parse ==
    /\ lineage = NotParsed
    /\ LET python == UNION {ParseCell(i) : i \in Parseable}
           regex == IF TreeSaysNothing THEN RegexEdges ELSE {}
           sql == UNION {SqlEdges(s) : s \in SqlStatements}
       IN lineage' = {e \in python \union regex \union sql : <<e[1], e[2]>> # <<e[3], e[4]>>}
    /\ UNCHANGED <<cells, frames, truth, plain>>

NotebookNext ==
    \/ \E v \in Frames : Save(v) \/ \E root \in Frames \union BaseTables : NewBinding(v, root)
    \/ \E call \in CallForms : AddCall(call)
    \/ NextCell \/ Magic \/ Parse
    \/ \E s \in SqlPool : RunSql(s)

NotebookSpec == NotebookInit /\ [][NotebookNext]_notebookVars

-----------------------------------------------------------------------------
NotebookTypeOK ==
    /\ Len(cells) \in 1..MaxCells /\ Size <= MaxStatements
    /\ plain \in BOOLEAN
    /\ DOMAIN frames \subseteq Frames

\* No variable is a table in one cell and a chain in another.
KindsApart ==
    \A i, j \in DOMAIN cells :
        DOMAIN SymbolsOf(i).tabs \cap DOMAIN SymbolsOf(j).chains = {}

\* What the tree says, with its tables, of the columns the notebook saved (a
\* column that a later select drops is reported too; the regular expressions
\* guess).
Attributed ==
    IF lineage = NotParsed \/ TreeSaysNothing THEN {}
    ELSE {e \in lineage : e[3] # NoTable /\ <<e[1], e[2]>> \in {<<t[1], t[2]>> : t \in truth}}

\* "Graph nodes are always REAL TABLE COLUMNS: an intermediate (in-code) column
\* is flattened to the underlying base column(s) it derives from": no edge says
\* what the notebook did not do, when it creates no column twice and uses no
\* variable twice in a cell, nor for a table here and a chain there.
EdgesAreTrue == (plain /\ KindsApart) => Attributed \subseteq truth

\* The columns the last chain of a save created, each with all its bases.
ChainOf(s, i) == IF s.var \in DOMAIN SymbolsOf(i).chains THEN SymbolsOf(i).chains[s.var].calls ELSE <<>>
Created(calls) == UNION {{j.out : j \in ToSet(c.items)} : c \in {k \in ToSet(calls) : Creates(k)}}

TablesNamed ==
    ReadTables \union (BaseTables \cap
        UNION {{c.other : c \in {k \in ToSet(s.calls) : k.is = "join"}} : s \in ToSet(TextBinds)})

\* `d = d.withColumn(..)' in a second cell hides the chain of the first.
BoundOnce == \A i, j \in DOMAIN TextBinds : TextBinds[i].var = TextBinds[j].var => i = j

\* A notebook that reads one table and uses no name twice misses nothing of
\* what its saved chains create and keep.
OneTableIsExact ==
    (plain /\ BoundOnce /\ lineage # NotParsed /\ Cardinality(TablesNamed) = 1) =>
        \A i \in DOMAIN cells : \A s \in ToSet(cells[i].text) : s.is = "save" =>
            {e \in truth : e[1] = SavedAs /\ e[2] \in Created(ChainOf(s, i))} \subseteq lineage

\* What graph_builder is given: nothing that the notebook did not do, and nothing
\* missing where the text leaves no choice.
LineageIsTheNotebooks == EdgesAreTrue /\ OneTableIsExact

=============================================================================
