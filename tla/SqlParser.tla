------------------------------ MODULE SqlParser ------------------------------
(***************************************************************************)
(* transformation_lineage/parsing/sql_parser.py: the column lineage of one *)
(* SQL statement that writes a table, beside what Spark makes of it. A     *)
(* statement is                                                            *)
(*   to      the table it writes,                                          *)
(*   from    alias -> table, of its FROM and JOIN clauses,                 *)
(*   ctes    name -> [table, items], each over one table, items being      *)
(*           column -> the columns its expression mentions,                *)
(*   items   column written -> the references in its expression, each      *)
(*           [of, col] of an alias, a CTE or "".                           *)
(***************************************************************************)
EXTENDS Sequences, FiniteSets, SequencesExt

CONSTANT NoTable    \* an unresolved table

\* The statements there are: an alias is a name, and an expression of a CTE mentions
\* some column.
SqlStatement(s) ==
    /\ IsFiniteSet(DOMAIN s.from) /\ "" \notin DOMAIN s.from \union DOMAIN s.ctes
    /\ \A d \in DOMAIN s.ctes : \A c \in DOMAIN s.ctes[d].items : 1 \in DOMAIN s.ctes[d].items[c]

\* The one of S, if S has one.
Only(S) == IF Cardinality(S) = 1 THEN CHOOSE t \in S : TRUE ELSE NoTable

(***************************************************************************)
(* What a statement does.                                                  *)
(***************************************************************************)
\* The base columns of a reference.
SqlBase(s, ref) ==
    IF ref.of \in DOMAIN s.ctes
    THEN {<<s.ctes[ref.of].table, base>> : base \in ToSet(s.ctes[ref.of].items[ref.col])}
    ELSE {<<IF ref.of = "" THEN s.from[CHOOSE a \in DOMAIN s.from : TRUE] ELSE s.from[ref.of],
            ref.col>>}

SqlMakes(s, o) == UNION {SqlBase(s, r) : r \in ToSet(s.items[o])}
SqlRan(s) == UNION {{<<s.to, o, b[1], b[2]>> : b \in SqlMakes(s, o)} : o \in DOMAIN s.items}

(***************************************************************************)
(* What is read off its text.                                              *)
(***************************************************************************)
\* _cte_column_map: of several columns of an expression, the first.
FromCte(c, col) == IF col \in DOMAIN c.items THEN <<c.table, c.items[col][1]>> ELSE <<NoTable, col>>

Qualified(s, o) == {r \in ToSet(s.items[o]) : r.of # ""}
TablesOf(s) == {s.from[a] : a \in DOMAIN s.from}
SqlSource(s, r) ==
    IF r.of \in DOMAIN s.ctes THEN FromCte(s.ctes[r.of], r.col)
    ELSE <<IF r.of \in DOMAIN s.from THEN s.from[r.of] ELSE NoTable, r.col>>

\* parse_sql_text.  With CTEs only qualified columns are mapped; without, bare
\* columns belong to the only table, if there is one and nothing is qualified.
SqlSources(s, o) ==
    IF s.ctes # <<>> \/ Qualified(s, o) # {}
    THEN {SqlSource(s, r) : r \in Qualified(s, o)}
    ELSE {<<Only(TablesOf(s)), r.col>> : r \in ToSet(s.items[o])}
SqlEdges(s) == UNION {{<<s.to, o, e[1], e[2]>> : e \in SqlSources(s, o)} : o \in DOMAIN s.items}

=============================================================================
