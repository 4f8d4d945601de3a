------------------------------- MODULE ColumnGraph -------------------------------
(***************************************************************************)
(* The graph searches of transformation_lineage/sublineage over the column *)
(* hops of one pipeline run: the bidirectional breadth-first search        *)
(* (bfs.py), the depth-limited enumeration of simple paths (k_paths.py)    *)
(* and the level by level walk upstream of a column (backtrack.py).        *)
(*                                                                         *)
(* A hop is the pair of columns it joins; hops that differ only in their   *)
(* expression are one. Neighbours come in any order, as the rows do.       *)
(***************************************************************************)
EXTENDS Naturals, Sequences, FiniteSets

CONSTANTS
    Columns,      \* column nodes
    HopPairs,     \* bound: the hops a graph may have
    Source,       \* src of a path query
    Target,       \* dst of a path query, and the column a backtrack starts from
    Staging,      \* columns of tables that match an exclusion pattern
    OtherKind,    \* hops whose category is not among the included ones
    Depths,       \* max_depth of a query
    PathLimits    \* max_paths of a query

ASSUME ColumnGraphAssumption ==
    /\ IsFiniteSet(Columns)
    /\ HopPairs \subseteq Columns \X Columns
    /\ Source \in Columns /\ Target \in Columns /\ Source # Target
    /\ Depths \subseteq Nat /\ PathLimits \subseteq Nat

Sides == {"fwd", "bwd"}
Filters == {"nothing", "tables", "categories"}
Unreached == Cardinality(Columns) + 1
NoPath == Cardinality(Columns) + 1

VARIABLES
    hops,      \* the edge set of the run
    search,    \* the query: what it asks, its limits, its filter, how far it is
    reached,   \* per side, the depth at which each column was first seen
    frontier,  \* per side, the columns of the current level
    level,     \* per side, the levels expanded
    trail,     \* the stack of the path search: [column, tried]
    paths,     \* results of the path search
    collected, \* hops gathered by a backtrack
    answer     \* length of the shortest path, or the deepest level of a backtrack

graphVars == <<hops, search, reached, frontier, level, trail, paths, collected, answer>>

NoSearch == [what |-> "none", depth |-> 0, limit |-> 0, filter |-> "nothing", done |-> FALSE]
Nowhere == [s \in Sides |-> [c \in Columns |-> Unreached]]

GraphTypeOK ==
    /\ hops \subseteq HopPairs
    /\ search \in [what : {"none", "shortest", "paths", "backtrack"},
                   depth : Depths \union {0}, limit : PathLimits \union {0},
                   filter : Filters, done : BOOLEAN]
    /\ reached \in [Sides -> [Columns -> 0..Unreached]]
    /\ frontier \in [Sides -> SUBSET Columns]
    /\ level \in [Sides -> 0..Unreached]
    /\ \A i \in DOMAIN trail : trail[i] \in [at : Columns, tried : SUBSET Columns]
    /\ \A p \in paths : \A i \in DOMAIN p : p[i] \in Columns
    /\ collected \subseteq HopPairs
    /\ answer \in 0..Unreached

GraphInit ==
    /\ hops = {} /\ search = NoSearch
    /\ reached = Nowhere /\ frontier = [s \in Sides |-> {}] /\ level = [s \in Sides |-> 0]
    /\ trail = << >> /\ paths = {} /\ collected = {} /\ answer = 0

-----------------------------------------------------------------------------
\* Every adjacency list holds the hops of one node; the graph's nodes are the ends.
Down(c) == {d \in Columns : <<c, d>> \in hops}
Up(c) == {b \in Columns : <<b, c>> \in hops}
HasNode(c) == Down(c) \union Up(c) # {}

\* A hop is pruned for its category or for the table its source column is in.
Kept(hop) ==
    CASE search.filter = "nothing" -> TRUE
      [] search.filter = "tables" -> hop[1] \notin Staging
      [] search.filter = "categories" -> hop \notin OtherKind

\* The graph of a run is loaded and a query begins; an end that the graph does not
\* have is answered with nothing.
AskShortest(g, depth) ==
    /\ hops' = g
    /\ search' = [NoSearch EXCEPT !.what = "shortest", !.depth = depth,
                                  !.done = ~(HasNode(Source)' /\ HasNode(Target)')]
    /\ reached' = [Nowhere EXCEPT !["fwd"][Source] = 0, !["bwd"][Target] = 0]
    /\ frontier' = [s \in Sides |-> IF s = "fwd" THEN {Source} ELSE {Target}]
    /\ answer' = NoPath
    /\ UNCHANGED <<level, trail, paths, collected>>

AskPaths(g, depth, limit) ==
    /\ hops' = g
    /\ search' = [NoSearch EXCEPT !.what = "paths", !.depth = depth, !.limit = limit,
                                  !.done = \/ ~(HasNode(Source)' /\ HasNode(Target)')
                                           \/ depth = 0 \/ limit = 0]
    /\ trail' = <<[at |-> Source, tried |-> {Source}]>>
    /\ UNCHANGED <<reached, frontier, level, paths, collected, answer>>

AskBacktrack(g, depth, filter) ==
    /\ hops' = g
    /\ search' = [NoSearch EXCEPT !.what = "backtrack", !.depth = depth, !.filter = filter,
                                  !.done = ~HasNode(Target)']
    /\ reached' = [Nowhere EXCEPT !["bwd"][Target] = 0]
    /\ frontier' = [frontier EXCEPT !["bwd"] = {Target}]
    /\ UNCHANGED <<level, trail, paths, collected, answer>>

-----------------------------------------------------------------------------
\* shortest_path: the side with the smaller frontier expands, forward on a tie.
Turn == IF Cardinality(frontier["fwd"]) <= Cardinality(frontier["bwd"]) THEN "fwd" ELSE "bwd"
OtherSide(s) == IF s = "fwd" THEN "bwd" ELSE "fwd"

\* Mutant: the limit is compared with the depth of one side.
MayExpandSide == (\A s \in Sides : frontier[s] # {}) /\ level[Turn] < search.depth

MayExpand ==
    /\ \A s \in Sides : frontier[s] # {}
    /\ level["fwd"] + level["bwd"] < search.depth

NextLevel(s) ==
    {d \in Columns : reached[s][d] = Unreached
                  /\ \E c \in frontier[s] : d \in IF s = "fwd" THEN Down(c) ELSE Up(c)}

\* A whole level is expanded before the search looks whether the sides met; the first
\* column both sides know is where the two halves are joined.
ExpandLevel ==
    LET s == Turn
        next == NextLevel(s)
        met == {c \in next : reached[OtherSide(s)][c] # Unreached}
    IN  /\ search.what = "shortest" /\ ~search.done
        /\ MayExpand
        /\ reached' = [reached EXCEPT ![s] = [c \in Columns |->
                         IF c \in next THEN level[s] + 1 ELSE reached[s][c]]]
        /\ frontier' = [frontier EXCEPT ![s] = next]
        /\ level' = [level EXCEPT ![s] = @ + 1]
        /\ IF met = {} THEN UNCHANGED <<search, answer>>
           ELSE \E c \in met : /\ answer' = reached'["fwd"][c] + reached'["bwd"][c]
                               /\ search' = [search EXCEPT !.done = TRUE]
        /\ UNCHANGED <<hops, trail, paths, collected>>

NoMeeting ==
    /\ search.what = "shortest" /\ ~search.done /\ ~MayExpand
    /\ search' = [search EXCEPT !.done = TRUE]
    /\ UNCHANGED <<hops, reached, frontier, level, trail, paths, collected, answer>>

-----------------------------------------------------------------------------
\* find_paths: the columns of the stack are the visited ones.
Here == trail[Len(trail)]
OnTrail == {trail[i].at : i \in DOMAIN trail}
Searching == search.what = "paths" /\ ~search.done /\ Cardinality(paths) < search.limit
Untried == IF Len(trail) > search.depth THEN {} ELSE Down(Here.at) \ (Here.tried \union OnTrail)

TryNext ==
    /\ Searching
    /\ \E d \in Untried :
         LET here == [Here EXCEPT !.tried = @ \union {d}]
             top == [trail EXCEPT ![Len(trail)] = here]
         IN  IF d = Target
             THEN /\ paths' = paths \union {[i \in 1..Len(trail) + 1 |->
                                  IF i > Len(trail) THEN d ELSE trail[i].at]}
                  /\ trail' = top
             ELSE /\ trail' = Append(top, [at |-> d, tried |-> {}])
                  /\ UNCHANGED paths
    /\ UNCHANGED <<hops, search, reached, frontier, level, collected, answer>>

LeaveColumn ==
    /\ Searching /\ Len(trail) > 1 /\ Untried = {}
    /\ trail' = SubSeq(trail, 1, Len(trail) - 1)
    /\ UNCHANGED <<hops, search, reached, frontier, level, paths, collected, answer>>

\* Nothing is left to try, or max_paths results are in.
PathsFound ==
    /\ search.what = "paths" /\ ~search.done
    /\ Cardinality(paths) >= search.limit \/ (Len(trail) = 1 /\ Untried = {})
    /\ search' = [search EXCEPT !.done = TRUE]
    /\ UNCHANGED <<hops, reached, frontier, level, trail, paths, collected, answer>>

-----------------------------------------------------------------------------
\* backtrack_from_target, one level: every kept hop into the frontier is collected, a
\* column is listed at the first level that reaches it, and a level that has hops but
\* no new column still counts for max_depth_reached.
BacktrackLevel ==
    LET up == {h \in hops : h[2] \in frontier["bwd"] /\ Kept(h)}
        next == {c \in {h[1] : h \in up} : reached["bwd"][c] = Unreached}
    IN  /\ search.what = "backtrack" /\ ~search.done
        /\ frontier["bwd"] # {} /\ level["bwd"] < search.depth
        /\ collected' = collected \union up
        /\ reached' = [reached EXCEPT !["bwd"] = [c \in Columns |->
                         IF c \in next THEN level["bwd"] + 1 ELSE @[c]]]
        /\ frontier' = [frontier EXCEPT !["bwd"] = next]
        /\ level' = [level EXCEPT !["bwd"] = @ + 1]
        /\ answer' = IF up # {} THEN level["bwd"] + 1 ELSE answer
        /\ UNCHANGED <<hops, search, trail, paths>>

BacktrackEnds ==
    /\ search.what = "backtrack" /\ ~search.done
    /\ frontier["bwd"] = {} \/ level["bwd"] >= search.depth
    /\ search' = [search EXCEPT !.done = TRUE]
    /\ UNCHANGED <<hops, reached, frontier, level, trail, paths, collected, answer>>

\* Columns marked as origins: without upstream hops, the pruned ones included.
Origins == {c \in Columns \ {Target} : reached["bwd"][c] # Unreached /\ Up(c) = {}}

GraphNext ==
    \/ search = NoSearch /\ \E g \in SUBSET HopPairs, d \in Depths : AskShortest(g, d)
    \/ search = NoSearch /\ \E g \in SUBSET HopPairs, d \in Depths, n \in PathLimits : AskPaths(g, d, n)
    \/ search = NoSearch /\ \E g \in SUBSET HopPairs, d \in Depths, f \in Filters : AskBacktrack(g, d, f)
    \/ ExpandLevel
    \/ NoMeeting
    \/ TryNext
    \/ LeaveColumn
    \/ PathsFound
    \/ BacktrackLevel
    \/ BacktrackEnds

GraphSpec == GraphInit /\ [][GraphNext]_graphVars

-----------------------------------------------------------------------------
\* Reference: every way to the target without meeting a column twice, ...
Routes ==
    {r \in UNION {[1..n + 1 -> Columns] : n \in 1..Cardinality(Columns) - 1} :
        r[Len(r)] = Target /\ \A i, j \in DOMAIN r : i # j => r[i] # r[j]}

\* ... and those of them that start in c and that a graph g has.
RoutesFrom(c, g, depth) ==
    {r \in Routes : /\ r[1] = c /\ Len(r) <= depth + 1
                    /\ \A i \in 1..Len(r) - 1 : <<r[i], r[i + 1]>> \in g}
Shortest(lengths) == IF lengths = {} THEN NoPath
                     ELSE CHOOSE n \in lengths : \A m \in lengths : n <= m
Distance(c, g, depth) ==
    IF c = Target THEN 0 ELSE Shortest({Len(r) - 1 : r \in RoutesFrom(c, g, depth)})

\* shortest_path (bfs.py:3): the path returned is as short as any, and one is returned
\* whenever there is one of at most max_depth hops.
ShortestIsShortest ==
    search.what = "shortest" /\ search.done =>
        answer = Distance(Source, hops, search.depth)

\* find_paths: what is returned are paths of at most max_depth hops - all of them when
\* fewer than max_paths exist, else max_paths different ones.
PathsAreAll ==
    search.what = "paths" /\ search.done =>
        LET all == RoutesFrom(Source, hops, search.depth)
        IN  IF search.limit = 0 \/ search.depth = 0 THEN paths = {}
            ELSE /\ paths \subseteq all
                 /\ Cardinality(paths) = IF Cardinality(all) < search.limit
                                         THEN Cardinality(all) ELSE search.limit

\* backtrack_from_target: a column is listed exactly at its distance from the target
\* in the pruned graph, the hops are those that lead into a listed column above the
\* depth limit, and a column marked as an origin has no hop among them.
BacktrackLevelsRight ==
    search.what = "backtrack" /\ search.done /\ HasNode(Target) =>
        LET g == {h \in hops : Kept(h)}
        IN  /\ \A c \in Columns : reached["bwd"][c] = Distance(c, g, search.depth)
            /\ collected = {h \in g : LET away == Distance(h[2], g, search.depth)
                                    IN  away # NoPath /\ away < search.depth}
            /\ \A c \in Origins : \A h \in collected : h[2] # c

\* The three searches of the sublineage package agree with their definitions on
\* every graph, at every depth and limit.
SearchesAgree == ShortestIsShortest /\ PathsAreAll /\ BacktrackLevelsRight

=============================================================================
