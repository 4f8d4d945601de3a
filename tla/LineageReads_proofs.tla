------------------------- MODULE LineageReads_proofs -------------------------
(***************************************************************************)
(* The walks behind what a user is shown, for any tables, columns, rows,   *)
(* hops, depths and limits: the trace and the graph of lineage_service.py  *)
(* and perf_patches.py, the layers of the panel's trace and the three      *)
(* searches of the sublineage package.  Each walk goes level by level, and *)
(* its invariant says that what it has seen after n levels is what lies    *)
(* within n edges (LineageGraphSound, TraceSound, SideIs); a level that    *)
(* adds nothing is the last.  The path search has no levels: its invariant *)
(* is that the paths it returned are those its stack has left behind       *)
(* (PathsSound).  At the end, the edges sql_parser.py reads off the text   *)
(* of a statement, for any statement of the modelled form.                 *)
(***************************************************************************)
EXTENDS LineageGraph, ColumnGraph, TransformTrace, SqlParser,
        FiniteSetTheorems, SequenceTheorems, WellFoundedInduction, TLAPS

-----------------------------------------------------------------------------
Less == {p \in Nat \X Nat : p[1] < p[2]}

\* The order of the naturals, as the library's induction facts take it.
LEMMA LessWellFounded == IsWellFoundedOn(Less, Nat)
<1>1. Less = OpToRel(<, Nat)
  BY Zenon DEF OpToRel, Less
<1> QED BY <1>1, NatLessThanWellFounded, Zenon

\* A set of naturals that is not empty has a smallest member.
LEMMA SmallestOf ==
  ASSUME NEW S \in SUBSET Nat, S # {}
  PROVE  \E n \in S : \A m \in S : n <= m
<1>1. PICK x \in S : \A y \in S : ~ (<<y, x>> \in Less)
  BY LessWellFounded, WFMin
<1>2. ASSUME NEW m \in S PROVE x <= m
  <2>1. ~ (<<m, x>> \in Less)
    BY <1>1
  <2>2. m \in Nat /\ x \in Nat
    OBVIOUS
  <2> QED BY <2>1, <2>2 DEF Less
<1> QED BY <1>2

-----------------------------------------------------------------------------
(***************************************************************************)
(* Walks by levels.                                                        *)
(***************************************************************************)
\* The function that WithinLevels computes, and what it has to satisfy.
UpTo(E, S, n) ==
    LET upTo[i \in 0..n] == IF i = 0 THEN S
                            ELSE upTo[i - 1] \union NextNodes(E, upTo[i - 1])
    IN  upTo
IsUpTo(f, E, S, n) ==
    f = [i \in 0..n |-> IF i = 0 THEN S ELSE f[i - 1] \union NextNodes(E, f[i - 1])]

\* There is such a function: a least n without one would have one, made from that of n - 1.
LEMMA UpToExists ==
  ASSUME NEW E, NEW S, NEW n \in Nat
  PROVE  IsUpTo(UpTo(E, S, n), E, S, n)
<1> DEFINE N == {m \in Nat : ~ \E f : IsUpTo(f, E, S, m)}
<1>1. N = {}
  <2> SUFFICES ASSUME N # {} PROVE FALSE
    OBVIOUS
  <2>1. PICK m \in N : \A k \in N : m <= k
    <3>1. N \in SUBSET Nat
      OBVIOUS
    <3> HIDE DEF N
    <3> QED BY <3>1, SmallestOf
  <2>2. m \in Nat /\ ~ \E f : IsUpTo(f, E, S, m)
    BY <2>1
  <2>3. CASE m = 0
    <3> DEFINE f == [i \in 0..m |-> S]
    <3>1. f = [i \in 0..m |-> IF i = 0 THEN S ELSE f[i - 1] \union NextNodes(E, f[i - 1])]
      BY <2>3
    <3> HIDE DEF f
    <3> QED BY <2>2, <3>1 DEF IsUpTo
  <2>4. CASE m # 0
    <3>1. m - 1 \in Nat /\ m - 1 < m
      BY <2>2, <2>4
    <3>2. m - 1 \notin N
      BY <2>1, <2>2, <3>1
    <3>3. PICK g : IsUpTo(g, E, S, m - 1)
      BY <3>1, <3>2
    <3>4. g = [i \in 0..m - 1 |-> IF i = 0 THEN S ELSE g[i - 1] \union NextNodes(E, g[i - 1])]
      BY <3>3 DEF IsUpTo
    <3>5. \A i \in 0..m - 1 : g[i] = IF i = 0 THEN S ELSE g[i - 1] \union NextNodes(E, g[i - 1])
      BY <3>4
    <3> DEFINE f == [i \in 0..m |-> IF i = m THEN g[m - 1] \union NextNodes(E, g[m - 1]) ELSE g[i]]
               h == [i \in 0..m |-> IF i = 0 THEN S ELSE f[i - 1] \union NextNodes(E, f[i - 1])]
    <3>6. \A i \in 0..m : f[i] = IF i = m THEN g[m - 1] \union NextNodes(E, g[m - 1]) ELSE g[i]
      OBVIOUS
    <3>7. \A i \in 0..m : i # 0 => f[i - 1] = g[i - 1]
      <4> SUFFICES ASSUME NEW i \in 0..m, i # 0 PROVE f[i - 1] = g[i - 1]
        OBVIOUS
      <4>1. i - 1 \in 0..m /\ i - 1 # m
        BY <2>2
      <4> HIDE DEF f
      <4> QED BY <3>6, <4>1
    <3>8. \A i \in 0..m : f[i] = IF i = 0 THEN S ELSE f[i - 1] \union NextNodes(E, f[i - 1])
      <4> SUFFICES ASSUME NEW i \in 0..m
                   PROVE  f[i] = IF i = 0 THEN S ELSE f[i - 1] \union NextNodes(E, f[i - 1])
        OBVIOUS
      <4> HIDE DEF f
      <4>1. CASE i = m
        BY <2>4, <3>6, <3>7, <4>1
      <4>2. CASE i # m
        <5>1. i \in 0..m - 1
          BY <2>2, <4>2
        <5> QED BY <3>5, <3>6, <3>7, <4>2, <5>1
      <4> QED BY <4>1, <4>2
    <3>9. f = h
      <4>1. \A i \in 0..m : f[i] = h[i]
        BY <3>8
      <4>2. DOMAIN f = 0..m /\ f = [i \in 0..m |-> f[i]]
        OBVIOUS
      <4>3. h = [i \in 0..m |-> f[i]]
        <5> HIDE DEF f
        <5> QED BY <3>8
      <4> QED BY <4>2, <4>3
    <3>10. IsUpTo(f, E, S, m)
      BY <3>9 DEF IsUpTo
    <3> HIDE DEF f
    <3> QED BY <2>2, <3>10
  <2> QED BY <2>3, <2>4
<1>2. \E f : IsUpTo(f, E, S, n)
  BY <1>1
<1>3. UpTo(E, S, n) = CHOOSE f : IsUpTo(f, E, S, n)
  BY DEF UpTo, IsUpTo
<1> QED BY <1>2, <1>3, Zenon

\* Its values.
LEMMA UpToSteps ==
  ASSUME NEW E, NEW S, NEW n \in Nat
  PROVE  /\ UpTo(E, S, n)[0] = S
         /\ \A i \in 1..n : UpTo(E, S, n)[i] = UpTo(E, S, n)[i - 1] \union NextNodes(E, UpTo(E, S, n)[i - 1])
<1> DEFINE f == UpTo(E, S, n)
<1>1. f = [i \in 0..n |-> IF i = 0 THEN S ELSE f[i - 1] \union NextNodes(E, f[i - 1])]
  BY UpToExists DEF IsUpTo
<1> HIDE DEF f
<1>2. \A i \in 0..n : f[i] = IF i = 0 THEN S ELSE f[i - 1] \union NextNodes(E, f[i - 1])
  BY <1>1
<1>3. f[0] = S
  <2>1. 0 \in 0..n
    OBVIOUS
  <2> QED BY <1>2, <2>1
<1>4. ASSUME NEW i \in 1..n PROVE f[i] = f[i - 1] \union NextNodes(E, f[i - 1])
  <2>1. i \in 0..n /\ i # 0
    OBVIOUS
  <2> QED BY <1>2, <2>1
<1> QED BY <1>3, <1>4 DEF f

\* How far the function is computed does not matter.
LEMMA UpToAgrees ==
  ASSUME NEW E, NEW S, NEW n \in Nat, NEW i \in 0..n
  PROVE  UpTo(E, S, n)[i] = WithinLevels(E, S, i)
<1> DEFINE N == {m \in Nat : \E k \in Nat : m <= k /\ UpTo(E, S, k)[m] # UpTo(E, S, m)[m]}
<1>1. N = {}
  <2> SUFFICES ASSUME N # {} PROVE FALSE
    OBVIOUS
  <2>1. PICK m \in N : \A k \in N : m <= k
    <3>1. N \in SUBSET Nat
      OBVIOUS
    <3> HIDE DEF N
    <3> QED BY <3>1, SmallestOf
  <2>2. PICK k \in Nat : m \in Nat /\ m <= k /\ UpTo(E, S, k)[m] # UpTo(E, S, m)[m]
    BY <2>1
  <2>3. CASE m = 0
    <3>1. UpTo(E, S, k)[0] = S /\ UpTo(E, S, 0)[0] = S
      BY <2>2, UpToSteps
    <3> QED BY <2>2, <2>3, <3>1
  <2>4. CASE m # 0
    <3>1. m - 1 \in Nat /\ m - 1 < m /\ m - 1 <= k /\ m \in 1..k /\ m \in 1..m /\ m - 1 <= m
      BY <2>2, <2>4
    <3>2. m - 1 \notin N
      BY <2>1, <2>2, <3>1
    <3>3. UpTo(E, S, k)[m - 1] = UpTo(E, S, m)[m - 1]
      BY <2>2, <3>1, <3>2
    <3>4. /\ UpTo(E, S, k)[m] = UpTo(E, S, k)[m - 1] \union NextNodes(E, UpTo(E, S, k)[m - 1])
          /\ UpTo(E, S, m)[m] = UpTo(E, S, m)[m - 1] \union NextNodes(E, UpTo(E, S, m)[m - 1])
      BY <2>2, <3>1, UpToSteps
    <3> QED BY <2>2, <3>3, <3>4
  <2> QED BY <2>3, <2>4
<1>2. i \in Nat /\ i <= n
  OBVIOUS
<1>3. UpTo(E, S, n)[i] = UpTo(E, S, i)[i]
  BY <1>1, <1>2
<1> QED BY <1>3 DEF WithinLevels, UpTo

\* The levels, one after the other.
LEMMA LevelsAre ==
  ASSUME NEW E, NEW S
  PROVE  /\ WithinLevels(E, S, 0) = S
         /\ \A n \in Nat : WithinLevels(E, S, n + 1)
                             = WithinLevels(E, S, n) \union NextNodes(E, WithinLevels(E, S, n))
<1>1. WithinLevels(E, S, 0) = S
  <2>1. UpTo(E, S, 0)[0] = S
    BY UpToSteps
  <2> QED BY <2>1, UpToAgrees
<1>2. ASSUME NEW n \in Nat
      PROVE  WithinLevels(E, S, n + 1) = WithinLevels(E, S, n) \union NextNodes(E, WithinLevels(E, S, n))
  <2>1. n + 1 \in Nat /\ n + 1 \in 1..n + 1 /\ n + 1 \in 0..n + 1 /\ (n + 1) - 1 = n /\ n \in 0..n + 1
    OBVIOUS
  <2>2. UpTo(E, S, n + 1)[n + 1] = UpTo(E, S, n + 1)[n] \union NextNodes(E, UpTo(E, S, n + 1)[n])
    BY <2>1, UpToSteps
  <2>3. UpTo(E, S, n + 1)[n] = WithinLevels(E, S, n) /\ UpTo(E, S, n + 1)[n + 1] = WithinLevels(E, S, n + 1)
    BY <2>1, UpToAgrees
  <2> QED BY <2>2, <2>3
<1> QED BY <1>1, <1>2

LEMMA OneLevelMore ==
  ASSUME NEW E, NEW S, NEW n \in Nat
  PROVE  WithinLevels(E, S, n + 1) = WithinLevels(E, S, n) \union NextNodes(E, WithinLevels(E, S, n))
BY LevelsAre

\* A level after the first, from the one before it.
LEMMA LevelBefore ==
  ASSUME NEW E, NEW S, NEW n \in Nat, n # 0
  PROVE  WithinLevels(E, S, n) = WithinLevels(E, S, n - 1) \union NextNodes(E, WithinLevels(E, S, n - 1))
<1>1. \A k \in Nat : WithinLevels(E, S, k + 1) = WithinLevels(E, S, k) \union NextNodes(E, WithinLevels(E, S, k))
  BY LevelsAre
<1> DEFINE W(k) == WithinLevels(E, S, k)
           V(k) == WithinLevels(E, S, k) \union NextNodes(E, WithinLevels(E, S, k))
<1>2. \A k \in Nat : W(k + 1) = V(k)
  BY <1>1
<1> HIDE DEF W, V
<1>3. n - 1 \in Nat /\ n = (n - 1) + 1
  OBVIOUS
<1>4. W(n) = V(n - 1)
  BY <1>2, <1>3
<1> QED BY <1>4 DEF W, V

\* More edges and more nodes lead no less far.
LEMMA NextGrows ==
  ASSUME NEW E, NEW Q, E \subseteq Q, NEW X, NEW Y, X \subseteq Y
  PROVE  NextNodes(E, X) \subseteq NextNodes(Q, Y)
BY DEF NextNodes

\* A set that holds the start and that no edge leaves holds every level.
LEMMA LevelsInside ==
  ASSUME NEW E, NEW S, NEW X, S \subseteq X, NextNodes(E, X) \subseteq X, NEW n \in Nat
  PROVE  WithinLevels(E, S, n) \subseteq X
<1> DEFINE N == {m \in Nat : ~ (WithinLevels(E, S, m) \subseteq X)}
<1>1. N = {}
  <2> SUFFICES ASSUME N # {} PROVE FALSE
    OBVIOUS
  <2>1. PICK m \in N : \A k \in N : m <= k
    <3>1. N \in SUBSET Nat
      OBVIOUS
    <3> HIDE DEF N
    <3> QED BY <3>1, SmallestOf
  <2>2. m \in Nat /\ ~ (WithinLevels(E, S, m) \subseteq X)
    BY <2>1
  <2>3. CASE m = 0
    BY <2>2, <2>3, LevelsAre
  <2>4. CASE m # 0
    <3>1. m - 1 \in Nat /\ m - 1 < m /\ (m - 1) + 1 = m
      BY <2>2, <2>4
    <3>2. WithinLevels(E, S, m - 1) \subseteq X
      BY <2>1, <2>2, <3>1
    <3>3. NextNodes(E, WithinLevels(E, S, m - 1)) \subseteq NextNodes(E, X)
      BY <3>2, NextGrows
    <3>4. WithinLevels(E, S, (m - 1) + 1) = WithinLevels(E, S, m - 1) \union NextNodes(E, WithinLevels(E, S, m - 1))
      BY <3>1, OneLevelMore
    <3> QED BY <2>2, <3>1, <3>2, <3>3, <3>4
  <2> QED BY <2>3, <2>4
<1> QED BY <1>1

\* Levels only grow, with their number and with the edges.
LEMMA LevelsRise ==
  ASSUME NEW E, NEW S, NEW n \in Nat, NEW m \in 0..n
  PROVE  WithinLevels(E, S, m) \subseteq WithinLevels(E, S, n)
<1> DEFINE N == {k \in Nat : m <= k /\ ~ (WithinLevels(E, S, m) \subseteq WithinLevels(E, S, k))}
<1>1. N = {}
  <2> SUFFICES ASSUME N # {} PROVE FALSE
    OBVIOUS
  <2>1. PICK k \in N : \A i \in N : k <= i
    <3>1. N \in SUBSET Nat
      OBVIOUS
    <3> HIDE DEF N
    <3> QED BY <3>1, SmallestOf
  <2>2. k \in Nat /\ m <= k /\ ~ (WithinLevels(E, S, m) \subseteq WithinLevels(E, S, k)) /\ m \in Nat
    BY <2>1
  <2>3. k # m
    BY <2>2
  <2>4. k - 1 \in Nat /\ m <= k - 1 /\ k - 1 < k /\ (k - 1) + 1 = k
    BY <2>2, <2>3
  <2>5. WithinLevels(E, S, m) \subseteq WithinLevels(E, S, k - 1)
    BY <2>1, <2>2, <2>4
  <2>6. WithinLevels(E, S, (k - 1) + 1) = WithinLevels(E, S, k - 1) \union NextNodes(E, WithinLevels(E, S, k - 1))
    BY <2>4, LevelsAre
  <2> QED BY <2>2, <2>4, <2>5, <2>6
<1> QED BY <1>1

\* In a finite set that no edge leaves, one level per node is all there is: until the walk
\* stands still each level adds a node.
LEMMA LevelsSettle ==
  ASSUME NEW E, NEW T, IsFiniteSet(T), NextNodes(E, T) \subseteq T,
         NEW S, S \subseteq T, NEW n \in Nat, Cardinality(T) <= n
  PROVE  /\ NextNodes(E, WithinLevels(E, S, n)) \subseteq WithinLevels(E, S, n)
         /\ WithinLevels(E, S, n) \subseteq T
<1> DEFINE W(m) == WithinLevels(E, S, m)
           N == {m \in Nat : ~ (NextNodes(E, W(m)) \subseteq W(m))}
<1>1. ASSUME NEW m \in Nat PROVE W(m) \subseteq T /\ IsFiniteSet(W(m)) /\ Cardinality(W(m)) \in Nat
  <2>1. W(m) \subseteq T
    BY LevelsInside
  <2> HIDE DEF W
  <2> QED BY <2>1, FS_Subset, FS_CardinalityType
<1>2. ASSUME NEW m \in Nat, m # 0, ~ (NextNodes(E, W(m - 1)) \subseteq W(m - 1))
      PROVE  Cardinality(W(m - 1)) < Cardinality(W(m))
  <2>1. W(m) = W(m - 1) \union NextNodes(E, W(m - 1))
    BY <1>2, LevelBefore
  <2>2. m - 1 \in Nat
    BY <1>2
  <2> HIDE DEF W
  <2>3. W(m - 1) \subseteq W(m) /\ W(m - 1) # W(m)
    BY <1>2, <2>1
  <2>4. /\ Cardinality(W(m - 1)) <= Cardinality(W(m))
        /\ Cardinality(W(m - 1)) = Cardinality(W(m)) => W(m - 1) = W(m)
    BY <1>1, <2>3, FS_Subset
  <2> QED BY <1>1, <2>2, <2>3, <2>4
<1>3. ASSUME NEW m \in Nat, NextNodes(E, W(m)) \subseteq W(m), NEW k \in Nat, m <= k
      PROVE  NextNodes(E, W(k)) \subseteq W(k)
  <2>1. S \subseteq W(m)
    <3>1. 0 \in 0..m
      BY <1>3
    <3>2. WithinLevels(E, S, 0) \subseteq W(m)
      BY <3>1, LevelsRise
    <3> QED BY <3>2, LevelsAre
  <2>2. W(k) \subseteq W(m)
    BY <1>3, <2>1, LevelsInside
  <2>3. m \in 0..k
    BY <1>3
  <2>4. W(m) \subseteq W(k)
    BY <2>3, <1>3, LevelsRise
  <2>5. W(k) = W(m)
    BY <2>2, <2>4
  <2> HIDE DEF W
  <2> QED BY <1>3, <2>5
<1>4. ASSUME ~ (NextNodes(E, W(n)) \subseteq W(n)) PROVE FALSE
  <2> DEFINE M == {m \in Nat : m <= n /\ ~ (m <= Cardinality(W(m)))}
  <2>1. M = {}
    <3> SUFFICES ASSUME M # {} PROVE FALSE
      OBVIOUS
    <3>1. PICK m \in M : \A k \in M : m <= k
      <4>1. M \in SUBSET Nat
        OBVIOUS
      <4> HIDE DEF M
      <4> QED BY <4>1, SmallestOf
    <3> HIDE DEF W
    <3>2. m \in Nat /\ m <= n /\ ~ (m <= Cardinality(W(m)))
      BY <3>1
    <3>3. m # 0
      BY <1>1, <3>2
    <3>4. m - 1 \in Nat /\ m - 1 < m /\ m - 1 <= n
      BY <3>2, <3>3
    <3>5. m - 1 <= Cardinality(W(m - 1))
      BY <3>1, <3>2, <3>4
    <3>6. ~ (NextNodes(E, W(m - 1)) \subseteq W(m - 1))
      BY <1>3, <1>4, <3>4
    <3>7. Cardinality(W(m - 1)) < Cardinality(W(m))
      BY <1>2, <3>2, <3>3, <3>6
    <3> QED BY <1>1, <3>2, <3>4, <3>5, <3>7
  <2>2. n <= Cardinality(W(n))
    BY <2>1
  <2> HIDE DEF W
  <2>3. W(n) \subseteq T /\ Cardinality(W(n)) <= Cardinality(T) /\ (Cardinality(W(n)) = Cardinality(T) => W(n) = T)
    BY <1>1, FS_Subset
  <2>4. Cardinality(W(n)) \in Nat /\ Cardinality(T) \in Nat
    BY <1>1, FS_CardinalityType
  <2>5. W(n) = T
    BY <2>2, <2>3, <2>4
  <2> QED BY <1>4, <2>5
<1>5. W(n) \subseteq T
  BY <1>1
<1> QED BY <1>4, <1>5

-----------------------------------------------------------------------------
(***************************************************************************)
(* The rows, and the tables they reach.                                    *)
(***************************************************************************)
\* The rows the system table may ever hold.
AllRows == LateRows \union UNION RowPools

\* One row further leads from a table that is reached to one that is reached.
LEMMA ReachedHolds ==
  ASSUME NEW R, NEW w \in Ways
  PROVE  /\ SeedTable \in Reached(R, w)
         /\ Reached(R, w) \subseteq TableRefs
         /\ \A r \in R : NearEnd(w, r) \in Reached(R, w) /\ FarEnd(w, r) \in TableRefs
                            => FarEnd(w, r) \in Reached(R, w)
<1> DEFINE E == TableEdges(R, w)
           S == {SeedTable}
           n == Cardinality(TableRefs)
<1>1. NextNodes(E, TableRefs) \subseteq TableRefs
  BY DEF NextNodes, TableEdges
<1>2. IsFiniteSet(TableRefs) /\ S \subseteq TableRefs /\ n \in Nat /\ n <= n
  BY GraphBounds, FS_CardinalityType
<1>3. ASSUME NEW r \in R, NEW X, NearEnd(w, r) \in X, FarEnd(w, r) \in TableRefs
      PROVE  FarEnd(w, r) \in NextNodes(E, X)
  <2>1. <<NearEnd(w, r), FarEnd(w, r)>> \in E
    BY <1>3 DEF TableEdges
  <2> HIDE DEF E
  <2> QED BY <1>3, <2>1 DEF NextNodes
<1> HIDE DEF E
<1>4. /\ NextNodes(E, WithinLevels(E, S, n)) \subseteq WithinLevels(E, S, n)
      /\ WithinLevels(E, S, n) \subseteq TableRefs
  <2> HIDE DEF S, n
  <2>1. Cardinality(TableRefs) <= n
    BY <1>2 DEF n
  <2> QED BY <1>1, <1>2, <2>1, LevelsSettle
<1>5. S \subseteq WithinLevels(E, S, n)
  <2>1. 0 \in 0..n
    BY <1>2
  <2>2. WithinLevels(E, S, 0) \subseteq WithinLevels(E, S, n)
    BY <1>2, <2>1, LevelsRise
  <2> QED BY <2>2, LevelsAre
<1>6. Reached(R, w) = WithinLevels(E, S, n)
  BY DEF Reached, E
<1> HIDE DEF n
<1> QED BY <1>3, <1>4, <1>5, <1>6

\* No other set does with less: what holds the seed and is left by no row holds them all.
LEMMA ReachedInside ==
  ASSUME NEW R, NEW w \in Ways, NEW X, SeedTable \in X,
         \A r \in R : NearEnd(w, r) \in X /\ FarEnd(w, r) \in TableRefs => FarEnd(w, r) \in X
  PROVE  Reached(R, w) \subseteq X
<1> DEFINE E == TableEdges(R, w)
           S == {SeedTable}
           n == Cardinality(TableRefs)
<1>1. NextNodes(E, X) \subseteq X
  BY DEF NextNodes, TableEdges
<1>2. S \subseteq X /\ n \in Nat
  BY GraphBounds, FS_CardinalityType
<1>3. Reached(R, w) = WithinLevels(E, S, n)
  BY DEF Reached
<1> HIDE DEF E, S, n
<1> QED BY <1>1, <1>2, <1>3, LevelsInside

\* More rows reach no fewer tables.
LEMMA ReachedGrows ==
  ASSUME NEW R, NEW Q, R \subseteq Q, NEW w \in Ways
  PROVE  Reached(R, w) \subseteq Reached(Q, w)
<1> DEFINE X == Reached(Q, w)
<1>1. SeedTable \in X /\ \A r \in R : NearEnd(w, r) \in X /\ FarEnd(w, r) \in TableRefs => FarEnd(w, r) \in X
  BY ReachedHolds
<1> HIDE DEF X
<1>2. Reached(R, w) \subseteq X
  BY <1>1, ReachedInside
<1> QED BY <1>2 DEF X

\* More rows reach more.
LEMMA ConeGrows ==
  ASSUME NEW R, NEW Q, R \subseteq Q
  PROVE  /\ Cone(R) \subseteq Cone(Q)
         /\ Tables(Cone(R)) \subseteq Tables(Cone(Q))
         /\ Workers(Cone(R)) \subseteq Workers(Cone(Q))
<1>1. \A w \in Ways : Reached(R, w) \subseteq Reached(Q, w)
  BY ReachedGrows
<1>2. Cone(R) \subseteq Cone(Q)
  BY <1>1 DEF Cone
<1>3. ASSUME NEW A, NEW B, A \subseteq B PROVE Tables(A) \subseteq Tables(B) /\ Workers(A) \subseteq Workers(B)
  BY <1>3 DEF Tables, Workers
<1> QED BY <1>2, <1>3

-----------------------------------------------------------------------------
(***************************************************************************)
(* Edges.                                                                  *)
(***************************************************************************)
\* Tables and volumes are no entities, and a table is its own node.
LEMMA RowNodes ==
  ASSUME NEW r \in AllRows
  PROVE  /\ NodeOf(r.src) \notin Entities /\ NodeOf(r.tgt) \notin Entities
         /\ r.by \in Entities \union {Nothing}
         /\ \A t \in TableRefs : NodeOf(t) = t
<1>1. /\ {r.src, r.tgt} \subseteq TableRefs \union PathRefs \union {Nothing}
      /\ r.by \in Entities \union {Nothing}
  BY RowsOfTheTable DEF AllRows
<1>2. ASSUME NEW x \in TableRefs \union PathRefs \union {Nothing}
      PROVE  NodeOf(x) \notin Entities
  BY NamesApart DEF NodeOf
<1>3. \A t \in TableRefs : NodeOf(t) = t
  BY NamesApart DEF NodeOf
<1> QED BY <1>1, <1>2, <1>3

\* Edges through entities, and edges straight from table to table.
EdgesOf(R, W) == (UNION {ThroughEntity(R, e) : e \in W}) \union {Pair(r) : r \in Both(R)}

\* The tables of an entity are no entities.
LEMMA NodesOfEntity ==
  ASSUME NEW R \in SUBSET AllRows, NEW e
  PROVE  Sources(R, e) \cap Entities = {} /\ Targets(R, e) \cap Entities = {}
BY RowNodes DEF Sources, Targets

\* An edge with an entity at an end, and what it means.
LEMMA EdgeOfEntity ==
  ASSUME NEW R \in SUBSET AllRows, NEW W \in SUBSET Entities, NEW p \in EdgesOf(R, W)
  PROVE  /\ p = <<p[1], p[2]>>
         /\ p[1] \in Entities => p[2] \in Targets(R, p[1]) /\ p[2] \notin Entities
         /\ p[2] \in Entities => p[1] \notin Targets(R, p[2]) /\ p[1] \notin Entities
<1>1. CASE p \in {Pair(r) : r \in Both(R)}
  <2>1. PICK r \in Both(R) : p = <<NodeOf(r.src), NodeOf(r.tgt)>>
    BY <1>1 DEF Pair
  <2>2. r \in AllRows
    BY DEF Both
  <2> QED BY <2>1, <2>2, RowNodes
<1>2. ASSUME NEW e \in W, p \in ThroughEntity(R, e)
      PROVE  /\ p = <<p[1], p[2]>>
             /\ p[1] \in Entities => p[2] \in Targets(R, p[1]) /\ p[2] \notin Entities
             /\ p[2] \in Entities => p[1] \notin Targets(R, p[2]) /\ p[1] \notin Entities
  <2>1. e \in Entities /\ Sources(R, e) \cap Entities = {} /\ Targets(R, e) \cap Entities = {}
    BY NodesOfEntity
  <2>2. CASE \E x \in Sources(R, e) \ Targets(R, e) : p = <<x, e>>
    BY <2>1, <2>2
  <2>3. CASE \E x \in Targets(R, e) : p = <<e, x>>
    BY <2>1, <2>3
  <2>4. CASE \E r \in Both(R) : p = Pair(r)
    <3>1. p \in {Pair(r) : r \in Both(R)}
      BY <2>4
    <3> QED BY <3>1, <1>1
  <2>5. \/ \E x \in Sources(R, e) \ Targets(R, e) : p = <<x, e>>
        \/ \E x \in Targets(R, e) : p = <<e, x>>
        \/ \E r \in Both(R) : p = Pair(r)
    BY <1>2, Zenon DEF ThroughEntity
  <2> QED BY <2>2, <2>3, <2>4, <2>5, Zenon
<1> QED BY <1>1, <1>2 DEF EdgesOf

\* So no entity is at both ends of a cycle of two.
NoCycle(G) == \A e \in G : e[1] \in Entities \/ e[2] \in Entities => <<e[2], e[1]>> \notin G

\* No two of the edges drawn close a cycle of two.
LEMMA NoCycleDrawn ==
  ASSUME NEW R \in SUBSET AllRows, NEW W \in SUBSET Entities, NEW G, G \subseteq EdgesOf(R, W)
  PROVE  NoCycle(G)
<1> SUFFICES ASSUME NEW p \in G, p[1] \in Entities \/ p[2] \in Entities, <<p[2], p[1]>> \in G
             PROVE  FALSE
  BY DEF NoCycle
<1> DEFINE q == <<p[2], p[1]>>
<1>1. q \in EdgesOf(R, W) /\ q[1] = p[2] /\ q[2] = p[1]
  OBVIOUS
<1> HIDE DEF q
<1>2. /\ q[1] \in Entities => q[2] \in Targets(R, q[1]) /\ q[2] \notin Entities
      /\ q[2] \in Entities => q[1] \notin Targets(R, q[2]) /\ q[1] \notin Entities
  BY <1>1, EdgeOfEntity
<1>3. /\ p[1] \in Entities => p[2] \in Targets(R, p[1]) /\ p[2] \notin Entities
      /\ p[2] \in Entities => p[1] \notin Targets(R, p[2]) /\ p[1] \notin Entities
  BY EdgeOfEntity
<1> QED BY <1>1, <1>2, <1>3

\* The edges of both graphs are such edges.
LEMMA TraceEdgesAre ==
  ASSUME NEW R \in SUBSET AllRows
  PROVE  /\ Workers(R) \subseteq Entities
         /\ TraceEdges(R) \subseteq EdgesOf(R, Workers(R))
<1>1. Workers(R) \subseteq Entities
  BY RowNodes DEF Workers
<1>2. TraceEdges(R) \subseteq EdgesOf(R, Workers(R))
  BY DEF TraceEdges, EdgesOf
<1> QED BY <1>1, <1>2

\* The edges of a scope are edges of the rows of its tables and of its workers.
LEMMA ScopeEdgesAre ==
  ASSUME NEW R \in SUBSET AllRows, NEW F \in SUBSET AllRows
  PROVE  /\ ScopeWorkers(R) \subseteq Entities
         /\ ScopeEdges(R, F) \subseteq EdgesOf(R \union F, ScopeWorkers(R))
<1>1. ScopeWorkers(R) \subseteq Entities
  BY TraceEdgesAre DEF ScopeWorkers
<1>2. Both(DirectRows(R)) \subseteq Both(R \union F)
  BY DEF Both, DirectRows
<1>3. {Pair(r) : r \in Both(DirectRows(R))} \subseteq {Pair(r) : r \in Both(R \union F)}
  BY <1>2
<1>4. ScopeEdges(R, F) \subseteq (UNION {ThroughEntity(R \union F, e) : e \in ScopeWorkers(R)})
                                   \union {Pair(r) : r \in Both(DirectRows(R))}
  BY Zenon DEF ScopeEdges
<1> HIDE DEF Both
<1> QED BY <1>1, <1>3, <1>4 DEF EdgesOf

-----------------------------------------------------------------------------
(***************************************************************************)
(* The inductive invariant of the graph.                                   *)
(***************************************************************************)
WalkRecord == [frontier : SUBSET TableRefs, seen : SUBSET TableRefs, unread : SUBSET AllRows,
               next : SUBSET TableRefs, hops : 0..MaxIters, at : {"off", "ask", "follow", "done"}]

\* The tables of a walk whose rows have still to be asked for.
Pending(k) == IF k.at = "follow" THEN k.next ELSE k.frontier

\* A row of a table that was asked for was returned, and its far end is seen or about to be.
RowsFollowed(w, k) ==
    \A r \in asOf : NearEnd(w, r) \in k.seen \ Pending(k) =>
        /\ r \in readRows
        /\ r \in k.unread \/ FarEnd(w, r) \notin TableRefs \/ FarEnd(w, r) \in k.seen

WalkSound(w, k) ==
    /\ k.at \in {"ask", "follow", "done"}
    /\ SeedTable \in k.seen /\ k.seen \subseteq Reached(tableLineage, w)
    /\ Pending(k) \subseteq k.seen
    /\ k.at # "follow" => k.unread = {}
    /\ \A r \in k.unread : r \in tableLineage /\ NearEnd(w, r) \in k.seen
    /\ k.at = "done" /\ ~cutShort => k.frontier = {}
    /\ RowsFollowed(w, k)

GraphTypes ==
    /\ asked \in {"none", "trace", "scope"} /\ cutShort \in BOOLEAN
    /\ tableLineage \subseteq AllRows /\ asOf \subseteq tableLineage
    /\ seenAll \subseteq TableRefs /\ readRows \subseteq tableLineage
    /\ walk \in [Ways -> WalkRecord]
    /\ drawn.kind \in {"none", "part", "trace", "scope", "blank"}
    /\ DOMAIN keptGraphs = {"trace", "scope"}
    /\ \A k \in {"trace", "scope"} : keptGraphs[k].kind \in {"none", k}

WalksRight ==
    /\ asked # "trace" => \A w \in Ways : walk[w].at = "off"
    /\ asked = "trace" => readRows \subseteq Cone(tableLineage) /\ \A w \in Ways : WalkSound(w, walk[w])

ScopeRead ==
    asked = "scope" /\ ~cutShort => readRows = {r \in asOf : {r.src, r.tgt} \cap ScopeRefs # {}}

\* A graph that is drawn or kept.
RowsDrawn(k) ==
    k # NotDrawn =>
        \A r \in Both(k.of) : {NodeOf(r.src), NodeOf(r.tgt)} \subseteq k.nodes /\ r \in Cone(k.of)
            => /\ Linked(k, Pair(r))
               /\ Role(k, NodeOf(r.src)) \in {"root", "connected"}
               /\ Role(k, NodeOf(r.tgt)) \in {"leaf", "connected"}

ScopeWhole(k) ==
    k # NotDrawn => Tables({r \in k.of : {r.src, r.tgt} \cap ScopeTables # {}}) \subseteq k.nodes

GraphsRight ==
    /\ NoCycle(drawn.edges)
    /\ NoCycle(keptGraphs["trace"].edges) /\ RowsDrawn(keptGraphs["trace"])
    /\ NoCycle(keptGraphs["scope"].edges) /\ ScopeWhole(keptGraphs["scope"])

LineageGraphSound == GraphTypes /\ WalksRight /\ ScopeRead /\ TraceIsTheCone /\ GraphsRight

-----------------------------------------------------------------------------
(***************************************************************************)
(* What the steps do.                                                      *)
(***************************************************************************)
LEMMA GraphStarts == LineageGraphInit => LineageGraphSound
<1> SUFFICES ASSUME LineageGraphInit PROVE LineageGraphSound
  OBVIOUS
<1> USE DEF LineageGraphInit
<1>1. Resting \in WalkRecord
  BY GraphBounds DEF Resting, WalkRecord
<1>2. GraphTypes
  <2>1. tableLineage \subseteq AllRows
    BY DEF AllRows
  <2>2. walk \in [Ways -> WalkRecord]
    BY <1>1
  <2>3. drawn.kind = "none" /\ \A k \in {"trace", "scope"} : keptGraphs[k].kind = "none"
    BY DEF NotDrawn
  <2> QED BY <2>1, <2>2, <2>3 DEF GraphTypes
<1>3. WalksRight /\ ScopeRead
  BY DEF WalksRight, ScopeRead, Resting
<1>4. TraceIsTheCone
  BY DEF TraceIsTheCone, NotDrawn
<1>5. GraphsRight
  <2>1. NoCycle(NotDrawn.edges)
    BY DEF NoCycle, NotDrawn
  <2> QED BY <2>1 DEF GraphsRight, RowsDrawn, ScopeWhole
<1> QED BY <1>2, <1>3, <1>4, <1>5 DEF LineageGraphSound

\* A walk that goes on while nothing else of it changes but the one walk.
LEMMA OtherWalks ==
  ASSUME LineageGraphSound, NEW w \in Ways, NEW k \in WalkRecord,
         walk' = [walk EXCEPT ![w] = k], asked = "trace",
         readRows \subseteq readRows', readRows' \subseteq Cone(tableLineage), readRows' \subseteq tableLineage,
         cutShort => cutShort', cutShort' \in BOOLEAN, seenAll' \subseteq TableRefs,
         WalkSound(w, k)',
         UNCHANGED <<tableLineage, asked, asOf, drawn, keptGraphs>>
  PROVE  LineageGraphSound'
<1> USE DEF LineageGraphSound
<1>1. walk' \in [Ways -> WalkRecord] /\ walk'[w] = k /\ \A v \in Ways \ {w} : walk'[v] = walk[v]
  BY DEF GraphTypes
<1>2. GraphTypes'
  BY <1>1 DEF GraphTypes
<1>3. ASSUME NEW v \in Ways \ {w} PROVE WalkSound(v, walk[v])'
  <2>1. WalkSound(v, walk[v])
    BY DEF WalksRight
  <2>2. walk'[v] = walk[v]
    BY <1>1
  <2> DEFINE q == walk[v]
  <2>3. q = walk[v] /\ q' = q
    BY <2>2
  <2> HIDE DEF q
  <2>4. RowsFollowed(v, q)'
    BY <2>1, <2>3 DEF WalkSound, RowsFollowed
  <2> QED BY <2>1, <2>3, <2>4 DEF WalkSound
<1>4. WalksRight'
  <2>1. WalkSound(w, walk[w])'
    BY <1>1
  <2> QED BY <1>3, <2>1 DEF WalksRight
<1>5. ScopeRead'
  BY DEF ScopeRead
<1>6. TraceIsTheCone'
  BY DEF TraceIsTheCone
<1>7. GraphsRight'
  BY DEF GraphsRight
<1> QED BY <1>2, <1>4, <1>5, <1>6, <1>7

\* What a walk is while the trace is made.
LEMMA WalkIs ==
  ASSUME LineageGraphSound, NEW w \in Ways, walk[w].at # "off"
  PROVE  /\ asked = "trace" /\ walk[w] \in WalkRecord /\ WalkSound(w, walk[w])
         /\ DOMAIN walk = Ways
BY DEF LineageGraphSound, GraphTypes, WalksRight

\* The query of a hop.
LEMMA HopSound ==
  ASSUME LineageGraphSound, NEW w \in Ways, Hop(w)
  PROVE  LineageGraphSound'
<1> DEFINE page == {r \in tableLineage : NearEnd(w, r) \in walk[w].frontier}
           to == [walk[w] EXCEPT !.unread = page, !.next = {}, !.at = "follow", !.hops = @ + 1]
<1>1. walk[w].at = "ask" /\ walk[w].hops < MaxIters
  BY DEF Hop, MayHop
<1>2. asked = "trace" /\ walk[w] \in WalkRecord /\ WalkSound(w, walk[w]) /\ DOMAIN walk = Ways
  BY <1>1, WalkIs
<1>3. page \subseteq AllRows /\ asOf \subseteq tableLineage
  BY DEF LineageGraphSound, GraphTypes
<1>4. /\ walk' = [walk EXCEPT ![w] = to]
      /\ readRows' = readRows \union page
      /\ UNCHANGED <<tableLineage, asked, asOf, seenAll, cutShort, drawn, keptGraphs>>
  BY Zenon DEF Hop
<1>5. to \in WalkRecord
  <2>1. walk[w].hops + 1 \in 0..MaxIters
    BY <1>1, <1>2, GraphBounds DEF WalkRecord
  <2> HIDE DEF page
  <2> QED BY <1>2, <1>3, <2>1 DEF WalkRecord
<1>6. /\ to.frontier = walk[w].frontier /\ to.seen = walk[w].seen /\ to.unread = page
      /\ to.next = {} /\ to.at = "follow"
  BY <1>2 DEF WalkRecord
<1> HIDE DEF to
<1>7. walk[w].frontier \subseteq walk[w].seen
  BY <1>1, <1>2 DEF WalkSound, Pending
<1>8. readRows' \subseteq Cone(tableLineage) /\ readRows' \subseteq tableLineage
  <2>1. page \subseteq Cone(tableLineage)
    BY <1>2, <1>7 DEF WalkSound, Cone
  <2>2. readRows \subseteq Cone(tableLineage) /\ readRows \subseteq tableLineage
    BY <1>2 DEF LineageGraphSound, GraphTypes, WalksRight
  <2> QED BY <1>4, <2>1, <2>2
<1>9. SUFFICES ASSUME NEW k \in WalkRecord, k = to PROVE LineageGraphSound'
  BY <1>5
<1>10. RowsFollowed(w, k)'
  <2> SUFFICES ASSUME NEW r \in asOf, NearEnd(w, r) \in k.seen
               PROVE  /\ r \in readRows'
                      /\ r \in k.unread \/ FarEnd(w, r) \notin TableRefs \/ FarEnd(w, r) \in k.seen
    BY <1>4, <1>6, <1>9 DEF RowsFollowed, Pending
  <2>1. CASE NearEnd(w, r) \in walk[w].frontier
    <3>1. r \in page
      BY <1>3, <2>1
    <3> QED BY <1>4, <1>6, <1>9, <3>1
  <2>2. CASE NearEnd(w, r) \notin walk[w].frontier
    <3>1. /\ r \in readRows
          /\ r \in walk[w].unread \/ FarEnd(w, r) \notin TableRefs \/ FarEnd(w, r) \in walk[w].seen
          /\ walk[w].unread = {}
      BY <1>1, <1>2, <1>6, <1>9, <2>2 DEF WalkSound, RowsFollowed, Pending
    <3> QED BY <1>4, <1>6, <1>9, <3>1
  <2> QED BY <2>1, <2>2
<1>11. WalkSound(w, k)'
  BY <1>2, <1>4, <1>6, <1>7, <1>9, <1>10 DEF WalkSound, Pending
<1>12. seenAll' \subseteq TableRefs /\ cutShort' \in BOOLEAN
  BY <1>4 DEF LineageGraphSound, GraphTypes
<1> HIDE DEF page
<1> QED BY <1>2, <1>4, <1>8, <1>9, <1>11, <1>12, OtherWalks

\* One row of a hop is followed.
LEMMA FollowSound ==
  ASSUME LineageGraphSound, NEW w \in Ways, NEW r, Follow(w, r)
  PROVE  LineageGraphSound'
<1> DEFINE far == FarEnd(w, r)
           fresh == IF far \in TableRefs \ walk[w].seen THEN {far} ELSE {}
           to == [walk[w] EXCEPT !.unread = @ \ {r}, !.next = @ \union fresh, !.seen = @ \union fresh]
<1>1. walk[w].at = "follow" /\ r \in walk[w].unread
  BY DEF Follow
<1>2. asked = "trace" /\ walk[w] \in WalkRecord /\ WalkSound(w, walk[w]) /\ DOMAIN walk = Ways
  BY <1>1, WalkIs
<1>3. /\ walk' = [walk EXCEPT ![w] = to]
      /\ seenAll' = seenAll \union fresh
      /\ UNCHANGED <<tableLineage, asked, asOf, readRows, cutShort, drawn, keptGraphs>>
  BY Zenon DEF Follow
<1>4. fresh \subseteq TableRefs /\ (far \in TableRefs => far \in walk[w].seen \union fresh)
  OBVIOUS
<1>5. fresh \subseteq Reached(tableLineage, w)
  <2>1. r \in tableLineage /\ NearEnd(w, r) \in Reached(tableLineage, w)
    BY <1>1, <1>2 DEF WalkSound
  <2>2. far \in TableRefs => far \in Reached(tableLineage, w)
    BY <2>1, ReachedHolds
  <2> QED BY <2>2
<1> HIDE DEF fresh, far
<1>6. to \in WalkRecord
  BY <1>2, <1>4 DEF WalkRecord
<1>7. /\ to.seen = walk[w].seen \union fresh /\ to.unread = walk[w].unread \ {r}
      /\ to.next = walk[w].next \union fresh /\ to.at = "follow"
  BY <1>1, <1>2 DEF WalkRecord
<1> HIDE DEF to
<1>8. SUFFICES ASSUME NEW k \in WalkRecord, k = to PROVE LineageGraphSound'
  BY <1>6
<1>9. RowsFollowed(w, k)'
  <2> SUFFICES ASSUME NEW q \in asOf, NearEnd(w, q) \in k.seen \ k.next
               PROVE  /\ q \in readRows
                      /\ q \in k.unread \/ FarEnd(w, q) \notin TableRefs \/ FarEnd(w, q) \in k.seen
    BY <1>3, <1>7, <1>8 DEF RowsFollowed, Pending
  <2>1. NearEnd(w, q) \in walk[w].seen \ walk[w].next
    BY <1>7, <1>8
  <2>2. /\ q \in readRows
        /\ q \in walk[w].unread \/ FarEnd(w, q) \notin TableRefs \/ FarEnd(w, q) \in walk[w].seen
    BY <1>1, <1>2, <2>1 DEF WalkSound, RowsFollowed, Pending
  <2>3. q = r => FarEnd(w, q) \notin TableRefs \/ FarEnd(w, q) \in k.seen
    BY <1>4, <1>7, <1>8 DEF far
  <2> QED BY <1>7, <1>8, <2>2, <2>3
<1>10. WalkSound(w, k)'
  BY <1>1, <1>2, <1>3, <1>5, <1>7, <1>8, <1>9 DEF WalkSound, Pending
<1>11. /\ seenAll' \subseteq TableRefs /\ cutShort' \in BOOLEAN
       /\ readRows' \subseteq Cone(tableLineage) /\ readRows' \subseteq tableLineage
  BY <1>2, <1>3, <1>4 DEF LineageGraphSound, GraphTypes, WalksRight
<1> QED BY <1>2, <1>3, <1>8, <1>10, <1>11, OtherWalks

\* The rows of a hop are used up.
LEMMA HopDoneSound ==
  ASSUME LineageGraphSound, NEW w \in Ways, HopDone(w)
  PROVE  LineageGraphSound'
<1> DEFINE to == [walk[w] EXCEPT !.frontier = walk[w].next, !.next = {}, !.at = "ask"]
<1>1. walk[w].at = "follow" /\ walk[w].unread = {}
  BY DEF HopDone
<1>2. asked = "trace" /\ walk[w] \in WalkRecord /\ WalkSound(w, walk[w]) /\ DOMAIN walk = Ways
  BY <1>1, WalkIs
<1>3. /\ walk' = [walk EXCEPT ![w] = to]
      /\ UNCHANGED <<tableLineage, asked, asOf, seenAll, readRows, cutShort, drawn, keptGraphs>>
  BY Zenon DEF HopDone
<1>4. to \in WalkRecord
  BY <1>2 DEF WalkRecord
<1>5. /\ to.frontier = walk[w].next /\ to.seen = walk[w].seen /\ to.unread = {}
      /\ to.next = {} /\ to.at = "ask"
  BY <1>1, <1>2 DEF WalkRecord
<1> HIDE DEF to
<1>6. SUFFICES ASSUME NEW k \in WalkRecord, k = to PROVE LineageGraphSound'
  BY <1>4
<1>7. RowsFollowed(w, k)'
  BY <1>1, <1>2, <1>3, <1>5, <1>6 DEF WalkSound, RowsFollowed, Pending
<1>8. WalkSound(w, k)'
  BY <1>1, <1>2, <1>3, <1>5, <1>6, <1>7 DEF WalkSound, Pending
<1>9. /\ seenAll' \subseteq TableRefs /\ cutShort' \in BOOLEAN
      /\ readRows' \subseteq Cone(tableLineage) /\ readRows' \subseteq tableLineage
  BY <1>2, <1>3 DEF LineageGraphSound, GraphTypes, WalksRight
<1> QED BY <1>2, <1>3, <1>6, <1>8, <1>9, OtherWalks

\* A walk that has its hops, or whose query failed.
LEMMA WalkEndsSound ==
  ASSUME LineageGraphSound, NEW w \in Ways, WalkEnds(w) \/ HopFails(w)
  PROVE  LineageGraphSound'
<1>1. walk[w].at = "ask"
  BY DEF WalkEnds, HopFails, MayHop
<1>2. asked = "trace" /\ walk[w] \in WalkRecord /\ WalkSound(w, walk[w]) /\ DOMAIN walk = Ways
  BY <1>1, WalkIs
<1>3. PICK n \in 0..MaxIters :
        /\ walk' = [walk EXCEPT ![w] = [walk[w] EXCEPT !.at = "done", !.hops = n]]
        /\ cutShort' \in BOOLEAN /\ (cutShort => cutShort')
        /\ walk[w].frontier # {} => cutShort'
        /\ UNCHANGED <<tableLineage, asked, asOf, seenAll, readRows, drawn, keptGraphs>>
  <2>1. CASE WalkEnds(w)
    <3>1. [walk[w] EXCEPT !.at = "done"] = [walk[w] EXCEPT !.at = "done", !.hops = walk[w].hops]
      BY <1>2 DEF WalkRecord
    <3>2. walk[w].hops \in 0..MaxIters
      BY <1>2 DEF WalkRecord
    <3>3. walk' = [walk EXCEPT ![w] = [walk[w] EXCEPT !.at = "done"]]
      BY <2>1, Zenon DEF WalkEnds
    <3>4. /\ cutShort' = (cutShort \/ Cardinality(seenAll) > NodeCap \/ walk[w].frontier # {})
          /\ cutShort \in BOOLEAN
      BY <2>1 DEF WalkEnds, LineageGraphSound, GraphTypes
    <3>5. UNCHANGED <<tableLineage, asked, asOf, seenAll, readRows, drawn, keptGraphs>>
      BY <2>1 DEF WalkEnds
    <3>6. cutShort' \in BOOLEAN /\ (cutShort => cutShort') /\ (walk[w].frontier # {} => cutShort')
      BY <3>4
    <3> QED BY <3>1, <3>2, <3>3, <3>5, <3>6
  <2>2. CASE HopFails(w)
    <3>1. walk[w].hops + 1 \in 0..MaxIters
      BY <1>2, <2>2, GraphBounds DEF WalkRecord, HopFails, MayHop
    <3>2. walk' = [walk EXCEPT ![w] = [walk[w] EXCEPT !.at = "done", !.hops = walk[w].hops + 1]]
      BY <2>2, Zenon DEF HopFails
    <3> QED BY <2>2, <3>1, <3>2 DEF HopFails
  <2> QED BY <2>1, <2>2
<1> DEFINE to == [walk[w] EXCEPT !.at = "done", !.hops = n]
<1>4. to \in WalkRecord
  BY <1>2 DEF WalkRecord
<1>5. /\ to.frontier = walk[w].frontier /\ to.seen = walk[w].seen /\ to.unread = {} /\ to.at = "done"
  BY <1>1, <1>2 DEF WalkRecord, WalkSound
<1>6. walk' = [walk EXCEPT ![w] = to]
  BY <1>3
<1> HIDE DEF to
<1>7. SUFFICES ASSUME NEW k \in WalkRecord, k = to PROVE LineageGraphSound'
  BY <1>4
<1>8. RowsFollowed(w, k)'
  BY <1>1, <1>2, <1>3, <1>5, <1>7 DEF WalkSound, RowsFollowed, Pending
<1>9. WalkSound(w, k)'
  BY <1>1, <1>2, <1>3, <1>5, <1>7, <1>8 DEF WalkSound, Pending
<1>10. /\ seenAll' \subseteq TableRefs
       /\ readRows' \subseteq Cone(tableLineage) /\ readRows' \subseteq tableLineage
  <2>1. /\ seenAll \subseteq TableRefs
        /\ readRows \subseteq Cone(tableLineage) /\ readRows \subseteq tableLineage
    BY <1>2 DEF LineageGraphSound, GraphTypes, WalksRight
  <2>2. UNCHANGED <<tableLineage, seenAll, readRows>>
    BY <1>3
  <2> QED BY <2>1, <2>2
<1>11. cutShort' \in BOOLEAN /\ (cutShort => cutShort')
  BY <1>3
<1>12. UNCHANGED <<tableLineage, asked, asOf, drawn, keptGraphs>> /\ readRows \subseteq readRows'
  BY <1>3
<1> QED BY <1>2, <1>6, <1>7, <1>9, <1>10, <1>11, <1>12, OtherWalks

\* A trace is asked for.
LEMMA AskTraceSound ==
  ASSUME LineageGraphSound, AskTrace
  PROVE  LineageGraphSound'
<1>1. /\ asked' = "trace" /\ asOf' = tableLineage /\ seenAll' = {SeedTable}
      /\ walk' = [w \in Ways |-> Setting]
      /\ readRows' = {} /\ cutShort' = FALSE /\ drawn' = NotDrawn
      /\ UNCHANGED <<tableLineage, keptGraphs>>
  BY DEF AskTrace
<1>2. Setting \in WalkRecord
  <2>1. Resting \in WalkRecord
    BY GraphBounds DEF Resting, WalkRecord
  <2> QED BY <2>1, GraphBounds DEF Setting, WalkRecord
<1>8. /\ Setting.frontier = {SeedTable} /\ Setting.seen = {SeedTable} /\ Setting.unread = {}
      /\ Setting.next = {} /\ Setting.hops = 0 /\ Setting.at = "ask"
  BY DEF Setting, Resting
<1>3. GraphTypes'
  <2>1. drawn'.kind = "none"
    BY <1>1 DEF NotDrawn
  <2>2. walk' \in [Ways -> WalkRecord]
    BY <1>1, <1>2
  <2> QED BY <1>1, <2>1, <2>2, GraphBounds DEF LineageGraphSound, GraphTypes
<1>4. ASSUME NEW w \in Ways PROVE WalkSound(w, walk[w])'
  <2>1. walk'[w] = Setting
    BY <1>1
  <2>2. SeedTable \in Reached(tableLineage, w)
    BY ReachedHolds
  <2> QED BY <1>1, <1>8, <2>1, <2>2 DEF WalkSound, Pending, RowsFollowed
<1>5. WalksRight'
  BY <1>1, <1>4 DEF WalksRight
<1>6. ScopeRead' /\ TraceIsTheCone'
  BY <1>1 DEF ScopeRead, TraceIsTheCone, NotDrawn
<1>7. GraphsRight'
  <2>1. NoCycle(NotDrawn.edges)
    BY DEF NoCycle, NotDrawn
  <2> QED BY <1>1, <2>1 DEF LineageGraphSound, GraphsRight
<1> QED BY <1>3, <1>5, <1>6, <1>7 DEF LineageGraphSound

\* What a trace that was not cut short has read: the rows of the cone, and no others.
LEMMA WholeTrace ==
  ASSUME LineageGraphSound, asked = "trace", ~cutShort, \A w \in Ways : walk[w].at = "done"
  PROVE  Cone(asOf) \subseteq readRows
<1> SUFFICES ASSUME NEW w \in Ways, NEW r \in asOf, NearEnd(w, r) \in Reached(asOf, w)
             PROVE  r \in readRows
  BY DEF Cone
<1> DEFINE X == walk[w].seen
<1>1. WalkSound(w, walk[w]) /\ walk[w].at = "done"
  BY DEF LineageGraphSound, WalksRight
<1>2. Pending(walk[w]) = {} /\ walk[w].unread = {}
  BY <1>1 DEF WalkSound, Pending
<1>3. \A q \in asOf : NearEnd(w, q) \in X =>
          q \in readRows /\ (FarEnd(w, q) \notin TableRefs \/ FarEnd(w, q) \in X)
  BY <1>1, <1>2 DEF WalkSound, RowsFollowed
<1>4. SeedTable \in X
  BY <1>1 DEF WalkSound
<1> HIDE DEF X
<1>5. Reached(asOf, w) \subseteq X
  BY <1>3, <1>4, ReachedInside
<1> QED BY <1>3, <1>5

\* What a table is called.
LEMMA RolesAre ==
  ASSUME NEW g, NEW n
  PROVE  /\ (\E e \in g.edges : e[1] = n) => Role(g, n) \in {"root", "connected"}
         /\ (\E e \in g.edges : e[2] = n) => Role(g, n) \in {"leaf", "connected"}
<1> DEFINE up == \E e \in g.edges : e[2] = n
           down == \E e \in g.edges : e[1] = n
<1>1. Role(g, n) = CASE up /\ down -> "connected" [] up /\ ~down -> "leaf" [] ~up /\ down -> "root"
                     [] OTHER -> "orphan"
  BY DEF Role
<1> HIDE DEF up, down
<1>2. CASE up /\ down
  BY <1>1, <1>2
<1>3. CASE up /\ ~down
  BY <1>1, <1>3 DEF up, down
<1>4. CASE ~up /\ down
  BY <1>1, <1>4 DEF up, down
<1>5. CASE ~up /\ ~down
  BY <1>5 DEF up, down
<1> QED BY <1>2, <1>3, <1>4, <1>5

\* Its rows can be followed in the drawing.
LEMMA RowsAreDrawn ==
  ASSUME NEW R \in SUBSET AllRows, NEW r \in Both(R), NEW k, k.edges = TraceEdges(R)
  PROVE  /\ Linked(k, Pair(r))
         /\ Role(k, NodeOf(r.src)) \in {"root", "connected"}
         /\ Role(k, NodeOf(r.tgt)) \in {"leaf", "connected"}
<1> DEFINE s == NodeOf(r.src)
           t == NodeOf(r.tgt)
<1>1. r \in R /\ r.src # Nothing /\ r.tgt # Nothing /\ Pair(r) = <<s, t>>
  BY DEF Both, Pair
<1>2. r.by \in Entities \union {Nothing}
  BY <1>1, RowNodes
<1>3. CASE r.by = Nothing
  <2>1. <<s, t>> \in TraceEdges(R)
    BY <1>1, <1>3 DEF TraceEdges
  <2>2. <<s, t>>[1] = s /\ <<s, t>>[2] = t
    OBVIOUS
  <2> HIDE DEF s, t
  <2>3. (\E e \in k.edges : e[1] = s) /\ (\E e \in k.edges : e[2] = t)
    BY <2>1, <2>2
  <2>4. Linked(k, <<s, t>>)
    BY <2>1 DEF Linked
  <2>5. Role(k, s) \in {"root", "connected"} /\ Role(k, t) \in {"leaf", "connected"}
    BY <2>3, RolesAre
  <2> QED BY <1>1, <2>4, <2>5 DEF s, t
<1>4. CASE r.by # Nothing
  <2> DEFINE a == r.by
  <2>1. a \in Entities /\ a \in Workers(R) /\ s \in Sources(R, a) /\ t \in Targets(R, a)
    BY <1>1, <1>2, <1>4 DEF Workers, Sources, Targets
  <2>2. ThroughEntity(R, a) \subseteq TraceEdges(R)
    BY <2>1 DEF TraceEdges
  <2>3. <<a, t>> \in ThroughEntity(R, a)
    BY <2>1 DEF ThroughEntity
  <2>4. CASE s \in Targets(R, a)
    <3>1. <<s, t>> \in ThroughEntity(R, a)
      BY <1>1, <2>4 DEF ThroughEntity
    <3>2. <<s, t>> \in k.edges
      BY <2>2, <3>1
    <3>3. <<s, t>>[1] = s /\ <<s, t>>[2] = t
      OBVIOUS
    <3> HIDE DEF s, t
    <3>4. (\E e \in k.edges : e[1] = s) /\ (\E e \in k.edges : e[2] = t)
      BY <3>2, <3>3
    <3>5. Linked(k, <<s, t>>)
      BY <3>2 DEF Linked
    <3>6. Role(k, s) \in {"root", "connected"} /\ Role(k, t) \in {"leaf", "connected"}
      BY <3>4, RolesAre
    <3> QED BY <1>1, <3>5, <3>6 DEF s, t
  <2>5. CASE s \notin Targets(R, a)
    <3>1. <<s, a>> \in ThroughEntity(R, a)
      BY <2>1, <2>5 DEF ThroughEntity
    <3> HIDE DEF s, t, a
    <3>2. <<s, a>> \in k.edges /\ <<a, t>> \in k.edges
      BY <2>2, <2>3, <3>1
    <3>3. <<s, a>>[1] = s /\ <<a, t>>[2] = t /\ <<s, t>>[1] = s /\ <<s, t>>[2] = t
      OBVIOUS
    <3>4. (\E e \in k.edges : e[1] = s) /\ (\E e \in k.edges : e[2] = t)
      BY <3>2, <3>3
    <3>5. Linked(k, <<s, t>>)
      BY <2>1, <3>2, <3>3 DEF Linked
    <3>6. Role(k, s) \in {"root", "connected"} /\ Role(k, t) \in {"leaf", "connected"}
      BY <3>4, RolesAre
    <3> QED BY <1>1, <3>5, <3>6 DEF s, t
  <2> QED BY <2>4, <2>5
<1> QED BY <1>3, <1>4

\* A trace is drawn.
LEMMA DrawTraceSound ==
  ASSUME LineageGraphSound, DrawTrace
  PROVE  LineageGraphSound'
<1> DEFINE g == [nodes |-> Tables(readRows) \union Workers(readRows),
                 edges |-> TraceEdges(readRows), of |-> asOf,
                 kind |-> IF cutShort THEN "part" ELSE "trace"]
<1>1. /\ asked = "trace" /\ \A w \in Ways : walk[w].at = "done"
      /\ drawn' = g /\ keptGraphs' = IF cutShort THEN keptGraphs ELSE [keptGraphs EXCEPT !["trace"] = g]
      /\ asked' = "none" /\ walk' = [w \in Ways |-> Resting]
      /\ UNCHANGED <<tableLineage, asOf, seenAll, readRows, cutShort>>
  BY DEF DrawTrace
<1>2. /\ g.nodes = Tables(readRows) \union Workers(readRows) /\ g.edges = TraceEdges(readRows)
      /\ g.of = asOf /\ g.kind = IF cutShort THEN "part" ELSE "trace"
  OBVIOUS
<1> HIDE DEF g
<1>3. /\ readRows \subseteq AllRows /\ readRows \subseteq Cone(tableLineage)
      /\ DOMAIN keptGraphs = {"trace", "scope"} /\ cutShort \in BOOLEAN
  BY <1>1 DEF LineageGraphSound, GraphTypes, WalksRight
<1>4. Resting \in WalkRecord /\ Resting.at = "off"
  BY GraphBounds DEF Resting, WalkRecord
<1>5. keptGraphs'["scope"] = keptGraphs["scope"] /\ keptGraphs'["trace"] \in {keptGraphs["trace"], g}
      /\ (cutShort => keptGraphs'["trace"] = keptGraphs["trace"]) /\ DOMAIN keptGraphs' = {"trace", "scope"}
  BY <1>1, <1>3
<1>6. NoCycle(g.edges)
  BY <1>2, <1>3, TraceEdgesAre, NoCycleDrawn
<1>7. GraphTypes'
  <2>1. walk' \in [Ways -> WalkRecord]
    BY <1>1, <1>4
  <2>2. drawn'.kind \in {"part", "trace"}
    BY <1>1, <1>2
  <2>3. \A k \in {"trace", "scope"} : keptGraphs'[k].kind \in {"none", k}
    BY <1>1, <1>2, <1>3, <1>5 DEF LineageGraphSound, GraphTypes
  <2> QED BY <1>1, <1>5, <2>1, <2>2, <2>3 DEF LineageGraphSound, GraphTypes
<1>8. WalksRight' /\ ScopeRead'
  BY <1>1, <1>4 DEF WalksRight, ScopeRead
<1>9. TraceIsTheCone'
  <2> SUFFICES ASSUME ~cutShort
               PROVE  /\ Tables(Cone(g.of)) \subseteq g.nodes
                      /\ g.nodes \subseteq Tables(Cone(tableLineage)) \union Workers(Cone(tableLineage))
    BY <1>1, <1>2 DEF TraceIsTheCone
  <2>1. Cone(asOf) \subseteq readRows
    BY <1>1, WholeTrace
  <2>2. Tables(Cone(asOf)) \subseteq Tables(readRows)
    BY <2>1 DEF Tables
  <2>3. /\ Tables(readRows) \subseteq Tables(Cone(tableLineage))
        /\ Workers(readRows) \subseteq Workers(Cone(tableLineage))
    BY <1>3 DEF Tables, Workers
  <2> QED BY <1>2, <2>2, <2>3
<1>10. ~cutShort => RowsDrawn(g)
  <2> SUFFICES ASSUME ~cutShort, NEW r \in Both(asOf), r \in Cone(asOf)
               PROVE  /\ Linked(g, Pair(r))
                      /\ Role(g, NodeOf(r.src)) \in {"root", "connected"}
                      /\ Role(g, NodeOf(r.tgt)) \in {"leaf", "connected"}
    BY <1>2 DEF RowsDrawn
  <2>1. r \in readRows
    BY <1>1, WholeTrace
  <2>2. r \in Both(readRows)
    BY <2>1 DEF Both
  <2> QED BY <1>2, <1>3, <2>2, RowsAreDrawn
<1>11. GraphsRight'
  <2>1. /\ NoCycle(keptGraphs["trace"].edges) /\ RowsDrawn(keptGraphs["trace"])
        /\ NoCycle(keptGraphs["scope"].edges) /\ ScopeWhole(keptGraphs["scope"])
    BY DEF LineageGraphSound, GraphsRight
  <2>2. NoCycle(keptGraphs'["trace"].edges) /\ RowsDrawn(keptGraphs'["trace"])
    BY <1>5, <1>3, <1>6, <1>10, <2>1
  <2> QED BY <1>1, <1>5, <1>6, <2>1, <2>2 DEF GraphsRight
<1> QED BY <1>7, <1>8, <1>9, <1>11 DEF LineageGraphSound

\* The graph of a scope is asked for.
LEMMA AskScopeSound ==
  ASSUME LineageGraphSound, AskScope
  PROVE  LineageGraphSound'
<1>1. /\ asked = "none" /\ asked' = "scope" /\ asOf' = tableLineage /\ drawn' = NotDrawn
      /\ \/ readRows' = ScopeRows /\ cutShort' = FALSE
         \/ readRows' = {} /\ cutShort' = TRUE
      /\ UNCHANGED <<tableLineage, walk, seenAll, keptGraphs>>
  BY DEF AskScope
<1>2. NotDrawn.kind = "none" /\ NoCycle(NotDrawn.edges)
  BY DEF NotDrawn, NoCycle
<1>3. GraphTypes'
  <2>1. readRows' \subseteq tableLineage /\ cutShort' \in BOOLEAN
    BY <1>1 DEF ScopeRows
  <2> QED BY <1>1, <1>2, <2>1 DEF LineageGraphSound, GraphTypes
<1>4. WalksRight'
  BY <1>1 DEF LineageGraphSound, WalksRight
<1>5. ScopeRead'
  BY <1>1 DEF ScopeRead, ScopeRows
<1>6. TraceIsTheCone'
  BY <1>1, <1>2 DEF TraceIsTheCone
<1>7. GraphsRight'
  BY <1>1, <1>2 DEF LineageGraphSound, GraphsRight
<1> QED BY <1>3, <1>4, <1>5, <1>6, <1>7 DEF LineageGraphSound

\* A scope graph whose first query was answered names every table beside one of the scope.
LEMMA ScopeIsWhole ==
  ASSUME NEW R \in SUBSET AllRows, NEW F \in SUBSET AllRows, NEW A,
         R = {r \in A : {r.src, r.tgt} \cap ScopeRefs # {}}
  PROVE  Tables({r \in A : {r.src, r.tgt} \cap ScopeTables # {}}) \subseteq ScopeNodes(R, F)
<1> DEFINE E == ScopeWorkers(R)
           Q == DirectRows(R) \union {r \in R \union F : r.by \in E}
           Z == {r \in A : {r.src, r.tgt} \cap ScopeTables # {}}
<1>1. ASSUME NEW r \in Z PROVE r \in Q
  <2>1. r \in R /\ r \in AllRows
    BY GraphBounds
  <2>2. PICK t \in ScopeTables : t = r.src \/ t = r.tgt
    OBVIOUS
  <2>3. t \in TableRefs /\ NodeOf(t) = t /\ t # Nothing
    BY <2>1, GraphBounds, NamesApart, RowNodes
  <2>4. CASE r.by = Nothing
    BY <2>1, <2>2, <2>3, <2>4 DEF DirectRows
  <2>5. CASE r.by # Nothing
    <3>1. r.by \in Workers(R)
      BY <2>1, <2>5 DEF Workers
    <3>2. t \in Sources(R, r.by) \union Targets(R, r.by)
      <4>1. CASE t = r.src
        BY <2>1, <2>3, <4>1 DEF Sources
      <4>2. CASE t = r.tgt
        BY <2>1, <2>3, <4>2 DEF Targets
      <4> QED BY <2>2, <4>1, <4>2
    <3>3. r.by \in E
      BY <3>1, <3>2 DEF ScopeWorkers
    <3> HIDE DEF E
    <3> QED BY <2>1, <3>3
  <2> QED BY <2>4, <2>5
<1>2. Tables(Z) \subseteq Tables(Q)
  <2> HIDE DEF Z, Q
  <2> QED BY <1>1 DEF Tables
<1>3. ScopeNodes(R, F) = ScopeTables \union E \union Tables(Q)
  BY DEF ScopeNodes
<1> QED BY <1>2, <1>3

\* The graph of a scope is drawn.
LEMMA DrawScopeSound ==
  ASSUME LineageGraphSound, DrawScope
  PROVE  LineageGraphSound'
<1>1. PICK F \in {{r \in tableLineage : r.by \in ScopeWorkers(readRows)}, {}} :
         drawn' = [nodes |-> ScopeNodes(readRows, F), edges |-> ScopeEdges(readRows, F),
                   of |-> asOf, kind |-> IF cutShort THEN "blank" ELSE "scope"]
  BY DEF DrawScope
<1> DEFINE g == [nodes |-> ScopeNodes(readRows, F), edges |-> ScopeEdges(readRows, F),
                 of |-> asOf, kind |-> IF cutShort THEN "blank" ELSE "scope"]
<1>2. /\ asked = "scope" /\ asked' = "none" /\ drawn' = g
      /\ keptGraphs' = IF cutShort THEN keptGraphs ELSE [keptGraphs EXCEPT !["scope"] = g]
      /\ UNCHANGED <<tableLineage, asOf, walk, seenAll, readRows, cutShort>>
  BY <1>1 DEF DrawScope
<1>3. /\ g.nodes = ScopeNodes(readRows, F) /\ g.edges = ScopeEdges(readRows, F)
      /\ g.of = asOf /\ g.kind = IF cutShort THEN "blank" ELSE "scope"
  OBVIOUS
<1> HIDE DEF g
<1>4. /\ readRows \in SUBSET AllRows /\ F \in SUBSET AllRows
      /\ DOMAIN keptGraphs = {"trace", "scope"} /\ cutShort \in BOOLEAN
  BY DEF LineageGraphSound, GraphTypes
<1>5. keptGraphs'["trace"] = keptGraphs["trace"] /\ keptGraphs'["scope"] \in {keptGraphs["scope"], g}
      /\ (cutShort => keptGraphs'["scope"] = keptGraphs["scope"]) /\ DOMAIN keptGraphs' = {"trace", "scope"}
  BY <1>2, <1>4
<1>6. NoCycle(g.edges)
  <2>1. /\ ScopeWorkers(readRows) \subseteq Entities
        /\ ScopeEdges(readRows, F) \subseteq EdgesOf(readRows \union F, ScopeWorkers(readRows))
    BY <1>4, ScopeEdgesAre
  <2>2. readRows \union F \in SUBSET AllRows
    BY <1>4
  <2> QED BY <1>3, <2>1, <2>2, NoCycleDrawn
<1>7. ~cutShort => ScopeWhole(g)
  <2> SUFFICES ASSUME ~cutShort
               PROVE  Tables({r \in asOf : {r.src, r.tgt} \cap ScopeTables # {}}) \subseteq ScopeNodes(readRows, F)
    BY <1>3 DEF ScopeWhole
  <2>1. readRows = {r \in asOf : {r.src, r.tgt} \cap ScopeRefs # {}}
    BY <1>2 DEF LineageGraphSound, ScopeRead
  <2> QED BY <1>4, <2>1, ScopeIsWhole
<1>8. GraphTypes'
  <2>1. drawn'.kind \in {"blank", "scope"}
    BY <1>2, <1>3
  <2>2. \A k \in {"trace", "scope"} : keptGraphs'[k].kind \in {"none", k}
    BY <1>3, <1>4, <1>5 DEF LineageGraphSound, GraphTypes
  <2> QED BY <1>2, <1>5, <2>1, <2>2 DEF LineageGraphSound, GraphTypes
<1>9. WalksRight' /\ ScopeRead'
  BY <1>2 DEF LineageGraphSound, WalksRight, ScopeRead
<1>10. TraceIsTheCone'
  BY <1>2, <1>3 DEF TraceIsTheCone
<1>11. GraphsRight'
  <2>1. /\ NoCycle(keptGraphs["trace"].edges) /\ RowsDrawn(keptGraphs["trace"])
        /\ NoCycle(keptGraphs["scope"].edges) /\ ScopeWhole(keptGraphs["scope"])
    BY DEF LineageGraphSound, GraphsRight
  <2>2. NoCycle(keptGraphs'["scope"].edges) /\ ScopeWhole(keptGraphs'["scope"])
    BY <1>4, <1>5, <1>6, <1>7, <2>1
  <2> QED BY <1>2, <1>5, <1>6, <2>1, <2>2 DEF GraphsRight
<1> QED BY <1>8, <1>9, <1>10, <1>11 DEF LineageGraphSound

\* What was drawn goes out of date.
LEMMA ForgetGraphSound ==
  ASSUME LineageGraphSound, NEW a \in {"trace", "scope"}, ForgetGraph(a)
  PROVE  LineageGraphSound'
<1>1. /\ keptGraphs' = [keptGraphs EXCEPT ![a] = NotDrawn]
      /\ UNCHANGED <<tableLineage, asked, asOf, walk, seenAll, readRows, cutShort, drawn>>
  BY DEF ForgetGraph
<1>2. NotDrawn.kind = "none" /\ NoCycle(NotDrawn.edges)
  BY DEF NotDrawn, NoCycle
<1>3. DOMAIN keptGraphs' = {"trace", "scope"}
      /\ \A k \in {"trace", "scope"} : keptGraphs'[k] = IF k = a THEN NotDrawn ELSE keptGraphs[k]
  BY <1>1 DEF LineageGraphSound, GraphTypes
<1>4. GraphTypes'
  BY <1>1, <1>2, <1>3 DEF LineageGraphSound, GraphTypes
<1>5. WalksRight' /\ ScopeRead' /\ TraceIsTheCone'
  <2>1. ASSUME NEW w \in Ways, WalkSound(w, walk[w]) PROVE WalkSound(w, walk[w])'
    BY <1>1, <2>1 DEF WalkSound, RowsFollowed
  <2> QED BY <1>1, <2>1 DEF LineageGraphSound, WalksRight, ScopeRead, TraceIsTheCone
<1>6. GraphsRight'
  BY <1>1, <1>2, <1>3 DEF LineageGraphSound, GraphsRight, RowsDrawn, ScopeWhole
<1> QED BY <1>4, <1>5, <1>6 DEF LineageGraphSound

\* A row is recorded.
LEMMA RecordSound ==
  ASSUME LineageGraphSound, NEW r, Record(r)
  PROVE  LineageGraphSound'
<1>1. /\ r \in LateRows /\ tableLineage' = tableLineage \union {r}
      /\ UNCHANGED <<asked, asOf, walk, seenAll, readRows, cutShort, drawn, keptGraphs>>
  BY DEF Record
<1>2. GraphTypes'
  BY <1>1 DEF LineageGraphSound, GraphTypes, AllRows
<1>3. /\ Cone(tableLineage) \subseteq Cone(tableLineage')
      /\ Tables(Cone(tableLineage)) \subseteq Tables(Cone(tableLineage'))
      /\ Workers(Cone(tableLineage)) \subseteq Workers(Cone(tableLineage'))
  <2> DEFINE Q == tableLineage'
  <2>1. tableLineage \subseteq Q
    BY <1>1
  <2> HIDE DEF Q
  <2>2. /\ Cone(tableLineage) \subseteq Cone(Q)
        /\ Tables(Cone(tableLineage)) \subseteq Tables(Cone(Q))
        /\ Workers(Cone(tableLineage)) \subseteq Workers(Cone(Q))
    BY <2>1, ConeGrows
  <2> QED BY <2>2 DEF Q
<1>4. ASSUME NEW w \in Ways PROVE Reached(tableLineage, w) \subseteq Reached(tableLineage', w)
  <2> DEFINE Q == tableLineage'
  <2>1. tableLineage \subseteq Q
    BY <1>1
  <2> HIDE DEF Q
  <2>2. Reached(tableLineage, w) \subseteq Reached(Q, w)
    BY <2>1, ReachedGrows
  <2> QED BY <2>2 DEF Q
<1>5. ASSUME NEW w \in Ways, WalkSound(w, walk[w]) PROVE WalkSound(w, walk[w])'
  <2> DEFINE k == walk[w]
  <2>1. k' = k /\ tableLineage \subseteq tableLineage'
    BY <1>1
  <2>2. WalkSound(w, k)
    BY <1>5
  <2> HIDE DEF k
  <2>3. RowsFollowed(w, k)'
    BY <1>1, <2>1, <2>2 DEF WalkSound, RowsFollowed
  <2>4. (k.seen \subseteq Reached(tableLineage, w))'
    BY <1>4, <2>1, <2>2 DEF WalkSound
  <2>5. WalkSound(w, k)'
    BY <1>1, <2>1, <2>2, <2>3, <2>4 DEF WalkSound
  <2> QED BY <2>5 DEF k
<1>6. WalksRight'
  BY <1>1, <1>3, <1>5 DEF LineageGraphSound, WalksRight
<1>7. ScopeRead' /\ TraceIsTheCone'
  BY <1>1, <1>3 DEF LineageGraphSound, ScopeRead, TraceIsTheCone
<1>8. GraphsRight'
  BY <1>1 DEF LineageGraphSound, GraphsRight
<1> QED BY <1>2, <1>6, <1>7, <1>8 DEF LineageGraphSound

\* Every step keeps the invariant.
LEMMA GraphMoves == LineageGraphSound /\ [LineageGraphNext]_lineageGraphVars => LineageGraphSound'
<1> SUFFICES ASSUME LineageGraphSound, [LineageGraphNext]_lineageGraphVars PROVE LineageGraphSound'
  OBVIOUS
<1>1. CASE AskTrace
  BY <1>1, AskTraceSound
<1>2. CASE DrawTrace
  BY <1>2, DrawTraceSound
<1>3. CASE AskScope
  BY <1>3, AskScopeSound
<1>4. CASE DrawScope
  BY <1>4, DrawScopeSound
<1>5. ASSUME NEW w \in Ways, Hop(w) \/ HopDone(w) \/ WalkEnds(w) \/ HopFails(w)
      PROVE  LineageGraphSound'
  BY <1>5, HopSound, HopDoneSound, WalkEndsSound
<1>6. ASSUME NEW w \in Ways, NEW r \in walk[w].unread, Follow(w, r) PROVE LineageGraphSound'
  BY <1>6, FollowSound
<1>7. ASSUME NEW k \in {"trace", "scope"}, ForgetGraph(k) PROVE LineageGraphSound'
  BY <1>7, ForgetGraphSound
<1>8. ASSUME NEW r \in LateRows, Record(r) PROVE LineageGraphSound'
  BY <1>8, RecordSound
<1>9. CASE UNCHANGED lineageGraphVars
  <2>1. UNCHANGED <<tableLineage, asked, asOf, walk, seenAll, readRows, cutShort, drawn, keptGraphs>>
    BY <1>9 DEF lineageGraphVars
  <2>2. GraphTypes' /\ ScopeRead' /\ TraceIsTheCone' /\ GraphsRight'
    BY <2>1 DEF LineageGraphSound, GraphTypes, ScopeRead, TraceIsTheCone, GraphsRight
  <2>3. ASSUME NEW w \in Ways, WalkSound(w, walk[w]) PROVE WalkSound(w, walk[w])'
    BY <2>1, <2>3 DEF WalkSound, RowsFollowed
  <2>4. WalksRight'
    BY <2>1, <2>3 DEF LineageGraphSound, WalksRight
  <2> QED BY <2>2, <2>4 DEF LineageGraphSound
<1> QED BY <1>1, <1>2, <1>3, <1>4, <1>5, <1>6, <1>7, <1>8, <1>9 DEF LineageGraphNext

\* So it holds of every behaviour.
LEMMA GraphStaysSound == LineageGraphSpec => []LineageGraphSound
BY GraphStarts, GraphMoves, PTL DEF LineageGraphSpec

\* A frontier holds tables only, a walk takes no more hops than it may, and an answer is
\* kept under its own kind.
THEOREM LineageGraphTypeCorrect == LineageGraphSpec => []LineageGraphTypeOK
<1>1. LineageGraphSound => LineageGraphTypeOK
  BY DEF LineageGraphSound, GraphTypes, LineageGraphTypeOK, WalkRecord
<1> QED BY <1>1, GraphStaysSound, PTL

\* _fetch_lineage_trace: a trace that is not marked truncated is the seed's lineage cone.
THEOREM TraceIsTheConeHolds == LineageGraphSpec => []TraceIsTheCone
<1>1. LineageGraphSound => TraceIsTheCone
  BY DEF LineageGraphSound
<1> QED BY <1>1, GraphStaysSound, PTL

\* No false cycle is drawn, no dependency of a kept trace is lost, and no failed query is
\* kept as the graph of a scope.
THEOREM DrawnRightHolds == LineageGraphSpec => []DrawnRight
<1>1. LineageGraphSound => DrawnRight
  <2> SUFFICES ASSUME LineageGraphSound PROVE DrawnRight
    OBVIOUS
  <2>1. GraphsRight
    BY DEF LineageGraphSound
  <2>2. TraceDrawsRows
    BY <2>1 DEF GraphsRight, RowsDrawn, TraceDrawsRows
  <2>3. NoFalseCycle
    BY <2>1 DEF GraphsRight, NoCycle, NoFalseCycle
  <2>4. KeptScopeIsNotBlank
    BY <2>1 DEF GraphsRight, ScopeWhole, KeptScopeIsNotBlank
  <2> QED BY <2>2, <2>3, <2>4 DEF DrawnRight
<1> QED BY <1>1, GraphStaysSound, PTL

-----------------------------------------------------------------------------
(***************************************************************************)
(* Ways: what the walks by levels find.                                    *)
(***************************************************************************)
\* A way of n edges of E between two nodes of V.
WayIn(V, E, b, c, n) ==
    \E way \in [0..n -> V] : way[0] = b /\ way[n] = c /\ \A i \in 0..n - 1 : <<way[i], way[i + 1]>> \in E

\* A way of no edges.
LEMMA NoWay ==
  ASSUME NEW V, NEW E, NEW b \in V, NEW c \in V
  PROVE  WayIn(V, E, b, c, 0) <=> b = c
<1>1. ASSUME b = c PROVE WayIn(V, E, b, c, 0)
  <2> DEFINE way == [i \in 0..0 |-> b]
  <2>1. way \in [0..0 -> V] /\ way[0] = b /\ \A i \in 0..0 - 1 : <<way[i], way[i + 1]>> \in E
    OBVIOUS
  <2> HIDE DEF way
  <2> QED BY <1>1, <2>1 DEF WayIn
<1> QED BY <1>1 DEF WayIn

\* A way is extended by the edges that leave its end.
LEMMA WayOn ==
  ASSUME NEW V, NEW E, NEW b \in V, NEW c \in V, NEW n \in Nat
  PROVE  WayIn(V, E, b, c, n + 1) <=> \E d \in V : WayIn(V, E, b, d, n) /\ <<d, c>> \in E
<1>1. ASSUME WayIn(V, E, b, c, n + 1)
      PROVE  \E d \in V : WayIn(V, E, b, d, n) /\ <<d, c>> \in E
  <2>1. PICK way \in [0..n + 1 -> V] : /\ way[0] = b /\ way[n + 1] = c
                                       /\ \A i \in 0..(n + 1) - 1 : <<way[i], way[i + 1]>> \in E
    BY <1>1 DEF WayIn
  <2> DEFINE short == [i \in 0..n |-> way[i]]
  <2>2. n \in 0..n + 1 /\ n \in 0..(n + 1) - 1 /\ 0 \in 0..n /\ n \in 0..n
    OBVIOUS
  <2>3. short \in [0..n -> V] /\ short[0] = b /\ short[n] = way[n]
    BY <2>1, <2>2
  <2>4. \A i \in 0..n - 1 : <<short[i], short[i + 1]>> \in E
    <3> SUFFICES ASSUME NEW i \in 0..n - 1 PROVE <<short[i], short[i + 1]>> \in E
      OBVIOUS
    <3>1. i \in 0..n /\ i + 1 \in 0..n /\ i \in 0..(n + 1) - 1
      OBVIOUS
    <3> QED BY <2>1, <3>1
  <2> HIDE DEF short
  <2>5. WayIn(V, E, b, way[n], n)
    BY <2>3, <2>4 DEF WayIn
  <2>6. way[n] \in V /\ <<way[n], c>> \in E
    BY <2>1, <2>2
  <2> QED BY <2>5, <2>6
<1>2. ASSUME NEW d \in V, WayIn(V, E, b, d, n), <<d, c>> \in E
      PROVE  WayIn(V, E, b, c, n + 1)
  <2>1. PICK way \in [0..n -> V] : /\ way[0] = b /\ way[n] = d
                                   /\ \A i \in 0..n - 1 : <<way[i], way[i + 1]>> \in E
    BY <1>2 DEF WayIn
  <2> DEFINE long == [i \in 0..n + 1 |-> IF i = n + 1 THEN c ELSE way[i]]
  <2>2. \A i \in 0..n + 1 : i # n + 1 => i \in 0..n
    OBVIOUS
  <2>3. long \in [0..n + 1 -> V]
    BY <2>1, <2>2
  <2>4. 0 \in 0..n + 1 /\ n + 1 \in 0..n + 1 /\ 0 # n + 1
    OBVIOUS
  <2>5. long[0] = b /\ long[n + 1] = c
    BY <2>1, <2>4
  <2>6. \A i \in 0..(n + 1) - 1 : <<long[i], long[i + 1]>> \in E
    <3> SUFFICES ASSUME NEW i \in 0..(n + 1) - 1 PROVE <<long[i], long[i + 1]>> \in E
      OBVIOUS
    <3>1. i \in 0..n + 1 /\ i + 1 \in 0..n + 1 /\ i # n + 1
      OBVIOUS
    <3>2. CASE i = n
      BY <1>2, <2>1, <3>1, <3>2
    <3>3. CASE i # n
      <4>1. i \in 0..n - 1 /\ i + 1 # n + 1
        BY <3>3
      <4> QED BY <2>1, <3>1, <4>1
    <3> QED BY <3>2, <3>3
  <2> HIDE DEF long
  <2> QED BY <2>3, <2>5, <2>6 DEF WayIn
<1> QED BY <1>1, <1>2

\* Within n levels is what some way of at most n edges leads to.
LEMMA LevelsAreWays ==
  ASSUME NEW V, NEW E \in SUBSET (V \X V), NEW a \in V, NEW n \in Nat
  PROVE  /\ WithinLevels(E, {a}, n) \subseteq V
         /\ \A x \in V : x \in WithinLevels(E, {a}, n) <=> \E k \in 0..n : WayIn(V, E, a, x, k)
<1> DEFINE Right(m) == \A x \in V : x \in WithinLevels(E, {a}, m) <=> \E k \in 0..m : WayIn(V, E, a, x, k)
           N == {m \in Nat : ~Right(m)}
           S == {a}
<1>1. \A m \in Nat : WithinLevels(E, {a}, m) \subseteq V
  <2>1. NextNodes(E, V) \subseteq V /\ S \subseteq V
    BY DEF NextNodes
  <2> HIDE DEF S
  <2>2. \A m \in Nat : WithinLevels(E, S, m) \subseteq V
    BY <2>1, LevelsInside
  <2> QED BY <2>2 DEF S
<1>2. N = {}
  <2> SUFFICES ASSUME N # {} PROVE FALSE
    OBVIOUS
  <2>1. PICK m \in N : \A k \in N : m <= k
    <3>1. N \in SUBSET Nat
      OBVIOUS
    <3> HIDE DEF N
    <3> QED BY <3>1, SmallestOf
  <2>2. m \in Nat /\ ~Right(m)
    BY <2>1
  <2>3. CASE m = 0
    <3>1. WithinLevels(E, S, 0) = S
      BY LevelsAre
    <3>2. \A x \in V : x \in WithinLevels(E, {a}, 0) <=> x = a
      BY <3>1
    <3>3. \A x \in V : WayIn(V, E, a, x, 0) <=> x = a
      BY NoWay
    <3>4. \A k \in 0..0 : k = 0
      OBVIOUS
    <3> QED BY <2>2, <2>3, <3>2, <3>3, <3>4
  <2>4. CASE m # 0
    <3> DEFINE j == m - 1
    <3>1. j \in Nat /\ j < m /\ m = j + 1
      BY <2>2, <2>4
    <3>2. Right(j)
      <4> HIDE DEF Right, j
      <4>1. j \notin N
        BY <2>1, <2>2, <3>1
      <4> QED BY <3>1, <4>1
    <3>3. WithinLevels(E, S, m) = WithinLevels(E, S, j) \union NextNodes(E, WithinLevels(E, S, j))
      BY <2>2, <2>4, LevelBefore
    <3> HIDE DEF j
    <3>4. ASSUME NEW x \in V PROVE x \in WithinLevels(E, S, m) <=> \E k \in 0..m : WayIn(V, E, a, x, k)
      <4>1. \A k \in 0..j : k \in 0..m /\ k + 1 \in 0..m
        BY <3>1
      <4>2. ASSUME NEW k \in 0..m, k # 0 PROVE k - 1 \in 0..j /\ k - 1 \in Nat /\ (k - 1) + 1 = k
        BY <3>1, <4>2
      <4>3. ASSUME x \in WithinLevels(E, S, j) PROVE \E k \in 0..m : WayIn(V, E, a, x, k)
        BY <3>2, <4>1, <4>3
      <4>4. ASSUME x \in NextNodes(E, WithinLevels(E, S, j)) PROVE \E k \in 0..m : WayIn(V, E, a, x, k)
        <5>1. PICK p \in E : p[1] \in WithinLevels(E, S, j) /\ p[2] = x
          BY <4>4 DEF NextNodes
        <5>2. p = <<p[1], x>> /\ p[1] \in V
          BY <5>1
        <5>3. PICK k \in 0..j : WayIn(V, E, a, p[1], k)
          BY <3>2, <5>1, <5>2
        <5>4. k \in Nat
          BY <3>1
        <5>5. WayIn(V, E, a, x, k + 1)
          BY <5>1, <5>2, <5>3, <5>4, WayOn
        <5> QED BY <4>1, <5>5
      <4>5. ASSUME NEW k \in 0..m, WayIn(V, E, a, x, k) PROVE x \in WithinLevels(E, S, m)
        <5>1. CASE k = 0
          <6>1. x = a
            BY <4>5, <5>1, NoWay
          <6>2. WithinLevels(E, S, 0) = S
            BY LevelsAre
          <6>3. 0 \in 0..m
            BY <2>2
          <6>4. WithinLevels(E, S, 0) \subseteq WithinLevels(E, S, m)
            BY <2>2, <6>3, LevelsRise
          <6> QED BY <6>1, <6>2, <6>4
        <5>2. CASE k # 0
          <6> DEFINE i == k - 1
          <6>1. i \in 0..j /\ i \in Nat /\ i + 1 = k
            BY <4>2, <5>2
          <6> HIDE DEF i
          <6>2. WayIn(V, E, a, x, i + 1)
            BY <4>5, <6>1
          <6>3. PICK d \in V : WayIn(V, E, a, d, i) /\ <<d, x>> \in E
            BY <6>1, <6>2, WayOn
          <6>4. d \in WithinLevels(E, S, j)
            BY <3>2, <6>1, <6>3
          <6>5. x \in NextNodes(E, WithinLevels(E, S, j))
            <7>1. <<d, x>>[1] = d /\ <<d, x>>[2] = x
              OBVIOUS
            <7> QED BY <6>3, <6>4, <7>1 DEF NextNodes
          <6> QED BY <3>3, <6>5
        <5> QED BY <5>1, <5>2
      <4> QED BY <3>3, <4>3, <4>4, <4>5
    <3> QED BY <2>2, <3>4
  <2> QED BY <2>3, <2>4
<1> HIDE DEF Right
<1>3. Right(n)
  BY <1>2
<1> QED BY <1>1, <1>3 DEF Right

\* A way walked backwards.
LEMMA WayBack ==
  ASSUME NEW V, NEW E \in SUBSET (V \X V), NEW a \in V, NEW x \in V, NEW n \in Nat
  PROVE  WayIn(V, Backward(E), a, x, n) <=> WayIn(V, E, x, a, n)
<1>1. \A u, v : <<v, u>> \in Backward(E) <=> <<u, v>> \in E
  BY DEF Backward
<1>2. ASSUME NEW P, NEW Q, \A u, v : <<u, v>> \in P => <<v, u>> \in Q,
             NEW y \in V, NEW z \in V, WayIn(V, P, y, z, n)
      PROVE  WayIn(V, Q, z, y, n)
  <2>1. PICK way \in [0..n -> V] : /\ way[0] = y /\ way[n] = z
                                   /\ \A i \in 0..n - 1 : <<way[i], way[i + 1]>> \in P
    BY <1>2 DEF WayIn
  <2> DEFINE back == [i \in 0..n |-> way[n - i]]
  <2>2. \A i \in 0..n : n - i \in 0..n
    OBVIOUS
  <2>3. back \in [0..n -> V]
    BY <2>1, <2>2
  <2>4. 0 \in 0..n /\ n \in 0..n /\ n - 0 = n /\ n - n = 0
    OBVIOUS
  <2>5. back[0] = z /\ back[n] = y
    BY <2>1, <2>4
  <2>6. \A i \in 0..n - 1 : <<back[i], back[i + 1]>> \in Q
    <3> SUFFICES ASSUME NEW i \in 0..n - 1 PROVE <<back[i], back[i + 1]>> \in Q
      OBVIOUS
    <3> DEFINE m == n - (i + 1)
    <3>1. i \in 0..n /\ i + 1 \in 0..n /\ m \in 0..n - 1 /\ n - i = m + 1
      OBVIOUS
    <3>2. back[i] = way[m + 1] /\ back[i + 1] = way[m]
      BY <3>1
    <3> HIDE DEF back, m
    <3>3. <<way[m], way[m + 1]>> \in P
      BY <2>1, <3>1
    <3> QED BY <1>2, <3>2, <3>3
  <2> HIDE DEF back
  <2> QED BY <2>3, <2>5, <2>6 DEF WayIn
<1>3. WayIn(V, Backward(E), a, x, n) => WayIn(V, E, x, a, n)
  BY <1>1, <1>2
<1>4. WayIn(V, E, x, a, n) => WayIn(V, Backward(E), a, x, n)
  BY <1>1, <1>2
<1> QED BY <1>3, <1>4

-----------------------------------------------------------------------------
(***************************************************************************)
(* The layers of the panel's trace.                                        *)
(***************************************************************************)
LEMMA UpstreamIsWay ==
  ASSUME NEW g, NEW x, NEW c, NEW n
  PROVE  UpstreamIn(g, x, c, n) <=> WayIn(TraceColumns, g, x, c, n)
BY DEF UpstreamIn, WayIn

\* What the panel loads are pairs of two columns.
LEMMA StoredEdges ==
  ASSUME TraceTypeOK
  PROVE  /\ Loaded \in SUBSET (TraceColumns \X TraceColumns)
         /\ \A p \in Loaded : p[1] # p[2]
BY TraceAssumption DEF TraceTypeOK, Loaded

\* Within n layers of a column is what some way of at most n edges leads up from.
LEMMA LayersAreWays ==
  ASSUME NEW g \in SUBSET (TraceColumns \X TraceColumns), NEW c \in TraceColumns, NEW n \in Nat
  PROVE  /\ WithinLevels(Backward(g), {c}, n) \subseteq TraceColumns
         /\ \A x \in TraceColumns : x \in WithinLevels(Backward(g), {c}, n)
                                       <=> \E k \in 0..n : UpstreamIn(g, x, c, k)
<1> DEFINE E == Backward(g)
<1>1. E \in SUBSET (TraceColumns \X TraceColumns)
  BY DEF Backward
<1>2. \A x \in TraceColumns : \A k \in 0..n : WayIn(TraceColumns, E, c, x, k) <=> UpstreamIn(g, x, c, k)
  <2> SUFFICES ASSUME NEW x \in TraceColumns, NEW k \in 0..n
               PROVE  WayIn(TraceColumns, E, c, x, k) <=> UpstreamIn(g, x, c, k)
    OBVIOUS
  <2>1. k \in Nat
    OBVIOUS
  <2> QED BY <2>1, WayBack, UpstreamIsWay
<1> HIDE DEF E
<1>3. /\ WithinLevels(E, {c}, n) \subseteq TraceColumns
      /\ \A x \in TraceColumns : x \in WithinLevels(E, {c}, n)
                                   <=> \E k \in 0..n : WayIn(TraceColumns, E, c, x, k)
  BY <1>1, LevelsAreWays
<1> QED BY <1>2, <1>3 DEF E

\* A layer holds what is exactly so far away.
LEMMA LayerHolds ==
  ASSUME TraceTypeOK, NEW c \in TraceColumns, NEW n \in 0..TraceDepth
  PROVE  Layers(c)[n] = {x \in TraceColumns : /\ UpstreamIn(Loaded, x, c, n)
                                              /\ \A k \in 0..n - 1 : ~UpstreamIn(Loaded, x, c, k)}
<1> DEFINE g == Loaded
           W(m) == WithinLevels(Backward(g), {c}, m)
<1>1. g \in SUBSET (TraceColumns \X TraceColumns)
  BY StoredEdges
<1>2. \A m \in Nat : /\ W(m) \subseteq TraceColumns
                     /\ \A x \in TraceColumns : x \in W(m) <=> \E k \in 0..m : UpstreamIn(g, x, c, k)
  <2> HIDE DEF g
  <2> QED BY <1>1, LayersAreWays
<1>3. Layers(c)[n] = IF n = 0 THEN {c} ELSE W(n) \ W(n - 1)
  BY DEF Layers
<1>4. W(0) = {c}
  BY LevelsAre
<1> HIDE DEF W, g
<1>5. CASE n = 0
  <2>1. \A x \in TraceColumns : x \in {c} <=> \E k \in 0..0 : UpstreamIn(g, x, c, k)
    BY <1>2, <1>4
  <2>2. \A k \in 0..0 : k = 0
    OBVIOUS
  <2> QED BY <1>3, <1>5, <2>1, <2>2 DEF g
<1>6. CASE n # 0
  <2>1. n \in Nat /\ n - 1 \in Nat
    BY <1>6, TraceAssumption
  <2>2. \A k \in 0..n : k = n \/ k \in 0..n - 1
    BY <2>1
  <2>3. n \in 0..n /\ \A k \in 0..n - 1 : k \in 0..n
    BY <2>1
  <2>4. /\ W(n) \subseteq TraceColumns
        /\ \A x \in TraceColumns : x \in W(n) <=> \E k \in 0..n : UpstreamIn(g, x, c, k)
        /\ \A x \in TraceColumns : x \in W(n - 1) <=> \E k \in 0..n - 1 : UpstreamIn(g, x, c, k)
    BY <1>2, <2>1
  <2>5. \A x \in TraceColumns : x \in W(n) \ W(n - 1)
           <=> UpstreamIn(g, x, c, n) /\ \A k \in 0..n - 1 : ~UpstreamIn(g, x, c, k)
    BY <2>2, <2>3, <2>4
  <2> QED BY <1>3, <1>6, <2>4, <2>5 DEF g
<1> QED BY <1>5, <1>6

\* What is within n layers is in one of them.
LEMMA SomeLayer ==
  ASSUME NEW c \in TraceColumns, NEW n \in 0..TraceDepth,
         NEW x, x \in WithinLevels(Backward(Loaded), {c}, n)
  PROVE  \E k \in 0..n : x \in Layers(c)[k]
<1> DEFINE W(m) == WithinLevels(Backward(Loaded), {c}, m)
           N == {m \in Nat : x \in W(m)}
<1>1. \A k \in 0..TraceDepth : Layers(c)[k] = IF k = 0 THEN {c} ELSE W(k) \ W(k - 1)
  BY DEF Layers
<1>2. W(0) = {c}
  BY LevelsAre
<1>3. n \in Nat /\ n \in N
  BY TraceAssumption
<1>4. PICK m \in N : \A k \in N : m <= k
  <2>1. N \in SUBSET Nat /\ N # {}
    BY <1>3
  <2> HIDE DEF N
  <2> QED BY <2>1, SmallestOf
<1> HIDE DEF W
<1>5. m \in Nat /\ x \in W(m) /\ m \in 0..n /\ m \in 0..TraceDepth
  BY <1>3, <1>4, TraceAssumption
<1>6. m # 0 => m - 1 \in Nat /\ x \notin W(m - 1)
  BY <1>4, <1>5
<1> QED BY <1>1, <1>2, <1>5, <1>6

\* The trace that a panel shows is that of the edges that are stored.
PanelOf(c) ==
    /\ panel.layer = Layers(c)
    /\ panel.edges = {p \in Loaded : p[2] \in UNION {Layers(c)[n] : n \in 0..TraceDepth - 1}}

TraceSound ==
    /\ TraceTypeOK
    /\ DOMAIN deduced = Mine
    /\ panel.lineage /\ (\E p \in Loaded : p[2] = panel.for) => PanelOf(panel.for)

\* No column is traced at first.
LEMMA TraceStarts == TraceInit => TraceSound
<1> SUFFICES ASSUME TraceInit PROVE TraceSound
  OBVIOUS
<1>1. DOMAIN deduced = Mine /\ \A c \in Mine : deduced[c] = NoDeduction
  BY DEF TraceInit
<1>2. panel.lineage = FALSE /\ panel.isSource = FALSE /\ panel.edges = {}
  BY DEF TraceInit, NoPanel
<1>3. rows = {} /\ produced \in Written /\ skipped = FALSE
  BY DEF TraceInit, Written
<1> QED BY <1>1, <1>2, <1>3 DEF TraceSound, TraceTypeOK

\* A column is traced.
LEMMA PanelTraced ==
  ASSUME TraceSound, NEW c \in Mine, Trace(c)
  PROVE  TraceSound'
<1>1. c \in TraceColumns
  BY DEF Mine
<1>2. UNCHANGED <<rows, deduced, produced, skipped>>
  BY DEF Trace
<1>3. Loaded' = Loaded
  BY <1>2 DEF Loaded, Newer, Touches
<1>4. Loaded \in SUBSET (TraceColumns \X TraceColumns)
  BY StoredEdges DEF TraceSound
<1> DEFINE Shown(x) == {p \in Loaded : p[2] \in UNION {Layers(x)[n] : n \in 0..TraceDepth - 1}}
<1>5. ASSUME panel'.lineage \in BOOLEAN, panel'.isSource \in BOOLEAN,
             panel'.edges \subseteq TraceColumns \X TraceColumns,
             panel'.lineage /\ (\E p \in Loaded : p[2] = panel'.for) =>
               /\ panel'.layer = Layers(panel'.for)
               /\ panel'.edges = Shown(panel'.for)
      PROVE  TraceSound'
  <2>1. TraceTypeOK'
    BY <1>2, <1>5 DEF TraceSound, TraceTypeOK
  <2>2. \A x : Layers(x)' = Layers(x)
    BY <1>3 DEF Layers
  <2> QED BY <1>2, <1>3, <1>5, <2>1, <2>2 DEF TraceSound, PanelOf
<1>6. CASE \E p \in Loaded : p[2] = c
  <2> DEFINE shown == UNION {Layers(c)[n] : n \in 0..TraceDepth - 1}
             L == Layers(c)
             G == {p \in Loaded : p[2] \in shown}
  <2>1. panel' = [NoPanel EXCEPT !.for = c, !.lineage = TRUE, !.layer = L, !.edges = G]
    BY <1>6 DEF Trace
  <2>2. G \subseteq TraceColumns \X TraceColumns
    BY <1>4
  <2>3. L = Layers(c) /\ G = Shown(c)
    OBVIOUS
  <2> HIDE DEF L, G, shown
  <2>4. panel'.for = c /\ panel'.lineage = TRUE /\ panel'.isSource = FALSE /\ panel'.layer = L /\ panel'.edges = G
    BY <2>1 DEF NoPanel
  <2> HIDE DEF Shown
  <2> QED BY <1>5, <2>2, <2>3, <2>4
<1>7. CASE ~ \E p \in Loaded : p[2] = c
  <2>1. PICK known \in BOOLEAN : panel' = FallBack(c, known)
    BY <1>7 DEF Trace
  <2> DEFINE others == deduced[c] \ {c}
             one == [n \in 0..TraceDepth |-> IF n = 0 THEN {c} ELSE IF n = 1 THEN others ELSE {}]
             none == [n \in {0} |-> {c}]
             fed == \E p \in Loaded : p[1] = c
  <2>2. CASE known /\ deduced[c] # NoDeduction
    <3>1. others \subseteq TraceColumns
      BY <2>2 DEF TraceSound, TraceTypeOK, Mine
    <3>2. panel' = [NoPanel EXCEPT !.for = c, !.lineage = (others # {}), !.isSource = (others = {}),
                       !.layer = one, !.edges = others \X {c}]
      BY <2>1, <2>2 DEF FallBack
    <3> HIDE DEF others, one
    <3>3. /\ panel'.for = c /\ panel'.lineage = (others # {}) /\ panel'.isSource = (others = {})
          /\ panel'.edges = others \X {c}
      BY <3>2 DEF NoPanel
    <3>4. panel'.edges \subseteq TraceColumns \X TraceColumns
      BY <1>1, <3>1, <3>3
    <3> QED BY <1>5, <1>7, <3>3, <3>4
  <2>3. CASE ~(known /\ deduced[c] # NoDeduction)
    <3>1. panel' = [NoPanel EXCEPT !.for = c, !.isSource = fed, !.layer = none]
      BY <2>1, <2>3 DEF FallBack
    <3>2. fed \in BOOLEAN
      OBVIOUS
    <3> HIDE DEF fed, none
    <3>3. panel'.for = c /\ panel'.lineage = FALSE /\ panel'.isSource = fed /\ panel'.edges = {}
      BY <3>1 DEF NoPanel
    <3> QED BY <1>5, <3>2, <3>3
  <2> QED BY <2>2, <2>3
<1> QED BY <1>6, <1>7

\* Every step keeps the invariant.
LEMMA TraceMoves == TraceSound /\ [TraceNext]_traceVars => TraceSound'
<1> SUFFICES ASSUME TraceSound, [TraceNext]_traceVars PROVE TraceSound'
  OBVIOUS
<1>1. ASSUME NEW stored \in SUBSET RowPool, NEW known, NEW when \in Written, NEW denied \in BOOLEAN,
             DOMAIN known = Mine, \A c \in Mine : known[c] = NoDeduction \/ known[c] \subseteq Mine,
             History(stored, known, when, denied)
      PROVE  TraceSound'
  <2>1. panel'.lineage = FALSE /\ panel'.isSource = FALSE /\ panel'.edges = {}
    BY <1>1 DEF History, NoPanel
  <2>2. rows' = stored /\ deduced' = known /\ produced' = when /\ skipped' = denied
    BY <1>1 DEF History
  <2> QED BY <1>1, <2>1, <2>2 DEF TraceSound, TraceTypeOK
<1>2. CASE panel = NoPanel /\ (\/ \E stored \in SUBSET RowPool, known \in Deductions :
                                     History(stored, known, "recently", FALSE)
                               \/ \E when \in Written, denied \in BOOLEAN :
                                     History({}, [c \in Mine |-> NoDeduction], when, denied))
  <2>1. ASSUME NEW stored \in SUBSET RowPool, NEW known \in Deductions,
               History(stored, known, "recently", FALSE)
        PROVE  TraceSound'
    <3>1. "recently" \in Written /\ FALSE \in BOOLEAN
      BY DEF Written
    <3> QED BY <1>1, <2>1, <3>1, DeductionsOfTheTable
  <2>2. ASSUME NEW when \in Written, NEW denied \in BOOLEAN,
               History({}, [c \in Mine |-> NoDeduction], when, denied)
        PROVE  TraceSound'
    <3> DEFINE known == [c \in Mine |-> NoDeduction]
    <3>1. DOMAIN known = Mine /\ \A c \in Mine : known[c] = NoDeduction \/ known[c] \subseteq Mine
      OBVIOUS
    <3>2. History({}, known, when, denied)
      BY <2>2
    <3> HIDE DEF known
    <3>3. {} \in SUBSET RowPool
      OBVIOUS
    <3> QED BY <1>1, <3>1, <3>2, <3>3
  <2> QED BY <1>2, <2>1, <2>2
<1>3. ASSUME NEW c \in Mine, Trace(c) PROVE TraceSound'
  BY <1>3, PanelTraced
<1>4. CASE Freshness \/ Diagnose
  <2>1. UNCHANGED <<rows, deduced, produced, skipped>>
    BY <1>4 DEF Freshness, Diagnose
  <2>2. panel'.lineage = FALSE /\ panel'.isSource = FALSE /\ panel'.edges = {}
    <3>1. CASE Freshness
      <4>1. PICK read \in BOOLEAN :
              panel' = [NoPanel EXCEPT !.for = "freshness",
                           !.reason = IF ~read THEN "unknown"
                                      ELSE IF \E r \in rows : Touches(r) THEN "built" ELSE "never"]
        BY <3>1 DEF Freshness
      <4> QED BY <4>1 DEF NoPanel
    <3>2. CASE Diagnose
      <4> DEFINE why == CASE produced = "unreadable" -> "unknown"
                          [] produced = "never" -> "no_producer"
                          [] produced = "before" -> "producer_outside_window"
                          [] produced = "recently" /\ skipped -> "unreadable_source"
                          [] OTHER -> "generate"
      <4>1. panel' = [NoPanel EXCEPT !.for = "diagnosis", !.reason = why]
        BY <3>2 DEF Diagnose
      <4> HIDE DEF why
      <4> QED BY <4>1 DEF NoPanel
    <3> QED BY <1>4, <3>1, <3>2
  <2> QED BY <2>1, <2>2 DEF TraceSound, TraceTypeOK
<1>5. CASE UNCHANGED traceVars
  <2>1. UNCHANGED <<rows, deduced, produced, skipped, panel>>
    BY <1>5 DEF traceVars
  <2>2. Loaded' = Loaded
    BY <2>1 DEF Loaded, Newer, Touches
  <2>3. \A x : Layers(x)' = Layers(x)
    BY <2>2 DEF Layers
  <2> QED BY <2>1, <2>2, <2>3 DEF TraceSound, TraceTypeOK, PanelOf
<1> QED BY <1>2, <1>3, <1>4, <1>5 DEF TraceNext

\* So it holds of every behaviour.
LEMMA TraceStaysSound == TraceSpec => []TraceSound
BY TraceStarts, TraceMoves, PTL DEF TraceSpec

\* The edge table holds rows of builds, and the panel edges between columns.
THEOREM TraceTypeCorrect == TraceSpec => []TraceTypeOK
<1>1. TraceSound => TraceTypeOK
  BY DEF TraceSound
<1> QED BY <1>1, TraceStaysSound, PTL

\* backtrack_transform_lineage: a column is shown in the layer of its shortest way to the
\* target, and every edge joins a layer to one at most a layer above.
THEOREM TraceLayersHold == TraceSpec => []TraceLayersRight
<1>1. TraceSound => TraceLayersRight
  <2> SUFFICES ASSUME TraceSound, panel.for \in Mine, panel.lineage, \E p \in Loaded : p[2] = panel.for
               PROVE  /\ \A n \in 0..TraceDepth : panel.layer[n] =
                           {x \in TraceColumns : /\ UpstreamIn(Loaded, x, panel.for, n)
                                                 /\ \A k \in 0..n - 1 : ~UpstreamIn(Loaded, x, panel.for, k)}
                      /\ \A p \in panel.edges : p[1] # p[2] /\
                           \E n \in 0..TraceDepth - 1 : p[2] \in panel.layer[n] /\
                              \E k \in 0..n + 1 : p[1] \in panel.layer[k]
    BY DEF TraceLayersRight
  <2> DEFINE c == panel.for
  <2>1. /\ c \in TraceColumns /\ panel.layer = Layers(c)
        /\ panel.edges = {p \in Loaded : p[2] \in UNION {Layers(c)[n] : n \in 0..TraceDepth - 1}}
    BY DEF TraceSound, PanelOf, Mine
  <2> HIDE DEF c
  <2>2. \A n \in 0..TraceDepth : panel.layer[n] =
           {x \in TraceColumns : /\ UpstreamIn(Loaded, x, c, n)
                                 /\ \A k \in 0..n - 1 : ~UpstreamIn(Loaded, x, c, k)}
    BY <2>1, LayerHolds DEF TraceSound
  <2>3. ASSUME NEW p \in panel.edges
        PROVE  p[1] # p[2] /\ \E n \in 0..TraceDepth - 1 : p[2] \in panel.layer[n] /\
                                 \E k \in 0..n + 1 : p[1] \in panel.layer[k]
    <3>1. PICK n \in 0..TraceDepth - 1 : p \in Loaded /\ p[2] \in Layers(c)[n]
      BY <2>1
    <3>2. p[1] # p[2] /\ p = <<p[1], p[2]>>
      BY <3>1, StoredEdges DEF TraceSound
    <3>3. n \in Nat /\ n + 1 \in 0..TraceDepth /\ n \in 0..TraceDepth
      BY TraceAssumption
    <3>4. p[2] \in WithinLevels(Backward(Loaded), {c}, n)
      <4>1. Layers(c)[n] \subseteq WithinLevels(Backward(Loaded), {c}, n)
        BY <3>3, LevelsAre DEF Layers
      <4> QED BY <3>1, <4>1
    <3>5. p[1] \in NextNodes(Backward(Loaded), WithinLevels(Backward(Loaded), {c}, n))
      <4>1. <<p[2], p[1]>> \in Backward(Loaded)
        BY <3>1 DEF Backward
      <4>2. <<p[2], p[1]>>[1] = p[2] /\ <<p[2], p[1]>>[2] = p[1]
        OBVIOUS
      <4> QED BY <3>4, <4>1, <4>2 DEF NextNodes
    <3>6. p[1] \in WithinLevels(Backward(Loaded), {c}, n + 1)
      <4> DEFINE E == Backward(Loaded)
      <4> HIDE DEF E
      <4>1. WithinLevels(E, {c}, n + 1) = WithinLevels(E, {c}, n) \union NextNodes(E, WithinLevels(E, {c}, n))
        BY <3>3, LevelsAre
      <4> QED BY <3>5, <4>1 DEF E
    <3>7. \E k \in 0..n + 1 : p[1] \in Layers(c)[k]
      BY <2>1, <3>3, <3>6, SomeLayer
    <3> QED BY <2>1, <3>1, <3>2, <3>7
  <2> QED BY <2>2, <2>3 DEF c
<1> QED BY <1>1, TraceStaysSound, PTL

-----------------------------------------------------------------------------
(***************************************************************************)
(* Distances.                                                              *)
(***************************************************************************)
\* A way that cannot be shortened meets no node twice, ...
LEMMA ShortestIsSimple ==
  ASSUME NEW V, NEW E, NEW n \in Nat, NEW way \in [0..n -> V],
         \A i \in 0..n - 1 : <<way[i], way[i + 1]>> \in E,
         \A k \in 0..n - 1 : ~WayIn(V, E, way[0], way[n], k),
         NEW i \in 0..n, NEW j \in 0..n, i < j
  PROVE  way[i] # way[j]
<1> SUFFICES ASSUME way[i] = way[j] PROVE FALSE
  OBVIOUS
<1> DEFINE d == j - i
           m == n - d
           cut == [k \in 0..m |-> IF k <= i THEN way[k] ELSE way[k + d]]
<1>1. d \in Nat /\ d # 0 /\ m \in 0..n - 1 /\ m \in Nat /\ i <= m /\ i + d = j /\ m + d = n
  OBVIOUS
<1> HIDE DEF d, m
<1>2. \A k \in 0..m : (k <= i => k \in 0..n) /\ (~(k <= i) => k + d \in 0..n)
  BY <1>1
<1>3. cut \in [0..m -> V]
  BY <1>2
<1>4. \A k \in 0..m : cut[k] = IF k <= i THEN way[k] ELSE way[k + d]
  OBVIOUS
<1> HIDE DEF cut
<1>5. cut[0] = way[0]
  BY <1>1, <1>4
<1>6. cut[m] = way[n]
  <2>1. CASE m = i
    <3>1. cut[m] = way[i] /\ j = n
      BY <1>1, <1>4, <2>1
    <3> QED BY <3>1
  <2>2. CASE m # i
    <3>1. m \in 0..m /\ ~(m <= i)
      BY <1>1, <2>2
    <3> QED BY <1>1, <1>4, <3>1
  <2> QED BY <2>1, <2>2
<1>7. \A k \in 0..m - 1 : <<cut[k], cut[k + 1]>> \in E
  <2> SUFFICES ASSUME NEW k \in 0..m - 1 PROVE <<cut[k], cut[k + 1]>> \in E
    OBVIOUS
  <2>1. k \in 0..m /\ k + 1 \in 0..m
    BY <1>1
  <2>2. CASE k < i
    <3>1. cut[k] = way[k] /\ cut[k + 1] = way[k + 1] /\ k \in 0..n - 1
      BY <1>1, <1>4, <2>1, <2>2
    <3> QED BY <3>1
  <2>3. CASE k = i
    <3>1. cut[k] = way[j] /\ cut[k + 1] = way[j + 1] /\ j \in 0..n - 1
      <4>1. (k + 1) + d = j + 1 /\ k <= i /\ ~(k + 1 <= i) /\ j \in 0..n - 1
        BY <1>1, <2>3
      <4> QED BY <1>4, <2>1, <2>3, <4>1
    <3> QED BY <3>1
  <2>4. CASE i < k
    <3>1. ~(k <= i) /\ ~(k + 1 <= i) /\ (k + 1) + d = (k + d) + 1 /\ k + d \in 0..n - 1
      BY <1>1, <2>4
    <3>2. cut[k] = way[k + d] /\ cut[k + 1] = way[(k + d) + 1]
      BY <1>4, <2>1, <3>1
    <3> QED BY <3>1, <3>2
  <2> QED BY <2>2, <2>3, <2>4
<1>8. WayIn(V, E, way[0], way[n], m)
  BY <1>3, <1>5, <1>6, <1>7 DEF WayIn
<1> QED BY <1>1, <1>8

\* ... so it has fewer edges than there are nodes.
LEMMA SimpleIsShort ==
  ASSUME NEW V, IsFiniteSet(V), NEW n \in Nat, NEW way \in [0..n -> V],
         \A i, j \in 0..n : i < j => way[i] # way[j]
  PROVE  n + 1 <= Cardinality(V)
<1>1. IsFiniteSet(0..n) /\ Cardinality(0..n) = n + 1
  BY FS_Interval
<1>2. ASSUME Cardinality(V) < n + 1 PROVE FALSE
  <2>1. Cardinality(V) < Cardinality(0..n)
    BY <1>1, <1>2
  <2>2. PICK x, y \in 0..n : x # y /\ way[x] = way[y]
    BY <1>1, <2>1, FS_PigeonHole
  <2> QED BY <2>2
<1>3. Cardinality(V) \in Nat
  BY FS_CardinalityType
<1> QED BY <1>2, <1>3

\* A sequence of columns.
LEMMA SeqIs ==
  ASSUME NEW n \in Nat, NEW r \in [1..n -> Columns]
  PROVE  Len(r) = n /\ DOMAIN r = 1..n /\ r \in Seq(Columns)
<1>1. r \in Seq(Columns)
  OBVIOUS
<1>2. Len(r) \in Nat /\ DOMAIN r = 1..Len(r)
  BY <1>1, LenProperties
<1>3. 1..Len(r) = 1..n
  BY <1>2
<1>4. Len(r) = n
  <2>1. n # 0 => n \in 1..Len(r)
    BY <1>3
  <2>2. Len(r) # 0 => Len(r) \in 1..n
    BY <1>2, <1>3
  <2> QED BY <1>2, <2>1, <2>2
<1> QED BY <1>1, <1>2, <1>4

Way(c, g, n) == WayIn(Columns, g, c, Target, n)

\* A route is a way of one edge less than it has columns, ...
LEMMA RouteIsWay ==
  ASSUME NEW c, NEW g, NEW depth \in Nat, NEW r \in RoutesFrom(c, g, depth)
  PROVE  /\ Len(r) - 1 \in 1..depth /\ Len(r) - 1 \in 1..Cardinality(Columns) - 1
         /\ Way(c, g, Len(r) - 1)
         /\ r \in [1..Len(r) -> Columns] /\ r[1] = c /\ r[Len(r)] = Target
         /\ \A i \in 1..Len(r) - 1 : <<r[i], r[i + 1]>> \in g
         /\ \A i, j \in 1..Len(r) : i # j => r[i] # r[j]
<1>1. /\ r \in Routes /\ r[1] = c /\ Len(r) <= depth + 1
      /\ \A i \in 1..Len(r) - 1 : <<r[i], r[i + 1]>> \in g
  BY DEF RoutesFrom
<1>2. PICK n \in 1..Cardinality(Columns) - 1 : r \in [1..n + 1 -> Columns]
  BY <1>1 DEF Routes
<1>3. n \in Nat /\ n + 1 \in Nat /\ n # 0
  BY ColumnGraphAssumption, FS_CardinalityType
<1>4. Len(r) = n + 1 /\ DOMAIN r = 1..n + 1
  BY <1>2, <1>3, SeqIs
<1>5. r[n + 1] = Target /\ \A i, j \in 1..n + 1 : i # j => r[i] # r[j]
  BY <1>1, <1>4 DEF Routes
<1> DEFINE way == [i \in 0..n |-> r[i + 1]]
<1>6. \A i \in 0..n : i + 1 \in 1..n + 1
  BY <1>3
<1>7. way \in [0..n -> Columns] /\ \A i \in 0..n : way[i] = r[i + 1]
  BY <1>2, <1>6
<1> HIDE DEF way
<1>8. way[0] = c /\ way[n] = Target
  <2>1. 0 \in 0..n /\ n \in 0..n /\ 0 + 1 = 1
    BY <1>3
  <2> QED BY <1>1, <1>5, <1>7, <2>1
<1>9. \A i \in 0..n - 1 : <<way[i], way[i + 1]>> \in g
  <2> SUFFICES ASSUME NEW i \in 0..n - 1 PROVE <<way[i], way[i + 1]>> \in g
    OBVIOUS
  <2>1. i \in 0..n /\ i + 1 \in 0..n /\ i + 1 \in 1..n
    BY <1>3
  <2> QED BY <1>1, <1>3, <1>4, <1>7, <2>1
<1>10. Way(c, g, n)
  BY <1>7, <1>8, <1>9 DEF Way, WayIn
<1> QED BY <1>1, <1>2, <1>3, <1>4, <1>5, <1>10

\* ... and a way that cannot be shortened is a route.
LEMMA ShortestIsRoute ==
  ASSUME NEW c \in Columns, c # Target, NEW g, NEW depth \in Nat, NEW n \in Nat, n <= depth,
         Way(c, g, n), \A k \in 0..n - 1 : ~Way(c, g, k)
  PROVE  /\ n \in 1..Cardinality(Columns) - 1
         /\ \E r \in RoutesFrom(c, g, depth) : Len(r) - 1 = n
<1>1. PICK way \in [0..n -> Columns] : /\ way[0] = c /\ way[n] = Target
                                       /\ \A i \in 0..n - 1 : <<way[i], way[i + 1]>> \in g
  BY DEF Way, WayIn
<1>2. n \in Nat /\ n # 0 /\ Target \in Columns /\ IsFiniteSet(Columns) /\ Cardinality(Columns) \in Nat
  BY <1>1, ColumnGraphAssumption, FS_CardinalityType
<1>3. \A i, j \in 0..n : i < j => way[i] # way[j]
  <2> SUFFICES ASSUME NEW i \in 0..n, NEW j \in 0..n, i < j PROVE way[i] # way[j]
    OBVIOUS
  <2>1. \A k \in 0..n - 1 : ~WayIn(Columns, g, way[0], way[n], k)
    BY <1>1 DEF Way
  <2> QED BY <1>1, <1>2, <2>1, ShortestIsSimple
<1>4. n + 1 <= Cardinality(Columns)
  BY <1>2, <1>3, SimpleIsShort
<1> DEFINE r == [i \in 1..n + 1 |-> way[i - 1]]
<1>5. \A i \in 1..n + 1 : i - 1 \in 0..n
  BY <1>2
<1>6. r \in [1..n + 1 -> Columns] /\ \A i \in 1..n + 1 : r[i] = way[i - 1]
  BY <1>5
<1> HIDE DEF r
<1>7. Len(r) = n + 1 /\ DOMAIN r = 1..n + 1
  <2>1. n + 1 \in Nat
    BY <1>2
  <2> QED BY <1>6, <2>1, SeqIs
<1>8. r[1] = c /\ r[n + 1] = Target
  <2>1. 1 \in 1..n + 1 /\ n + 1 \in 1..n + 1 /\ 1 - 1 = 0 /\ (n + 1) - 1 = n
    BY <1>2
  <2> QED BY <1>1, <1>6, <2>1
<1>9. \A i, j \in 1..n + 1 : i # j => r[i] # r[j]
  <2> SUFFICES ASSUME NEW i \in 1..n + 1, NEW j \in 1..n + 1, i # j PROVE r[i] # r[j]
    OBVIOUS
  <2>1. i - 1 \in 0..n /\ j - 1 \in 0..n /\ (i - 1 < j - 1 \/ j - 1 < i - 1)
    BY <1>2
  <2> QED BY <1>3, <1>6, <2>1
<1>10. \A i \in 1..n : <<r[i], r[i + 1]>> \in g
  <2> SUFFICES ASSUME NEW i \in 1..n PROVE <<r[i], r[i + 1]>> \in g
    OBVIOUS
  <2> DEFINE k == i - 1
  <2>1. i \in 1..n + 1 /\ i + 1 \in 1..n + 1 /\ k \in 0..n - 1 /\ (i + 1) - 1 = k + 1
    BY <1>2
  <2>2. r[i] = way[k] /\ r[i + 1] = way[k + 1]
    BY <1>6, <2>1
  <2> HIDE DEF k
  <2> QED BY <1>1, <2>1, <2>2
<1>11. n \in 1..Cardinality(Columns) - 1
  BY <1>2, <1>4
<1>12. r \in Routes
  BY <1>6, <1>7, <1>8, <1>9, <1>11 DEF Routes
<1>13. r \in RoutesFrom(c, g, depth)
  <2>1. Len(r) <= depth + 1 /\ Len(r) - 1 = n
    BY <1>2, <1>7
  <2> QED BY <1>8, <1>10, <1>12, <2>1 DEF RoutesFrom
<1>14. Len(r) - 1 = n
  BY <1>2, <1>7
<1> QED BY <1>11, <1>13, <1>14

\* The distance to the target: the length of a way that cannot be shortened, ...
LEMMA DistanceIs ==
  ASSUME NEW c \in Columns, NEW g, NEW depth \in Nat, NEW n \in 0..depth,
         Way(c, g, n), \A k \in 0..n - 1 : ~Way(c, g, k)
  PROVE  Distance(c, g, depth) = n /\ n < NoPath
<1>1. Target \in Columns /\ Cardinality(Columns) \in Nat
  BY ColumnGraphAssumption, FS_CardinalityType
<1>2. CASE c = Target
  <2>1. n = 0
    <3>1. Way(c, g, 0)
      BY <1>1, <1>2, NoWay DEF Way
    <3> QED BY <3>1
  <2> QED BY <1>1, <1>2, <2>1 DEF Distance, NoPath
<1>3. CASE c # Target
  <2> DEFINE L == {Len(r) - 1 : r \in RoutesFrom(c, g, depth)}
  <2>1. n \in 1..Cardinality(Columns) - 1 /\ n \in L
    <3>1. /\ n \in 1..Cardinality(Columns) - 1
          /\ \E r \in RoutesFrom(c, g, depth) : Len(r) - 1 = n
      <4>1. n \in Nat /\ n <= depth
        OBVIOUS
      <4>2. ~(\E k \in 0..n - 1 : Way(c, g, k))
        OBVIOUS
      <4> HIDE DEF L
      <4>3. n \in 1..Cardinality(Columns) - 1
        BY <1>3, <4>1, <4>2, ShortestIsRoute
      <4>4. \E r \in RoutesFrom(c, g, depth) : Len(r) - 1 = n
        BY <1>3, <4>1, <4>2, ShortestIsRoute
      <4> QED BY <4>3, <4>4
    <3> QED BY <3>1, Zenon
  <2>2. \A m \in L : m \in Nat /\ n <= m
    <3> SUFFICES ASSUME NEW r \in RoutesFrom(c, g, depth) PROVE Len(r) - 1 \in Nat /\ n <= Len(r) - 1
      OBVIOUS
    <3>1. Len(r) - 1 \in 1..depth /\ Way(c, g, Len(r) - 1)
      BY RouteIsWay
    <3> QED BY <3>1
  <2> HIDE DEF L
  <2>3. Shortest(L) = CHOOSE k \in L : \A m \in L : k <= m
    BY <2>1 DEF Shortest
  <2>4. \A k \in L : (\A m \in L : k <= m) => k = n
    BY <2>1, <2>2
  <2>5. Shortest(L) \in L /\ \A m \in L : Shortest(L) <= m
    BY <2>1, <2>2, <2>3, Zenon
  <2>6. Shortest(L) = n
    BY <2>4, <2>5
  <2>7. Distance(c, g, depth) = Shortest(L)
    BY <1>3 DEF Distance, L
  <2> QED BY <1>1, <2>1, <2>6, <2>7 DEF NoPath
<1> QED BY <1>2, <1>3

\* ... if there is one within the depth.
LEMMA NoDistance ==
  ASSUME NEW c \in Columns, NEW g, NEW depth \in Nat, \A n \in 0..depth : ~Way(c, g, n)
  PROVE  Distance(c, g, depth) = NoPath /\ RoutesFrom(c, g, depth) = {}
<1>1. c # Target
  <2>1. 0 \in 0..depth
    OBVIOUS
  <2> QED BY <2>1, NoWay DEF Way
<1>2. RoutesFrom(c, g, depth) = {}
  <2> SUFFICES ASSUME NEW r \in RoutesFrom(c, g, depth) PROVE FALSE
    OBVIOUS
  <2>1. Len(r) - 1 \in 1..depth /\ Way(c, g, Len(r) - 1)
    BY RouteIsWay
  <2> QED BY <2>1
<1>3. {Len(r) - 1 : r \in RoutesFrom(c, g, depth)} = {}
  BY <1>2
<1> QED BY <1>1, <1>2, <1>3 DEF Distance, Shortest

-----------------------------------------------------------------------------
(***************************************************************************)
(* One side of a search by levels.                                         *)
(***************************************************************************)
\* A way is cut in two, and two ways are joined.
LEMMA WaySplit ==
  ASSUME NEW V, NEW E, NEW x \in V, NEW z \in V, NEW n \in Nat, NEW m \in Nat, WayIn(V, E, x, z, m + n)
  PROVE  \E y \in V : WayIn(V, E, x, y, m) /\ WayIn(V, E, y, z, n)
<1>1. PICK way \in [0..m + n -> V] : /\ way[0] = x /\ way[m + n] = z
                                     /\ \A i \in 0..(m + n) - 1 : <<way[i], way[i + 1]>> \in E
  BY DEF WayIn
<1> DEFINE first == [i \in 0..m |-> way[i]]
           last == [i \in 0..n |-> way[m + i]]
<1>2. m \in 0..m + n /\ (\A i \in 0..m : i \in 0..m + n) /\ (\A i \in 0..n : m + i \in 0..m + n)
  OBVIOUS
<1>3. first \in [0..m -> V] /\ last \in [0..n -> V] /\ way[m] \in V
  BY <1>1, <1>2
<1>4. (\A i \in 0..m : first[i] = way[i]) /\ (\A i \in 0..n : last[i] = way[m + i])
  OBVIOUS
<1> HIDE DEF first, last
<1>5. WayIn(V, E, x, way[m], m)
  <2>1. first[0] = x /\ first[m] = way[m]
    BY <1>1, <1>4
  <2>2. \A i \in 0..m - 1 : <<first[i], first[i + 1]>> \in E
    <3> SUFFICES ASSUME NEW i \in 0..m - 1 PROVE <<first[i], first[i + 1]>> \in E
      OBVIOUS
    <3>1. i \in 0..m /\ i + 1 \in 0..m /\ i \in 0..(m + n) - 1
      OBVIOUS
    <3> QED BY <1>1, <1>4, <3>1
  <2> QED BY <1>3, <2>1, <2>2 DEF WayIn
<1>6. WayIn(V, E, way[m], z, n)
  <2>1. last[0] = way[m] /\ last[n] = z
    <3>1. 0 \in 0..n /\ n \in 0..n /\ m + 0 = m
      OBVIOUS
    <3> QED BY <1>1, <1>4, <3>1
  <2>2. \A i \in 0..n - 1 : <<last[i], last[i + 1]>> \in E
    <3> SUFFICES ASSUME NEW i \in 0..n - 1 PROVE <<last[i], last[i + 1]>> \in E
      OBVIOUS
    <3>1. i \in 0..n /\ i + 1 \in 0..n /\ m + i \in 0..(m + n) - 1 /\ m + (i + 1) = (m + i) + 1
      OBVIOUS
    <3>2. last[i] = way[m + i] /\ last[i + 1] = way[(m + i) + 1]
      BY <1>4, <3>1
    <3> QED BY <1>1, <3>1, <3>2
  <2> QED BY <1>3, <2>1, <2>2 DEF WayIn
<1> QED BY <1>3, <1>5, <1>6

\* Two ways that meet are one.
LEMMA WayJoin ==
  ASSUME NEW V, NEW E, NEW x, NEW y, NEW z, NEW n \in Nat, NEW m \in Nat,
         WayIn(V, E, x, y, m), WayIn(V, E, y, z, n)
  PROVE  WayIn(V, E, x, z, m + n)
<1>1. PICK first \in [0..m -> V] : /\ first[0] = x /\ first[m] = y
                                   /\ \A i \in 0..m - 1 : <<first[i], first[i + 1]>> \in E
  BY DEF WayIn
<1>2. PICK last \in [0..n -> V] : /\ last[0] = y /\ last[n] = z
                                  /\ \A i \in 0..n - 1 : <<last[i], last[i + 1]>> \in E
  BY DEF WayIn
<1> DEFINE way == [i \in 0..m + n |-> IF i <= m THEN first[i] ELSE last[i - m]]
<1>3. \A i \in 0..m + n : (i <= m => i \in 0..m) /\ (~(i <= m) => i - m \in 0..n)
  OBVIOUS
<1>4. way \in [0..m + n -> V]
  BY <1>1, <1>2, <1>3
<1>5. \A i \in 0..m + n : way[i] = IF i <= m THEN first[i] ELSE last[i - m]
  OBVIOUS
<1> HIDE DEF way
<1>6. way[0] = x
  BY <1>1, <1>5
<1>7. way[m + n] = z
  <2>1. CASE n = 0
    <3>1. m + n = m /\ m \in 0..m + n
      BY <2>1
    <3> QED BY <1>1, <1>2, <1>5, <2>1, <3>1
  <2>2. CASE n # 0
    <3>1. ~(m + n <= m) /\ m + n \in 0..m + n /\ (m + n) - m = n
      BY <2>2
    <3> QED BY <1>2, <1>5, <3>1
  <2> QED BY <2>1, <2>2
<1>8. \A i \in 0..(m + n) - 1 : <<way[i], way[i + 1]>> \in E
  <2> SUFFICES ASSUME NEW i \in 0..(m + n) - 1 PROVE <<way[i], way[i + 1]>> \in E
    OBVIOUS
  <2>1. i \in 0..m + n /\ i + 1 \in 0..m + n
    OBVIOUS
  <2>2. CASE i < m
    <3>1. way[i] = first[i] /\ way[i + 1] = first[i + 1] /\ i \in 0..m - 1
      BY <1>5, <2>1, <2>2
    <3> QED BY <1>1, <3>1
  <2>3. CASE m <= i
    <3> DEFINE k == i - m
    <3>1. k \in 0..n - 1 /\ (i + 1) - m = k + 1 /\ ~(i + 1 <= m)
      BY <2>1, <2>3
    <3>2. way[i + 1] = last[k + 1]
      BY <1>5, <2>1, <3>1
    <3>3. way[i] = last[k]
      <4>1. CASE i = m
        BY <1>1, <1>2, <1>5, <2>1, <4>1
      <4>2. CASE i # m
        <5>1. ~(i <= m)
          BY <2>3, <4>2
        <5> QED BY <1>5, <2>1, <5>1
      <4> QED BY <4>1, <4>2
    <3> HIDE DEF k
    <3> QED BY <1>2, <3>1, <3>2, <3>3
  <2> QED BY <2>2, <2>3
<1> QED BY <1>4, <1>6, <1>7, <1>8 DEF WayIn

\* What a side knows after n levels from a along E: the levels R of the columns it has
\* seen, and the columns F of the last of them.
SideIs(E, a, R, F, n) ==
    /\ n \in 0..Cardinality(Columns) /\ R \in [Columns -> 0..Unreached]
    /\ \A c \in Columns : R[c] # Unreached <=> c \in WithinLevels(E, {a}, n)
    /\ \A c \in Columns : R[c] # Unreached =>
          R[c] \in 0..n /\ c \in WithinLevels(E, {a}, R[c]) /\ \A k \in 0..R[c] - 1 : c \notin WithinLevels(E, {a}, k)
    /\ F = {c \in Columns : R[c] = n}

\* A column that is no nearer than n is less than the number of columns away.
LEMMA FarIsNear ==
  ASSUME NEW E \in SUBSET (Columns \X Columns), NEW a \in Columns, NEW n \in Nat,
         NEW x \in WithinLevels(E, {a}, n), \A k \in 0..n - 1 : x \notin WithinLevels(E, {a}, k)
  PROVE  n < Cardinality(Columns) /\ WayIn(Columns, E, a, x, n)
         /\ \A k \in 0..n - 1 : ~WayIn(Columns, E, a, x, k)
<1>1. x \in Columns /\ \E k \in 0..n : WayIn(Columns, E, a, x, k)
  <2>1. WithinLevels(E, {a}, n) \subseteq Columns
    BY LevelsAreWays
  <2>2. \A y \in Columns : y \in WithinLevels(E, {a}, n) <=> \E k \in 0..n : WayIn(Columns, E, a, y, k)
    BY LevelsAreWays
  <2>3. x \in Columns
    BY <2>1
  <2> QED BY <2>2, <2>3
<1>2. ASSUME NEW k \in 0..n - 1, WayIn(Columns, E, a, x, k) PROVE FALSE
  <2>1. k \in Nat /\ k \in 0..k
    OBVIOUS
  <2>2. x \in WithinLevels(E, {a}, k)
    BY <1>1, <1>2, <2>1, LevelsAreWays
  <2> QED BY <2>2
<1>3. WayIn(Columns, E, a, x, n)
  <2>1. \A k \in 0..n : k = n \/ k \in 0..n - 1
    OBVIOUS
  <2> QED BY <1>1, <1>2, <2>1
<1>4. PICK way \in [0..n -> Columns] : /\ way[0] = a /\ way[n] = x
                                       /\ \A i \in 0..n - 1 : <<way[i], way[i + 1]>> \in E
  BY <1>3 DEF WayIn
<1>5. \A i, j \in 0..n : i < j => way[i] # way[j]
  <2> SUFFICES ASSUME NEW i \in 0..n, NEW j \in 0..n, i < j PROVE way[i] # way[j]
    OBVIOUS
  <2>1. \A k \in 0..n - 1 : ~WayIn(Columns, E, way[0], way[n], k)
    BY <1>2, <1>4
  <2> QED BY <1>4, <2>1, ShortestIsSimple
<1>6. n + 1 <= Cardinality(Columns)
  BY <1>5, SimpleIsShort, ColumnGraphAssumption
<1>7. Cardinality(Columns) \in Nat
  BY ColumnGraphAssumption, FS_CardinalityType
<1> QED BY <1>2, <1>3, <1>6, <1>7

\* The number that stands for never reached is out of reach.
LEMMA UnreachedIs == Unreached = NoPath /\ Unreached \in Nat /\ Cardinality(Columns) \in Nat
                     /\ Cardinality(Columns) < Unreached
BY ColumnGraphAssumption, FS_CardinalityType DEF Unreached, NoPath

\* A side knows its start at first.
LEMMA SideStarts ==
  ASSUME NEW E \in SUBSET (Columns \X Columns), NEW a \in Columns, NEW R,
         R = [c \in Columns |-> IF c = a THEN 0 ELSE Unreached]
  PROVE  SideIs(E, a, R, {a}, 0)
<1>1. WithinLevels(E, {a}, 0) = {a}
  BY LevelsAre
<1>2. Unreached \in Nat /\ Cardinality(Columns) \in Nat /\ 0 # Unreached
  BY UnreachedIs
<1>3. R \in [Columns -> 0..Unreached] /\ \A c \in Columns : R[c] = IF c = a THEN 0 ELSE Unreached
  BY <1>2
<1>4. \A c \in Columns : R[c] # Unreached <=> c \in WithinLevels(E, {a}, 0)
  BY <1>1, <1>2, <1>3
<1>5. \A c \in Columns : R[c] # Unreached => R[c] = 0 /\ c \in WithinLevels(E, {a}, 0)
  BY <1>1, <1>2, <1>3
<1>6. {a} = {c \in Columns : R[c] = 0}
  BY <1>2, <1>3
<1>7. 0 \in 0..Cardinality(Columns) /\ 0 \in 0..0 /\ 0..0 - 1 = {}
  BY <1>2
<1> QED BY <1>3, <1>4, <1>5, <1>6, <1>7 DEF SideIs

\* A side that has a last level knows what is one edge farther.
LEMMA SideGoesOn ==
  ASSUME NEW E \in SUBSET (Columns \X Columns), NEW a \in Columns, NEW R, NEW F, NEW n,
         SideIs(E, a, R, F, n), F # {}, NEW N,
         N = {d \in Columns : R[d] = Unreached /\ \E c \in F : <<c, d>> \in E}, NEW Q,
         Q = [c \in Columns |-> IF c \in N THEN n + 1 ELSE R[c]]
  PROVE  SideIs(E, a, Q, N, n + 1) /\ n < Cardinality(Columns)
<1> DEFINE W(k) == WithinLevels(E, {a}, k)
<1>1. /\ n \in 0..Cardinality(Columns) /\ R \in [Columns -> 0..Unreached] /\ n \in Nat /\ n + 1 \in Nat
      /\ \A c \in Columns : R[c] # Unreached <=> c \in W(n)
      /\ \A c \in Columns : R[c] # Unreached => R[c] \in 0..n /\ c \in W(R[c]) /\ \A k \in 0..R[c] - 1 : c \notin W(k)
      /\ F = {c \in Columns : R[c] = n}
  <2>1. n \in 0..Cardinality(Columns)
    BY DEF SideIs
  <2>2. n \in Nat /\ n + 1 \in Nat
    BY <2>1, UnreachedIs
  <2> QED BY <2>1, <2>2 DEF SideIs
<1>2. Unreached \in Nat /\ Cardinality(Columns) \in Nat /\ Cardinality(Columns) < Unreached
  BY UnreachedIs
<1>3. n < Cardinality(Columns)
  <2>1. PICK x \in F : TRUE
    OBVIOUS
  <2>2. x \in Columns /\ R[x] = n /\ R[x] # Unreached
    BY <1>1, <1>2, <2>1
  <2>3. x \in W(n) /\ \A k \in 0..n - 1 : x \notin W(k)
    BY <1>1, <2>2
  <2> QED BY <1>1, <2>3, FarIsNear
<1>4. n + 1 \in 0..Cardinality(Columns) /\ n + 1 # Unreached /\ n + 1 \in 0..Unreached
  BY <1>1, <1>2, <1>3
<1>5. Q \in [Columns -> 0..Unreached] /\ \A c \in Columns : Q[c] = IF c \in N THEN n + 1 ELSE R[c]
  BY <1>1, <1>4
<1>6. W(n + 1) = W(n) \union NextNodes(E, W(n)) /\ W(n) \subseteq Columns /\ W(n + 1) \subseteq Columns
  <2>1. W(n + 1) = W(n) \union NextNodes(E, W(n))
    <3> DEFINE S == {a}
    <3> HIDE DEF S
    <3>1. WithinLevels(E, S, n + 1) = WithinLevels(E, S, n) \union NextNodes(E, WithinLevels(E, S, n))
      <4>1. n \in Nat
        BY <1>1
      <4> QED BY <4>1, OneLevelMore
    <3> QED BY <3>1 DEF S
  <2>2. \A k \in Nat : W(k) \subseteq Columns
    BY LevelsAreWays
  <2> QED BY <1>1, <2>1, <2>2
<1> HIDE DEF W
<1>7. \A k \in 0..n : W(k) \subseteq W(n)
  BY <1>1, LevelsRise DEF W
<1>8. ASSUME NEW d \in Columns PROVE d \in N <=> d \in W(n + 1) /\ d \notin W(n)
  <2>1. ASSUME d \in N PROVE d \in W(n + 1) /\ d \notin W(n)
    <3>1. PICK c \in F : <<c, d>> \in E
      BY <2>1
    <3>2. c \in Columns /\ c \in W(n)
      BY <1>1, <1>2, <3>1
    <3>3. d \in NextNodes(E, W(n))
      <4>1. <<c, d>>[1] = c /\ <<c, d>>[2] = d
        OBVIOUS
      <4> QED BY <3>1, <3>2, <4>1 DEF NextNodes
    <3> QED BY <1>1, <1>6, <2>1, <3>3
  <2>2. ASSUME d \in W(n + 1), d \notin W(n) PROVE d \in N
    <3>1. R[d] = Unreached
      BY <1>1, <2>2
    <3>2. PICK p \in E : p[1] \in W(n) /\ p[2] = d
      BY <1>6, <2>2 DEF NextNodes
    <3>3. p = <<p[1], d>> /\ p[1] \in Columns
      BY <3>2
    <3>4. R[p[1]] = n
      <4>1. R[p[1]] \in 0..n /\ p[1] \in W(R[p[1]])
        BY <1>1, <3>2, <3>3
      <4> DEFINE k == R[p[1]]
      <4>2. ASSUME k # n PROVE FALSE
        <5>1. k \in Nat /\ k + 1 \in 0..n
          BY <1>1, <4>1, <4>2
        <5> HIDE DEF k
        <5>2. W(k + 1) = W(k) \union NextNodes(E, W(k))
          BY <5>1, LevelsAre DEF W
        <5>3. d \in NextNodes(E, W(k))
          BY <3>2, <4>1 DEF NextNodes, k
        <5>4. d \in W(k + 1)
          BY <5>2, <5>3
        <5> QED BY <1>7, <2>2, <5>1, <5>4
      <4> QED BY <4>2
    <3>5. p[1] \in F /\ <<p[1], d>> \in E
      BY <1>1, <3>2, <3>3, <3>4
    <3> QED BY <3>1, <3>5
  <2> QED BY <2>1, <2>2
<1>9. \A c \in Columns : Q[c] # Unreached <=> c \in W(n + 1)
  BY <1>1, <1>4, <1>5, <1>6, <1>8
<1>10. ASSUME NEW c \in Columns, Q[c] # Unreached
       PROVE  Q[c] \in 0..n + 1 /\ c \in W(Q[c]) /\ \A k \in 0..Q[c] - 1 : c \notin W(k)
  <2>1. CASE c \in N
    <3>1. Q[c] = n + 1 /\ c \in W(n + 1) /\ c \notin W(n)
      BY <1>5, <1>8, <2>1
    <3>2. \A k \in 0..(n + 1) - 1 : k \in 0..n
      BY <1>1
    <3>3. n + 1 \in 0..n + 1
      BY <1>1
    <3> QED BY <1>7, <3>1, <3>2, <3>3
  <2>2. CASE c \notin N
    <3>1. Q[c] = R[c]
      BY <1>5, <2>2
    <3>2. R[c] \in 0..n /\ c \in W(R[c]) /\ \A k \in 0..R[c] - 1 : c \notin W(k)
      BY <1>1, <1>10, <3>1
    <3>3. R[c] \in 0..n + 1
      BY <1>1, <3>2
    <3> QED BY <3>1, <3>2, <3>3
  <2> QED BY <2>1, <2>2
<1>11. N = {c \in Columns : Q[c] = n + 1}
  <2>1. \A c \in Columns : R[c] # n + 1
    BY <1>1, <1>4
  <2> QED BY <1>5, <2>1
<1> QED BY <1>3, <1>4, <1>5, <1>9, <1>10, <1>11 DEF SideIs, W

\* A side whose last level is empty has seen all there is.
LEMMA SideIsDone ==
  ASSUME NEW E \in SUBSET (Columns \X Columns), NEW a \in Columns, NEW R, NEW n,
         SideIs(E, a, R, {}, n), NEW m \in Nat
  PROVE  WithinLevels(E, {a}, m) \subseteq WithinLevels(E, {a}, n)
<1> DEFINE W(k) == WithinLevels(E, {a}, k)
           S == {a}
<1>1. /\ n \in Nat
      /\ \A c \in Columns : R[c] # Unreached <=> c \in W(n)
      /\ \A c \in Columns : R[c] # Unreached => R[c] \in 0..n /\ c \in W(R[c])
      /\ \A c \in Columns : R[c] # n
  <2>1. n \in 0..Cardinality(Columns)
    BY DEF SideIs
  <2>2. n \in Nat
    BY <2>1, UnreachedIs
  <2>3. \A c \in Columns : R[c] # n
    <3>1. {} = {c \in Columns : R[c] = n}
      BY DEF SideIs
    <3> QED BY <3>1
  <2> QED BY <2>2, <2>3 DEF SideIs
<1>2. W(n) \subseteq Columns
  BY <1>1, LevelsAreWays
<1>3. \A k \in 0..n : W(k) \subseteq W(n)
  BY <1>1, LevelsRise
<1>4. {a} \subseteq W(n)
  <2>1. W(0) = {a} /\ 0 \in 0..n
    BY <1>1, LevelsAre
  <2> QED BY <1>3, <2>1
<1> HIDE DEF W
<1>5. NextNodes(E, W(n)) \subseteq W(n)
  <2> SUFFICES ASSUME NEW p \in E, p[1] \in W(n) PROVE p[2] \in W(n)
    BY DEF NextNodes
  <2> DEFINE k == R[p[1]]
  <2>1. k \in 0..n /\ p[1] \in W(k) /\ k # n
    BY <1>1, <1>2
  <2> HIDE DEF k
  <2>2. k \in Nat /\ k + 1 \in 0..n
    BY <1>1, <2>1
  <2>3. W(k + 1) = W(k) \union NextNodes(E, W(k))
    BY <2>2, LevelsAre DEF W
  <2>4. p[2] \in NextNodes(E, W(k))
    BY <2>1 DEF NextNodes
  <2> QED BY <1>3, <2>2, <2>3, <2>4
<1>6. WithinLevels(E, S, m) \subseteq W(n)
  <2> DEFINE X == W(n)
  <2>1. S \subseteq X /\ NextNodes(E, X) \subseteq X
    BY <1>4, <1>5
  <2> HIDE DEF X, S
  <2> QED BY <2>1, LevelsInside DEF X
<1> QED BY <1>6 DEF W

\* What the levels of a side say of ways.
LEMMA SideWays ==
  ASSUME NEW E \in SUBSET (Columns \X Columns), NEW a \in Columns, NEW R, NEW F, NEW n,
         SideIs(E, a, R, F, n), NEW c \in Columns
  PROVE  /\ R[c] # Unreached => /\ R[c] \in 0..n /\ WayIn(Columns, E, a, c, R[c])
                                /\ \A k \in 0..R[c] - 1 : ~WayIn(Columns, E, a, c, k)
         /\ R[c] = Unreached => \A k \in 0..n : ~WayIn(Columns, E, a, c, k)
<1>1. n \in Nat
  <2>1. n \in 0..Cardinality(Columns)
    BY DEF SideIs
  <2> QED BY <2>1, UnreachedIs
<1>2. ASSUME R[c] # Unreached
      PROVE  /\ R[c] \in 0..n /\ WayIn(Columns, E, a, c, R[c])
             /\ \A k \in 0..R[c] - 1 : ~WayIn(Columns, E, a, c, k)
  <2> DEFINE m == R[c]
  <2>1. m \in 0..n /\ c \in WithinLevels(E, {a}, m) /\ \A k \in 0..m - 1 : c \notin WithinLevels(E, {a}, k)
    BY <1>2 DEF SideIs
  <2>2. m \in Nat
    BY <1>1, <2>1
  <2> HIDE DEF m
  <2>3. WayIn(Columns, E, a, c, m) /\ \A k \in 0..m - 1 : ~WayIn(Columns, E, a, c, k)
    BY <2>1, <2>2, FarIsNear
  <2> QED BY <2>1, <2>3 DEF m
<1>3. ASSUME R[c] = Unreached PROVE \A k \in 0..n : ~WayIn(Columns, E, a, c, k)
  <2>1. c \notin WithinLevels(E, {a}, n)
    BY <1>3 DEF SideIs
  <2> QED BY <1>1, <2>1, LevelsAreWays
<1> QED BY <1>2, <1>3

\* The same for the side that walks against the edges.
LEMMA BackWays ==
  ASSUME NEW g \in SUBSET (Columns \X Columns), NEW R, NEW F, NEW n,
         SideIs(Backward(g), Target, R, F, n), NEW c \in Columns
  PROVE  /\ R[c] # Unreached => R[c] \in 0..n /\ Way(c, g, R[c]) /\ \A k \in 0..R[c] - 1 : ~Way(c, g, k)
         /\ R[c] = Unreached => \A k \in 0..n : ~Way(c, g, k)
<1> DEFINE E == Backward(g)
<1>1. E \in SUBSET (Columns \X Columns) /\ Target \in Columns
  BY ColumnGraphAssumption DEF Backward
<1>2. n \in Nat
  <2>1. n \in 0..Cardinality(Columns)
    BY DEF SideIs
  <2> QED BY <2>1, UnreachedIs
<1>3. \A k \in Nat : WayIn(Columns, E, Target, c, k) <=> Way(c, g, k)
  BY <1>1, WayBack DEF Way
<1> HIDE DEF E
<1>4. /\ R[c] # Unreached => /\ R[c] \in 0..n /\ WayIn(Columns, E, Target, c, R[c])
                             /\ \A k \in 0..R[c] - 1 : ~WayIn(Columns, E, Target, c, k)
      /\ R[c] = Unreached => \A k \in 0..n : ~WayIn(Columns, E, Target, c, k)
  <2>1. SideIs(E, Target, R, F, n)
    BY DEF E
  <2> QED BY <1>1, <2>1, SideWays
<1>5. ASSUME R[c] # Unreached
      PROVE  R[c] \in 0..n /\ Way(c, g, R[c]) /\ \A k \in 0..R[c] - 1 : ~Way(c, g, k)
  <2> DEFINE m == R[c]
  <2>1. m \in 0..n /\ WayIn(Columns, E, Target, c, m) /\ \A k \in 0..m - 1 : ~WayIn(Columns, E, Target, c, k)
    BY <1>4, <1>5
  <2> HIDE DEF m
  <2>2. m \in Nat /\ \A k \in 0..m - 1 : k \in Nat
    BY <1>2, <2>1
  <2>3. Way(c, g, m) /\ \A k \in 0..m - 1 : ~Way(c, g, k)
    BY <1>3, <2>1, <2>2
  <2> QED BY <2>1, <2>3 DEF m
<1>6. ASSUME R[c] = Unreached PROVE \A k \in 0..n : ~Way(c, g, k)
  <2>1. \A k \in 0..n : k \in Nat
    BY <1>2
  <2> QED BY <1>3, <1>4, <1>6, <2>1
<1> QED BY <1>5, <1>6

\* Sides that have not met have nothing between them as far as they went.
LEMMA NoneBetween ==
  ASSUME NEW g \in SUBSET (Columns \X Columns), NEW R, NEW F, NEW m, NEW Q, NEW G, NEW n,
         SideIs(g, Source, R, F, m), SideIs(Backward(g), Target, Q, G, n),
         \A c \in Columns : R[c] = Unreached \/ Q[c] = Unreached
  PROVE  \A k \in 0..m + n : ~Way(Source, g, k)
<1>1. m \in Nat /\ n \in Nat
  <2>1. m \in 0..Cardinality(Columns) /\ n \in 0..Cardinality(Columns)
    BY DEF SideIs
  <2> QED BY <2>1, UnreachedIs
<1> SUFFICES ASSUME NEW k \in 0..m + n, Way(Source, g, k) PROVE FALSE
  OBVIOUS
<1>2. PICK i \in 0..m, j \in 0..n : k = i + j
  <2>1. CASE k <= m
    <3>1. k \in 0..m /\ 0 \in 0..n /\ k = k + 0
      BY <1>1, <2>1
    <3> QED BY <3>1
  <2>2. CASE ~(k <= m)
    <3>1. m \in 0..m /\ k - m \in 0..n /\ k = m + (k - m)
      BY <1>1, <2>2
    <3> QED BY <3>1
  <2> QED BY <2>1, <2>2
<1>3. i \in Nat /\ j \in Nat /\ Source \in Columns /\ Target \in Columns
  BY <1>1, <1>2, ColumnGraphAssumption
<1>4. PICK y \in Columns : WayIn(Columns, g, Source, y, i) /\ WayIn(Columns, g, y, Target, j)
  <2>1. WayIn(Columns, g, Source, Target, i + j)
    BY <1>2 DEF Way
  <2> QED BY <1>3, <2>1, WaySplit
<1>5. R[y] # Unreached
  BY <1>2, <1>3, <1>4, SideWays
<1>6. Q[y] # Unreached
  <2>1. Way(y, g, j)
    BY <1>4 DEF Way
  <2> QED BY <1>2, <2>1, BackWays
<1> QED BY <1>5, <1>6

\* A way from the source to the target has hops at both ends.
LEMMA EndsOfWay ==
  ASSUME NEW g \in SUBSET (Columns \X Columns), NEW n \in Nat, Way(Source, g, n)
  PROVE  n # 0 /\ (\E d \in Columns : <<Source, d>> \in g) /\ \E d \in Columns : <<d, Target>> \in g
<1>1. Source \in Columns /\ Target \in Columns /\ Source # Target
  BY ColumnGraphAssumption
<1>2. n # 0
  <2>1. ~Way(Source, g, 0)
    BY <1>1, NoWay DEF Way
  <2> QED BY <2>1
<1> DEFINE k == n - 1
<1>3. k \in Nat /\ n = k + 1 /\ n = 1 + k
  BY <1>2
<1> HIDE DEF k
<1>4. \E d \in Columns : <<d, Target>> \in g
  <2>1. WayIn(Columns, g, Source, Target, k + 1)
    BY <1>3 DEF Way
  <2> QED BY <1>1, <1>3, <2>1, WayOn
<1>5. PICK y \in Columns : WayIn(Columns, g, Source, y, 0 + 1)
  <2>1. WayIn(Columns, g, Source, Target, 1 + k)
    BY <1>3 DEF Way
  <2>2. PICK y \in Columns : WayIn(Columns, g, Source, y, 1)
    BY <1>1, <1>3, <2>1, WaySplit
  <2> QED BY <2>2
<1>6. \E d \in Columns : WayIn(Columns, g, Source, d, 0) /\ <<d, y>> \in g
  BY <1>1, <1>5, WayOn
<1>7. <<Source, y>> \in g
  BY <1>1, <1>6, NoWay
<1> QED BY <1>2, <1>4, <1>7

-----------------------------------------------------------------------------
(***************************************************************************)
(* The shortest path and the backtrack.                                    *)
(***************************************************************************)
ShortestSound ==
    /\ SideIs(hops, Source, reached["fwd"], frontier["fwd"], level["fwd"])
    /\ SideIs(Backward(hops), Target, reached["bwd"], frontier["bwd"], level["bwd"])
    /\ level["fwd"] + level["bwd"] <= search.depth
    /\ ~search.done => answer = NoPath /\ \A c \in Columns : reached["fwd"][c] = Unreached \/ reached["bwd"][c] = Unreached
    /\ search.done => answer = Distance(Source, hops, search.depth)

KeptHops == {h \in hops : Kept(h)}

BacktrackSound ==
    /\ SideIs(Backward(KeptHops), Target, reached["bwd"], frontier["bwd"], level["bwd"])
    /\ level["bwd"] <= search.depth
    /\ collected = {h \in KeptHops : reached["bwd"][h[2]] < level["bwd"]}
    /\ search.done => ~HasNode(Target) \/ frontier["bwd"] = {} \/ level["bwd"] >= search.depth

\* What a side of a query starts with.
LEMMA FirstLevel ==
  ASSUME NEW E \in SUBSET (Columns \X Columns), NEW a \in Columns, NEW R,
         R = [[c \in Columns |-> Unreached] EXCEPT ![a] = 0]
  PROVE  SideIs(E, a, R, {a}, 0)
<1>1. R = [c \in Columns |-> IF c = a THEN 0 ELSE Unreached]
  OBVIOUS
<1> QED BY <1>1, SideStarts

\* The graph of a run.
LEMMA HopsAre ==
  ASSUME NEW g \in SUBSET HopPairs
  PROVE  g \in SUBSET (Columns \X Columns) /\ Backward(g) \in SUBSET (Columns \X Columns)
BY ColumnGraphAssumption DEF Backward

\* A shortest path is asked for.
LEMMA ShortestAsked ==
  ASSUME GraphTypeOK, search = NoSearch, level = [s \in Sides |-> 0],
         NEW g \in SUBSET HopPairs, NEW depth \in Depths, AskShortest(g, depth)
  PROVE  GraphTypeOK' /\ search'.what = "shortest" /\ ShortestSound'
<1> DEFINE none == ~(HasNode(Source)' /\ HasNode(Target)')
           R == [Nowhere EXCEPT !["fwd"][Source] = 0, !["bwd"][Target] = 0]
<1>1. /\ hops' = g /\ reached' = R /\ answer' = NoPath
      /\ search' = [NoSearch EXCEPT !.what = "shortest", !.depth = depth, !.done = none]
      /\ frontier' = [s \in Sides |-> IF s = "fwd" THEN {Source} ELSE {Target}]
      /\ UNCHANGED <<level, trail, paths, collected>>
  BY Zenon DEF AskShortest
<1>2. none \in BOOLEAN
  OBVIOUS
<1>3. none = ~(HasNode(Source)' /\ HasNode(Target)')
  OBVIOUS
<1> HIDE DEF none
<1>4. search'.what = "shortest" /\ search'.depth = depth /\ search'.done = none
      /\ search'.limit = 0 /\ search'.filter = "nothing"
      /\ search' \in [what : {"none", "shortest", "paths", "backtrack"},
                      depth : Depths \union {0}, limit : PathLimits \union {0},
                      filter : Filters, done : BOOLEAN]
  BY <1>1, <1>2 DEF NoSearch, Filters
<1>5. /\ R["fwd"] = [[c \in Columns |-> Unreached] EXCEPT ![Source] = 0]
      /\ R["bwd"] = [[c \in Columns |-> Unreached] EXCEPT ![Target] = 0]
      /\ DOMAIN R = Sides /\ R = [s \in Sides |-> R[s]]
  BY DEF Nowhere, Sides
<1> HIDE DEF R
<1>6. Source \in Columns /\ Target \in Columns /\ Source # Target /\ depth \in Nat
  BY ColumnGraphAssumption
<1>7. /\ SideIs(g, Source, R["fwd"], {Source}, 0)
      /\ SideIs(Backward(g), Target, R["bwd"], {Target}, 0)
  <2>1. g \in SUBSET (Columns \X Columns) /\ Backward(g) \in SUBSET (Columns \X Columns)
    BY HopsAre
  <2>2. SideIs(g, Source, R["fwd"], {Source}, 0)
    BY <1>5, <1>6, <2>1, FirstLevel
  <2> DEFINE E == Backward(g)
  <2>3. SideIs(E, Target, R["bwd"], {Target}, 0)
    <3>1. E \in SUBSET (Columns \X Columns)
      BY <2>1
    <3> HIDE DEF E
    <3> QED BY <1>5, <1>6, <3>1, FirstLevel
  <2> QED BY <2>2, <2>3
<1>8. frontier'["fwd"] = {Source} /\ frontier'["bwd"] = {Target} /\ level'["fwd"] = 0 /\ level'["bwd"] = 0
      /\ frontier' \in [Sides -> SUBSET Columns] /\ level' = level
  BY <1>1, <1>6 DEF Sides
<1>9. GraphTypeOK'
  <2>1. R \in [Sides -> [Columns -> 0..Unreached]]
    <3>1. R["fwd"] \in [Columns -> 0..Unreached] /\ R["bwd"] \in [Columns -> 0..Unreached]
      BY <1>7 DEF SideIs
    <3>2. \A s \in Sides : R[s] \in [Columns -> 0..Unreached]
      BY <3>1 DEF Sides
    <3> QED BY <1>5, <3>2
  <2>2. NoPath \in 0..Unreached
    BY UnreachedIs
  <2> QED BY <1>1, <1>4, <1>8, <2>1, <2>2 DEF GraphTypeOK
<1>10. \A c \in Columns : R["fwd"][c] = Unreached \/ R["bwd"][c] = Unreached
  BY <1>5, <1>6
<1>11. none => NoPath = Distance(Source, g, depth)
  <2> SUFFICES ASSUME none PROVE NoPath = Distance(Source, g, depth)
    OBVIOUS
  <2>1. ASSUME NEW k \in 0..depth, Way(Source, g, k) PROVE FALSE
    <3>1. k \in Nat /\ g \in SUBSET (Columns \X Columns)
      BY <1>6, HopsAre
    <3>2. (\E d \in Columns : <<Source, d>> \in g) /\ \E d \in Columns : <<d, Target>> \in g
      BY <2>1, <3>1, EndsOfWay
    <3>3. HasNode(Source)' /\ HasNode(Target)'
      BY <1>1, <3>2 DEF HasNode, Down, Up
    <3> QED BY <1>3, <3>3
  <2> QED BY <1>6, <2>1, NoDistance
<1>12. ShortestSound'
  <2>1. /\ SideIs(hops, Source, reached["fwd"], frontier["fwd"], level["fwd"])'
        /\ SideIs(Backward(hops), Target, reached["bwd"], frontier["bwd"], level["bwd"])'
    <3>1. SideIs(hops', Source, reached'["fwd"], frontier'["fwd"], level'["fwd"])
      BY <1>1, <1>7, <1>8
    <3>2. SideIs(Backward(hops'), Target, reached'["bwd"], frontier'["bwd"], level'["bwd"])
      BY <1>1, <1>7, <1>8
    <3>3. SideIs(hops, Source, reached["fwd"], frontier["fwd"], level["fwd"])'
      BY <3>1 DEF SideIs, Unreached
    <3>4. SideIs(Backward(hops), Target, reached["bwd"], frontier["bwd"], level["bwd"])'
      BY <3>2 DEF SideIs, Unreached
    <3> QED BY <3>3, <3>4
  <2>2. (level["fwd"] + level["bwd"] <= search.depth)'
    BY <1>4, <1>6, <1>8
  <2>3. search'.done => answer' = Distance(Source, hops, search.depth)'
    BY <1>1, <1>4, <1>11
  <2> QED BY <1>1, <1>10, <2>1, <2>2, <2>3 DEF ShortestSound
<1> QED BY <1>4, <1>9, <1>12

\* The depth of a query.
LEMMA DepthIs ==
  ASSUME GraphTypeOK
  PROVE  search.depth \in Nat /\ search.done \in BOOLEAN
<1>1. search.depth \in Depths \union {0} /\ search.done \in BOOLEAN
  BY DEF GraphTypeOK
<1>2. \A d \in Depths \union {0} : d \in Nat
  BY ColumnGraphAssumption
<1> QED BY <1>1, <1>2

\* Both sides after one of them has expanded a level.
LEMMA LevelExpanded ==
  ASSUME GraphTypeOK, search.what = "shortest", ~search.done, ShortestSound, ExpandLevel
  PROVE  GraphTypeOK' /\ search'.what = "shortest" /\ ShortestSound'
<1> DEFINE s == Turn
           o == OtherSide(s)
           next == NextLevel(s)
           met == {c \in next : reached[o][c] # Unreached}
           R == [c \in Columns |-> IF c \in next THEN level[s] + 1 ELSE reached[s][c]]
           E(t) == IF t = "fwd" THEN hops ELSE Backward(hops)
           start(t) == IF t = "fwd" THEN Source ELSE Target
<1>1. s \in Sides /\ o \in Sides /\ s # o /\ \A t \in Sides : t = s \/ t = o
  BY DEF Turn, OtherSide, Sides
<1>2. /\ \A t \in Sides : frontier[t] # {}
      /\ level["fwd"] + level["bwd"] < search.depth
  BY DEF ExpandLevel, MayExpand
<1>3. /\ reached' = [reached EXCEPT ![s] = R]
      /\ frontier' = [frontier EXCEPT ![s] = next]
      /\ level' = [level EXCEPT ![s] = @ + 1]
      /\ UNCHANGED <<hops, trail, paths, collected>>
      /\ IF met = {} THEN UNCHANGED <<search, answer>>
         ELSE \E c \in met : /\ answer' = reached'["fwd"][c] + reached'["bwd"][c]
                             /\ search' = [search EXCEPT !.done = TRUE]
  BY Zenon DEF ExpandLevel
<1>4. next = {d \in Columns : reached[s][d] = Unreached /\ \E c \in frontier[s] : <<c, d>> \in E(s)}
  <2>1. \A c, d : <<d, c>> \in Backward(hops) <=> <<c, d>> \in hops
    <3>1. hops \in SUBSET (Columns \X Columns)
      BY HopsAre DEF GraphTypeOK
    <3> QED BY <3>1 DEF Backward
  <2>2. CASE s = "fwd"
    BY <2>2 DEF NextLevel, Down
  <2>3. CASE s # "fwd"
    <3>1. next = {d \in Columns : reached[s][d] = Unreached /\ \E c \in frontier[s] : d \in Up(c)}
      BY <2>3 DEF NextLevel
    <3>2. \A c \in frontier[s] : \A d \in Columns : d \in Up(c) <=> <<c, d>> \in E(s)
      BY <2>1, <2>3 DEF Up
    <3> QED BY <3>1, <3>2
  <2> QED BY <2>2, <2>3
<1>5. /\ \A t \in Sides : /\ E(t) \in SUBSET (Columns \X Columns) /\ start(t) \in Columns
                          /\ SideIs(E(t), start(t), reached[t], frontier[t], level[t])
      /\ reached \in [Sides -> [Columns -> 0..Unreached]] /\ frontier \in [Sides -> SUBSET Columns]
      /\ DOMAIN level = Sides /\ \A t \in Sides : level[t] \in Nat
  <2>1. hops \in SUBSET (Columns \X Columns) /\ Backward(hops) \in SUBSET (Columns \X Columns)
    BY HopsAre DEF GraphTypeOK
  <2>2. \A t \in Sides : level[t] \in 0..Unreached
    BY DEF GraphTypeOK
  <2>3. \A t \in Sides : level[t] \in Nat
    BY <2>2, UnreachedIs
  <2> QED BY <2>1, <2>3, ColumnGraphAssumption DEF GraphTypeOK, ShortestSound, Sides
<1>6. SideIs(E(s), start(s), R, next, level[s] + 1) /\ level[s] < Cardinality(Columns)
  <2> DEFINE G == E(s)
             a == start(s)
             Q == reached[s]
             F == frontier[s]
             n == level[s]
  <2>1. /\ G \in SUBSET (Columns \X Columns) /\ a \in Columns /\ SideIs(G, a, Q, F, n) /\ F # {}
        /\ next = {d \in Columns : Q[d] = Unreached /\ \E c \in F : <<c, d>> \in G}
        /\ R = [c \in Columns |-> IF c \in next THEN n + 1 ELSE Q[c]]
    BY <1>1, <1>2, <1>4, <1>5
  <2> HIDE DEF G, a, Q, F, n, next, R
  <2>2. SideIs(G, a, R, next, n + 1) /\ n < Cardinality(Columns)
    BY <2>1, SideGoesOn
  <2> QED BY <2>2 DEF G, a, n
<1> HIDE DEF R, next, E, start
<1>7. /\ reached'[s] = R /\ frontier'[s] = next /\ level'[s] = level[s] + 1
      /\ reached'[o] = reached[o] /\ frontier'[o] = frontier[o] /\ level'[o] = level[o]
  BY <1>1, <1>3, <1>5
<1>8. R \in [Columns -> 0..Unreached] /\ next \in SUBSET Columns /\ level[s] + 1 \in 0..Unreached
  <2>1. level[s] + 1 \in 0..Unreached
    BY <1>1, <1>5, <1>6, UnreachedIs
  <2> QED BY <1>6, <2>1 DEF SideIs
<1>9. /\ reached' \in [Sides -> [Columns -> 0..Unreached]] /\ frontier' \in [Sides -> SUBSET Columns]
      /\ level' \in [Sides -> 0..Unreached]
  BY <1>1, <1>3, <1>5, <1>8 DEF GraphTypeOK
<1>10. \A t \in Sides : SideIs(E(t), start(t), reached'[t], frontier'[t], level'[t])
  <2>1. SideIs(E(s), start(s), reached'[s], frontier'[s], level'[s])
    BY <1>6, <1>7
  <2>2. SideIs(E(o), start(o), reached'[o], frontier'[o], level'[o])
    BY <1>1, <1>5, <1>7
  <2> QED BY <1>1, <2>1, <2>2
<1>11. /\ SideIs(hops, Source, reached'["fwd"], frontier'["fwd"], level'["fwd"])
       /\ SideIs(Backward(hops), Target, reached'["bwd"], frontier'["bwd"], level'["bwd"])
  <2>1. SideIs(E("fwd"), start("fwd"), reached'["fwd"], frontier'["fwd"], level'["fwd"])
    BY <1>10 DEF Sides
  <2>2. SideIs(E("bwd"), start("bwd"), reached'["bwd"], frontier'["bwd"], level'["bwd"])
    BY <1>10 DEF Sides
  <2> QED BY <2>1, <2>2 DEF E, start
<1>12. level'["fwd"] + level'["bwd"] = level["fwd"] + level["bwd"] + 1
       /\ level'["fwd"] + level'["bwd"] <= search.depth /\ search.depth \in Nat
  <2>1. search.depth \in Nat
    BY DepthIs
  <2>2. level["fwd"] \in Nat /\ level["bwd"] \in Nat
    BY <1>5 DEF Sides
  <2>3. (s = "fwd" /\ o = "bwd") \/ (s = "bwd" /\ o = "fwd")
    BY <1>1 DEF Sides
  <2> QED BY <1>2, <1>7, <2>1, <2>2, <2>3
<1>13. UNCHANGED hops
  BY <1>3
<1>14. ASSUME met = {}
       PROVE  GraphTypeOK' /\ search'.what = "shortest" /\ ShortestSound'
  <2>1. UNCHANGED <<search, answer>>
    BY <1>3, <1>14
  <2>2. \A c \in Columns : reached'["fwd"][c] = Unreached \/ reached'["bwd"][c] = Unreached
    <3>1. \A c \in Columns : R[c] = Unreached \/ reached[o][c] = Unreached
      <4> SUFFICES ASSUME NEW c \in Columns PROVE R[c] = Unreached \/ reached[o][c] = Unreached
        OBVIOUS
      <4>1. CASE c \in next
        BY <1>14, <4>1
      <4>2. CASE c \notin next
        <5>1. R[c] = reached[s][c]
          BY <4>2 DEF R
        <5>2. reached["fwd"][c] = Unreached \/ reached["bwd"][c] = Unreached
          BY DEF ShortestSound
        <5>3. (s = "fwd" /\ o = "bwd") \/ (s = "bwd" /\ o = "fwd")
          BY <1>1 DEF Sides
        <5> QED BY <5>1, <5>2, <5>3
      <4> QED BY <4>1, <4>2
    <3>2. (s = "fwd" /\ o = "bwd") \/ (s = "bwd" /\ o = "fwd")
      BY <1>1 DEF Sides
    <3> QED BY <1>7, <3>1, <3>2
  <2>3. GraphTypeOK'
    BY <1>3, <1>9, <2>1 DEF GraphTypeOK
  <2>4. ShortestSound'
    <3>1. /\ SideIs(hops, Source, reached["fwd"], frontier["fwd"], level["fwd"])'
          /\ SideIs(Backward(hops), Target, reached["bwd"], frontier["bwd"], level["bwd"])'
      BY <1>11, <1>13 DEF SideIs, Unreached
    <3> QED BY <1>12, <2>1, <2>2, <3>1 DEF ShortestSound
  <2> QED BY <2>1, <2>3, <2>4
<1>15. ASSUME NEW c \in met, answer' = reached'["fwd"][c] + reached'["bwd"][c],
              search' = [search EXCEPT !.done = TRUE]
       PROVE  GraphTypeOK' /\ search'.what = "shortest" /\ ShortestSound'
  <2>1. c \in Columns /\ hops \in SUBSET (Columns \X Columns) /\ Source \in Columns
    BY <1>8, <1>15, HopsAre, ColumnGraphAssumption DEF GraphTypeOK
  <2> DEFINE i == reached'["fwd"][c]
             j == reached'["bwd"][c]
  <2>2. i # Unreached /\ j # Unreached
    <3>1. R[c] = level[s] + 1
      BY <1>15, <2>1 DEF R
    <3>2. level[s] + 1 # Unreached
      BY <1>1, <1>5, <1>6, UnreachedIs
    <3>3. (s = "fwd" /\ o = "bwd") \/ (s = "bwd" /\ o = "fwd")
      BY <1>1 DEF Sides
    <3> QED BY <1>7, <1>15, <3>1, <3>2, <3>3
  <2>3. i \in 0..level'["fwd"] /\ WayIn(Columns, hops, Source, c, i)
    <3> DEFINE Q == reached'["fwd"]
               F == frontier'["fwd"]
               n == level'["fwd"]
    <3>1. SideIs(hops, Source, Q, F, n) /\ Q[c] # Unreached
      BY <1>11, <2>2
    <3> HIDE DEF Q, F, n
    <3>2. Q[c] \in 0..n /\ WayIn(Columns, hops, Source, c, Q[c])
      BY <2>1, <3>1, SideWays
    <3> QED BY <3>2 DEF Q, n
  <2>4. j \in 0..level'["bwd"] /\ Way(c, hops, j)
    <3> DEFINE Q == reached'["bwd"]
               F == frontier'["bwd"]
               n == level'["bwd"]
    <3>1. SideIs(Backward(hops), Target, Q, F, n) /\ Q[c] # Unreached
      BY <1>11, <2>2
    <3> HIDE DEF Q, F, n
    <3>2. Q[c] \in 0..n /\ Way(c, hops, Q[c])
      BY <2>1, <3>1, BackWays
    <3> QED BY <3>2 DEF Q, n
  <2>5. level'["fwd"] \in Nat /\ level'["bwd"] \in Nat
    <3>1. level'["fwd"] \in 0..Unreached /\ level'["bwd"] \in 0..Unreached
      BY <1>9 DEF Sides
    <3> QED BY <3>1, UnreachedIs
  <2>6. answer' = i + j
    BY <1>15
  <2> HIDE DEF i, j
  <2>7. i \in Nat /\ j \in Nat /\ i + j <= level["fwd"] + level["bwd"] + 1
    BY <1>12, <2>3, <2>4, <2>5
  <2>8. Way(Source, hops, i + j)
    BY <2>3, <2>4, <2>7, WayJoin DEF Way
  <2>9. \A k \in 0..level["fwd"] + level["bwd"] : ~Way(Source, hops, k)
    <3> DEFINE Q == reached["fwd"]
               F == frontier["fwd"]
               n == level["fwd"]
               P == reached["bwd"]
               G == frontier["bwd"]
               m == level["bwd"]
    <3>1. /\ SideIs(hops, Source, Q, F, n) /\ SideIs(Backward(hops), Target, P, G, m)
          /\ \A d \in Columns : Q[d] = Unreached \/ P[d] = Unreached
      BY DEF ShortestSound
    <3> HIDE DEF Q, F, n, P, G, m
    <3>2. \A k \in 0..n + m : ~Way(Source, hops, k)
      BY <2>1, <3>1, NoneBetween
    <3> QED BY <3>2 DEF n, m
  <2>10. level["fwd"] \in Nat /\ level["bwd"] \in Nat
    BY <1>5 DEF Sides
  <2> DEFINE n == i + j
  <2>11. n \in Nat /\ n \in 0..search.depth /\ Way(Source, hops, n) /\ \A k \in 0..n - 1 : ~Way(Source, hops, k)
    <3>1. n \in Nat /\ n <= level["fwd"] + level["bwd"] + 1 /\ n \in 0..search.depth
      BY <1>2, <1>12, <2>7, <2>10
    <3> HIDE DEF n
    <3>2. \A k \in 0..n - 1 : k \in 0..level["fwd"] + level["bwd"]
      BY <2>10, <3>1
    <3>3. Way(Source, hops, n)
      BY <2>8 DEF n
    <3> QED BY <2>9, <3>1, <3>2, <3>3
  <2> HIDE DEF n
  <2>12. Distance(Source, hops, search.depth) = n /\ n < NoPath
    <3> DEFINE depth == search.depth
    <3>1. depth \in Nat
      BY <1>12
    <3> HIDE DEF depth
    <3>2. n \in 0..depth
      BY <2>11 DEF depth
    <3> QED BY <2>1, <2>11, <3>1, <3>2, DistanceIs DEF depth
  <2>13. answer' = n /\ answer' \in 0..Unreached
    <3>1. answer' = n
      BY <2>6 DEF n
    <3> QED BY <2>11, <2>12, <3>1, UnreachedIs
  <2>14. /\ search' \in [what : {"none", "shortest", "paths", "backtrack"},
                         depth : Depths \union {0}, limit : PathLimits \union {0},
                         filter : Filters, done : BOOLEAN]
         /\ search'.what = "shortest" /\ search'.depth = search.depth /\ search'.done
    BY <1>15 DEF GraphTypeOK
  <2>15. GraphTypeOK'
    BY <1>3, <1>9, <2>13, <2>14 DEF GraphTypeOK
  <2>16. ShortestSound'
    <3>1. /\ SideIs(hops, Source, reached["fwd"], frontier["fwd"], level["fwd"])'
          /\ SideIs(Backward(hops), Target, reached["bwd"], frontier["bwd"], level["bwd"])'
      BY <1>11, <1>13 DEF SideIs, Unreached
    <3>2. answer' = Distance(Source, hops, search.depth)'
      BY <1>13, <2>12, <2>13, <2>14
    <3> QED BY <1>12, <2>14, <3>1, <3>2 DEF ShortestSound
  <2> QED BY <2>14, <2>15, <2>16
<1> QED BY <1>3, <1>14, <1>15

\* Sides that may not go on have not met, and will not.
LEMMA SidesApart ==
  ASSUME GraphTypeOK, search.what = "shortest", ~search.done, ShortestSound, NoMeeting
  PROVE  GraphTypeOK' /\ search'.what = "shortest" /\ ShortestSound'
<1> DEFINE Q == reached["fwd"]
           F == frontier["fwd"]
           n == level["fwd"]
           P == reached["bwd"]
           G == frontier["bwd"]
           m == level["bwd"]
           depth == search.depth
<1>1. /\ SideIs(hops, Source, Q, F, n) /\ SideIs(Backward(hops), Target, P, G, m)
      /\ \A d \in Columns : Q[d] = Unreached \/ P[d] = Unreached
      /\ n + m <= depth /\ answer = NoPath
  BY DEF ShortestSound
<1>2. /\ ~MayExpand /\ search' = [search EXCEPT !.done = TRUE]
      /\ UNCHANGED <<hops, reached, frontier, level, trail, paths, collected, answer>>
  BY DEF NoMeeting
<1>3. F = {} \/ G = {} \/ ~(n + m < depth)
  BY <1>2 DEF MayExpand, Sides
<1>4. /\ hops \in SUBSET (Columns \X Columns) /\ Backward(hops) \in SUBSET (Columns \X Columns)
      /\ Source \in Columns /\ Target \in Columns /\ depth \in Nat
  <2>1. depth \in Depths \union {0} /\ hops \in SUBSET HopPairs
    BY DEF GraphTypeOK
  <2> HIDE DEF depth
  <2> QED BY <2>1, HopsAre, ColumnGraphAssumption
<1>5. n \in Nat /\ m \in Nat
  <2>1. n \in 0..Cardinality(Columns) /\ m \in 0..Cardinality(Columns)
    BY <1>1 DEF SideIs
  <2> HIDE DEF n, m
  <2> QED BY <2>1, UnreachedIs
<1> HIDE DEF Q, F, n, P, G, m, depth
<1>6. \A k \in 0..n + m : ~Way(Source, hops, k)
  BY <1>1, <1>4, NoneBetween
<1>7. \A k \in 0..depth : ~Way(Source, hops, k)
  <2>1. CASE ~(n + m < depth)
    <3>1. n + m = depth
      BY <1>1, <1>4, <1>5, <2>1
    <3> QED BY <1>6, <3>1
  <2>2. CASE F = {}
    <3> SUFFICES ASSUME NEW k \in 0..depth, Way(Source, hops, k) PROVE FALSE
      OBVIOUS
    <3>1. k \in Nat /\ k \in 0..k
      BY <1>4
    <3>2. Target \in WithinLevels(hops, {Source}, k)
      BY <1>4, <3>1, LevelsAreWays DEF Way
    <3>3. SideIs(hops, Source, Q, {}, n)
      BY <1>1, <2>2
    <3>4. WithinLevels(hops, {Source}, k) \subseteq WithinLevels(hops, {Source}, n)
      BY <1>4, <3>1, <3>3, SideIsDone
    <3>5. Q[Target] # Unreached
      BY <1>1, <1>4, <3>2, <3>4 DEF SideIs
    <3>6. P[Target] # Unreached
      <4>1. Way(Target, hops, 0) /\ 0 \in 0..m
        BY <1>4, <1>5, NoWay DEF Way
      <4> QED BY <1>1, <1>4, <4>1, BackWays
    <3> QED BY <1>1, <1>4, <3>5, <3>6
  <2>3. CASE G = {}
    <3> SUFFICES ASSUME NEW k \in 0..depth, Way(Source, hops, k) PROVE FALSE
      OBVIOUS
    <3> DEFINE E == Backward(hops)
    <3>1. k \in Nat /\ k \in 0..k /\ E \in SUBSET (Columns \X Columns)
      BY <1>4
    <3>2. WayIn(Columns, E, Target, Source, k)
      BY <1>4, <3>1, WayBack DEF Way
    <3>3. SideIs(E, Target, P, {}, m) /\ SideIs(E, Target, P, G, m)
      BY <1>1, <2>3
    <3> HIDE DEF E
    <3>4. Source \in WithinLevels(E, {Target}, k)
      BY <1>4, <3>1, <3>2, LevelsAreWays
    <3>5. WithinLevels(E, {Target}, k) \subseteq WithinLevels(E, {Target}, m)
      BY <1>4, <3>1, <3>3, SideIsDone
    <3>6. P[Source] # Unreached
      BY <1>4, <3>3, <3>4, <3>5 DEF SideIs
    <3>7. Q[Source] # Unreached
      <4>1. WayIn(Columns, hops, Source, Source, 0) /\ 0 \in 0..n
        BY <1>4, <1>5, NoWay
      <4> QED BY <1>1, <1>4, <4>1, SideWays
    <3> QED BY <1>1, <1>4, <3>6, <3>7
  <2> QED BY <1>3, <2>1, <2>2, <2>3
<1>8. Distance(Source, hops, depth) = NoPath
  BY <1>4, <1>7, NoDistance
<1>9. /\ search' \in [what : {"none", "shortest", "paths", "backtrack"},
                      depth : Depths \union {0}, limit : PathLimits \union {0},
                      filter : Filters, done : BOOLEAN]
      /\ search'.what = "shortest" /\ search'.depth = depth /\ search'.done
  BY <1>2 DEF GraphTypeOK, depth
<1>10. GraphTypeOK'
  BY <1>2, <1>9 DEF GraphTypeOK
<1>11. ShortestSound'
  <2>1. /\ SideIs(hops, Source, reached["fwd"], frontier["fwd"], level["fwd"])'
        /\ SideIs(Backward(hops), Target, reached["bwd"], frontier["bwd"], level["bwd"])'
    BY <1>1, <1>2 DEF SideIs, Unreached, Q, F, n, P, G, m
  <2>2. (level["fwd"] + level["bwd"] <= search.depth)'
    BY <1>1, <1>2, <1>9 DEF n, m
  <2>3. answer' = Distance(Source, hops, search.depth)'
    BY <1>1, <1>2, <1>8, <1>9
  <2> QED BY <1>9, <2>1, <2>2, <2>3 DEF ShortestSound
<1> QED BY <1>9, <1>10, <1>11

\* The hops a backtrack keeps.
LEMMA KeptAre ==
  ASSUME GraphTypeOK
  PROVE  /\ hops \in SUBSET HopPairs /\ KeptHops \in SUBSET HopPairs
         /\ KeptHops \in SUBSET (Columns \X Columns) /\ Backward(KeptHops) \in SUBSET (Columns \X Columns)
         /\ Target \in Columns
<1>1. hops \in SUBSET HopPairs /\ KeptHops \in SUBSET HopPairs
  BY DEF GraphTypeOK, KeptHops
<1> QED BY <1>1, HopsAre, ColumnGraphAssumption

\* A backtrack is asked for.
LEMMA BacktrackAsked ==
  ASSUME GraphTypeOK, search = NoSearch, level = [s \in Sides |-> 0], collected = {},
         NEW g \in SUBSET HopPairs, NEW depth \in Depths, NEW filter \in Filters,
         AskBacktrack(g, depth, filter)
  PROVE  GraphTypeOK' /\ search'.what = "backtrack" /\ BacktrackSound'
<1> DEFINE none == ~HasNode(Target)'
           R == [Nowhere EXCEPT !["bwd"][Target] = 0]
<1>1. /\ hops' = g /\ reached' = R
      /\ search' = [NoSearch EXCEPT !.what = "backtrack", !.depth = depth, !.filter = filter, !.done = none]
      /\ frontier' = [frontier EXCEPT !["bwd"] = {Target}]
      /\ UNCHANGED <<level, trail, paths, collected, answer>>
  BY Zenon DEF AskBacktrack
<1>2. none \in BOOLEAN
  OBVIOUS
<1>3. none = ~HasNode(Target)'
  OBVIOUS
<1> HIDE DEF none
<1>4. search'.what = "backtrack" /\ search'.depth = depth /\ search'.done = none
      /\ search' \in [what : {"none", "shortest", "paths", "backtrack"},
                      depth : Depths \union {0}, limit : PathLimits \union {0},
                      filter : Filters, done : BOOLEAN]
  BY <1>1, <1>2 DEF NoSearch, Filters
<1>5. /\ R["fwd"] = [c \in Columns |-> Unreached]
      /\ R["bwd"] = [[c \in Columns |-> Unreached] EXCEPT ![Target] = 0]
      /\ DOMAIN R = Sides /\ R = [s \in Sides |-> R[s]]
  BY DEF Nowhere, Sides
<1> HIDE DEF R
<1>6. Target \in Columns /\ depth \in Nat
  BY ColumnGraphAssumption
<1>7. KeptHops' \in SUBSET HopPairs
  BY <1>1 DEF KeptHops
<1>8. SideIs(Backward(KeptHops'), Target, R["bwd"], {Target}, 0)
  <2> DEFINE E == Backward(KeptHops')
  <2>1. E \in SUBSET (Columns \X Columns)
    BY <1>7, HopsAre
  <2> HIDE DEF E
  <2>2. SideIs(E, Target, R["bwd"], {Target}, 0)
    BY <1>5, <1>6, <2>1, FirstLevel
  <2> QED BY <2>2 DEF E
<1>9. frontier'["bwd"] = {Target} /\ level'["bwd"] = 0 /\ frontier' \in [Sides -> SUBSET Columns] /\ level' = level
  BY <1>1, <1>6 DEF Sides, GraphTypeOK
<1>10. GraphTypeOK'
  <2>1. R \in [Sides -> [Columns -> 0..Unreached]]
    <3>1. R["fwd"] \in [Columns -> 0..Unreached] /\ R["bwd"] \in [Columns -> 0..Unreached]
      <4>1. R["bwd"] \in [Columns -> 0..Unreached]
        BY <1>8 DEF SideIs
      <4>2. R["fwd"] \in [Columns -> 0..Unreached]
        BY <1>5, UnreachedIs
      <4> QED BY <4>1, <4>2
    <3>2. \A s \in Sides : R[s] \in [Columns -> 0..Unreached]
      BY <3>1 DEF Sides
    <3> QED BY <1>5, <3>2
  <2> QED BY <1>1, <1>4, <1>9, <2>1 DEF GraphTypeOK
<1>11. BacktrackSound'
  <2>1. SideIs(Backward(KeptHops), Target, reached["bwd"], frontier["bwd"], level["bwd"])'
    BY <1>1, <1>8, <1>9 DEF SideIs, Unreached
  <2>2. (level["bwd"] <= search.depth)'
    BY <1>4, <1>6, <1>9
  <2>3. \A h \in KeptHops' : ~(reached'["bwd"][h[2]] < level'["bwd"])
    <3> SUFFICES ASSUME NEW h \in KeptHops' PROVE ~(R["bwd"][h[2]] < 0)
      BY <1>1, <1>9
    <3>1. h[2] \in Columns
      BY <1>7, HopsAre
    <3> QED BY <1>8, <3>1, UnreachedIs DEF SideIs
  <2>4. search'.done => ~HasNode(Target)'
    BY <1>3, <1>4
  <2> QED BY <1>1, <2>1, <2>2, <2>3, <2>4 DEF BacktrackSound
<1> QED BY <1>4, <1>10, <1>11

\* One level upstream.
LEMMA BacktrackGoesOn ==
  ASSUME GraphTypeOK, BacktrackSound, BacktrackLevel
  PROVE  GraphTypeOK' /\ search'.what = "backtrack" /\ BacktrackSound'
<1> DEFINE R == reached["bwd"]
           F == frontier["bwd"]
           n == level["bwd"]
           K == KeptHops
           E == Backward(K)
           up == {h \in hops : h[2] \in frontier["bwd"] /\ Kept(h)}
           next == {c \in {h[1] : h \in up} : reached["bwd"][c] = Unreached}
           Q == [c \in Columns |-> IF c \in next THEN level["bwd"] + 1 ELSE R[c]]
<1>1. /\ search.what = "backtrack" /\ ~search.done /\ F # {} /\ n < search.depth
      /\ collected' = collected \union up
      /\ reached' = [reached EXCEPT !["bwd"] = [c \in Columns |-> IF c \in next THEN level["bwd"] + 1 ELSE @[c]]]
      /\ frontier' = [frontier EXCEPT !["bwd"] = next]
      /\ level' = [level EXCEPT !["bwd"] = @ + 1]
      /\ answer' = IF up # {} THEN level["bwd"] + 1 ELSE answer
      /\ UNCHANGED <<hops, search, trail, paths>>
  BY Zenon DEF BacktrackLevel
<1>2. K \in SUBSET HopPairs /\ E \in SUBSET (Columns \X Columns) /\ Target \in Columns
      /\ K \in SUBSET (Columns \X Columns) /\ search.depth \in Nat
  BY KeptAre, DepthIs
<1>3. SideIs(E, Target, R, F, n) /\ n <= search.depth /\ collected = {h \in K : R[h[2]] < n}
  BY DEF BacktrackSound
<1>4. n \in Nat /\ n \in 0..Cardinality(Columns) /\ F \in SUBSET Columns /\ R \in [Columns -> 0..Unreached]
  <2>1. n \in 0..Cardinality(Columns) /\ R \in [Columns -> 0..Unreached]
    BY <1>3 DEF SideIs
  <2>2. F \in SUBSET Columns
    BY DEF GraphTypeOK, Sides
  <2> HIDE DEF n
  <2> QED BY <2>1, <2>2, UnreachedIs
<1>5. up = {h \in K : h[2] \in F}
  BY DEF KeptHops
<1>6. next = {d \in Columns : R[d] = Unreached /\ \E c \in F : <<c, d>> \in E}
  <2> HIDE DEF up
  <2>1. ASSUME NEW d \in next PROVE d \in Columns /\ R[d] = Unreached /\ \E c \in F : <<c, d>> \in E
    <3>1. PICK h \in up : d = h[1] /\ R[d] = Unreached
      OBVIOUS
    <3>2. h \in K /\ h[2] \in F /\ <<h[2], h[1]>> \in E /\ h[1] \in Columns
      <4>1. h \in K /\ h[2] \in F
        BY <1>5
      <4> QED BY <1>2, <4>1 DEF Backward
    <3> QED BY <3>1, <3>2
  <2>2. ASSUME NEW d \in Columns, R[d] = Unreached, NEW c \in F, <<c, d>> \in E PROVE d \in next
    <3>1. PICK h \in K : <<c, d>> = <<h[2], h[1]>>
      BY <2>2 DEF Backward
    <3>2. h \in up /\ h[1] = d
      BY <1>5, <3>1
    <3> QED BY <2>2, <3>2
  <2> HIDE DEF next, R, F, E
  <2> QED BY <2>1, <2>2
<1>7. reached' = [reached EXCEPT !["bwd"] = Q]
  BY <1>1
<1> HIDE DEF up, next
<1>8. SideIs(E, Target, Q, next, n + 1) /\ n < Cardinality(Columns)
  <2>1. Q = [c \in Columns |-> IF c \in next THEN n + 1 ELSE R[c]] /\ F # {}
    BY <1>1
  <2> HIDE DEF E, R, F, n, Q
  <2> QED BY <1>2, <1>3, <1>6, <2>1, SideGoesOn
<1>9. \A c \in Columns : Q[c] = IF c \in next THEN n + 1 ELSE R[c]
  OBVIOUS
<1>10. KeptHops' = K
  BY <1>1 DEF KeptHops, Kept
<1> HIDE DEF Q
<1>11. reached'["bwd"] = Q /\ frontier'["bwd"] = next /\ level'["bwd"] = n + 1
  BY <1>1, <1>7 DEF GraphTypeOK, Sides
<1>12. n + 1 \in 0..Unreached /\ Q \in [Columns -> 0..Unreached] /\ next \in SUBSET Columns
  <2>1. n + 1 \in 0..Unreached
    <3> HIDE DEF n
    <3> QED BY <1>4, <1>8, UnreachedIs
  <2>2. Q \in [Columns -> 0..Unreached]
    BY <1>8 DEF SideIs
  <2> QED BY <1>6, <2>1, <2>2
<1>13. GraphTypeOK'
  <2>1. reached' \in [Sides -> [Columns -> 0..Unreached]] /\ frontier' \in [Sides -> SUBSET Columns]
    <3>1. reached \in [Sides -> [Columns -> 0..Unreached]] /\ frontier \in [Sides -> SUBSET Columns]
      BY DEF GraphTypeOK
    <3>2. reached' \in [Sides -> [Columns -> 0..Unreached]]
      BY <1>7, <1>12, <3>1
    <3>3. frontier' \in [Sides -> SUBSET Columns]
      BY <1>1, <1>12, <3>1
    <3> QED BY <3>2, <3>3
  <2>2. level' \in [Sides -> 0..Unreached] /\ answer' \in 0..Unreached
    BY <1>1, <1>12 DEF GraphTypeOK
  <2>3. collected' \subseteq HopPairs
    BY <1>1, <1>2, <1>5 DEF GraphTypeOK
  <2> QED BY <1>1, <2>1, <2>2, <2>3 DEF GraphTypeOK
<1>14. collected' = {h \in K : Q[h[2]] < n + 1}
  <2>1. F = {c \in Columns : R[c] = n}
    BY <1>3 DEF SideIs
  <2>2. ASSUME NEW h \in K
        PROVE  Q[h[2]] < n + 1 <=> R[h[2]] < n \/ h[2] \in F
    <3>1. h[2] \in Columns
      BY <1>2
    <3>2. Q[h[2]] = IF h[2] \in next THEN n + 1 ELSE R[h[2]]
      BY <1>9, <3>1
    <3>3. h[2] \in F <=> R[h[2]] = n
      BY <2>1, <3>1
    <3>4. h[2] \in next => R[h[2]] = Unreached
      BY <1>6
    <3>5. R[h[2]] \in 0..Unreached
      BY <1>4, <3>1
    <3> HIDE DEF R, F, n
    <3> QED BY <1>4, <3>2, <3>3, <3>4, <3>5, UnreachedIs
  <2> HIDE DEF R, F, n, K
  <2> QED BY <1>1, <1>3, <1>5, <2>2
<1>15. BacktrackSound'
  <2>1. SideIs(Backward(KeptHops), Target, reached["bwd"], frontier["bwd"], level["bwd"])'
    BY <1>8, <1>10, <1>11 DEF SideIs, Unreached
  <2>2. (level["bwd"] <= search.depth)'
    <3>1. level'["bwd"] = n + 1 /\ search' = search /\ n < search.depth
      BY <1>1, <1>11
    <3> HIDE DEF n
    <3> QED BY <1>2, <1>4, <3>1
  <2>3. (collected = {h \in KeptHops : reached["bwd"][h[2]] < level["bwd"]})'
    BY <1>10, <1>11, <1>14
  <2>4. ~search'.done
    BY <1>1
  <2> QED BY <2>1, <2>2, <2>3, <2>4 DEF BacktrackSound
<1> QED BY <1>1, <1>13, <1>15

\* The backtrack has its levels, or no more columns.
LEMMA BacktrackIsOver ==
  ASSUME GraphTypeOK, BacktrackSound, BacktrackEnds
  PROVE  GraphTypeOK' /\ search'.what = "backtrack" /\ BacktrackSound'
<1>1. /\ frontier["bwd"] = {} \/ level["bwd"] >= search.depth
      /\ search.what = "backtrack" /\ search' = [search EXCEPT !.done = TRUE]
      /\ UNCHANGED <<hops, reached, frontier, level, trail, paths, collected, answer>>
  BY DEF BacktrackEnds
<1>2. /\ search' \in [what : {"none", "shortest", "paths", "backtrack"},
                      depth : Depths \union {0}, limit : PathLimits \union {0},
                      filter : Filters, done : BOOLEAN]
      /\ search'.what = "backtrack" /\ search'.depth = search.depth /\ search'.filter = search.filter
  BY <1>1 DEF GraphTypeOK
<1>3. GraphTypeOK'
  BY <1>1, <1>2 DEF GraphTypeOK
<1>4. KeptHops' = KeptHops
  BY <1>1, <1>2 DEF KeptHops, Kept
<1>5. BacktrackSound'
  <2>1. SideIs(Backward(KeptHops), Target, reached["bwd"], frontier["bwd"], level["bwd"])'
    BY <1>1, <1>4 DEF SideIs, Unreached, BacktrackSound
  <2>2. (collected = {h \in KeptHops : reached["bwd"][h[2]] < level["bwd"]})'
    BY <1>1, <1>4 DEF BacktrackSound
  <2>3. (level["bwd"] <= search.depth)' /\ (frontier["bwd"] = {} \/ level["bwd"] >= search.depth)'
    BY <1>1, <1>2 DEF BacktrackSound
  <2> QED BY <2>1, <2>2, <2>3 DEF BacktrackSound
<1> QED BY <1>2, <1>3, <1>5

\* What a backtrack that is over has listed.
LEMMA BacktrackIsRight ==
  ASSUME GraphTypeOK, BacktrackSound
  PROVE  BacktrackLevelsRight
<1> SUFFICES ASSUME search.done, HasNode(Target)
    PROVE  LET g == {h \in hops : Kept(h)}
           IN  /\ \A c \in Columns : reached["bwd"][c] = Distance(c, g, search.depth)
               /\ collected = {h \in g : LET away == Distance(h[2], g, search.depth)
                                       IN  away # NoPath /\ away < search.depth}
               /\ \A c \in Origins : \A h \in collected : h[2] # c
  BY DEF BacktrackLevelsRight
<1> DEFINE R == reached["bwd"]
           F == frontier["bwd"]
           n == level["bwd"]
           K == KeptHops
           depth == search.depth
<1>1. /\ SideIs(Backward(K), Target, R, F, n) /\ n <= depth /\ collected = {h \in K : R[h[2]] < n}
      /\ F = {} \/ n >= depth
  BY DEF BacktrackSound
<1>2. /\ K \in SUBSET (Columns \X Columns) /\ Backward(K) \in SUBSET (Columns \X Columns)
      /\ Target \in Columns /\ depth \in Nat /\ hops \in SUBSET HopPairs /\ hops \in SUBSET (Columns \X Columns)
  BY KeptAre, DepthIs, HopsAre
<1>3. n \in Nat /\ R \in [Columns -> 0..Unreached] /\ F = {c \in Columns : R[c] = n}
  <2>1. n \in 0..Cardinality(Columns) /\ R \in [Columns -> 0..Unreached] /\ F = {c \in Columns : R[c] = n}
    BY <1>1 DEF SideIs
  <2> HIDE DEF n
  <2> QED BY <2>1, UnreachedIs
<1>4. K = {h \in hops : Kept(h)} /\ K \subseteq hops
  BY DEF KeptHops
<1>5. Origins \subseteq {c \in Columns : \A b \in Columns : <<b, c>> \notin hops}
  BY DEF Origins, Up
<1> HIDE DEF R, F, n, K, depth
<1>6. ASSUME NEW c \in Columns
      PROVE  R[c] = Distance(c, K, depth)
  <2>1. CASE R[c] # Unreached
    <3>1. R[c] \in 0..n /\ Way(c, K, R[c]) /\ \A k \in 0..R[c] - 1 : ~Way(c, K, k)
      BY <1>1, <1>2, <2>1, BackWays
    <3> DEFINE m == R[c]
    <3>2. m \in 0..depth /\ Way(c, K, m) /\ \A k \in 0..m - 1 : ~Way(c, K, k)
      BY <1>1, <1>2, <1>3, <3>1
    <3> HIDE DEF m
    <3>3. Distance(c, K, depth) = m
      BY <1>2, <3>2, DistanceIs
    <3> QED BY <3>3 DEF m
  <2>2. CASE R[c] = Unreached
    <3>1. \A k \in 0..n : ~Way(c, K, k)
      BY <1>1, <1>2, <2>2, BackWays
    <3>2. ASSUME NEW k \in 0..depth, Way(c, K, k) PROVE FALSE
      <4>1. CASE n >= depth
        BY <1>1, <1>2, <1>3, <3>1, <3>2, <4>1
      <4>2. CASE F = {}
        <5> DEFINE E == Backward(K)
        <5>1. k \in Nat /\ k \in 0..k /\ E \in SUBSET (Columns \X Columns) /\ SideIs(E, Target, R, {}, n)
          BY <1>1, <1>2, <4>2
        <5>2. WayIn(Columns, E, Target, c, k)
          BY <1>2, <3>2, <5>1, WayBack DEF Way
        <5>3. R[c] # Unreached <=> c \in WithinLevels(E, {Target}, n)
          BY <5>1 DEF SideIs
        <5> HIDE DEF E
        <5>4. c \in WithinLevels(E, {Target}, k)
          BY <1>2, <5>1, <5>2, LevelsAreWays
        <5>5. WithinLevels(E, {Target}, k) \subseteq WithinLevels(E, {Target}, n)
          BY <1>2, <5>1, SideIsDone
        <5> QED BY <2>2, <5>3, <5>4, <5>5
      <4> QED BY <1>1, <4>1, <4>2
    <3>3. Distance(c, K, depth) = NoPath
      BY <1>2, <3>2, NoDistance
    <3> QED BY <2>2, <3>3, UnreachedIs
  <2> QED BY <2>1, <2>2
<1>7. ASSUME NEW h \in K
      PROVE  R[h[2]] < n <=> Distance(h[2], K, depth) # NoPath /\ Distance(h[2], K, depth) < depth
  <2> DEFINE d == R[h[2]]
  <2>1. h[2] \in Columns
    BY <1>2
  <2>2. d = Distance(h[2], K, depth) /\ d \in 0..Unreached
    BY <1>3, <1>6, <2>1
  <2>3. d # Unreached => d \in 0..n
    BY <1>1, <2>1 DEF SideIs
  <2>4. d = n => F # {}
    BY <1>3, <2>1
  <2>5. n < Unreached
    <3>1. n \in 0..Cardinality(Columns)
      BY <1>1 DEF SideIs
    <3> QED BY <1>3, <3>1, UnreachedIs
  <2> HIDE DEF d
  <2>6. d < n <=> d # NoPath /\ d < depth
    BY <1>1, <1>2, <1>3, <2>2, <2>3, <2>4, <2>5, UnreachedIs
  <2> QED BY <2>2, <2>6 DEF d
<1>8. collected = {h \in K : LET away == Distance(h[2], K, depth) IN away # NoPath /\ away < depth}
  BY <1>1, <1>7
<1>9. ASSUME NEW c \in Origins, NEW h \in collected PROVE h[2] # c
  <2>1. h \in hops /\ h = <<h[1], h[2]>> /\ h[1] \in Columns
    BY <1>1, <1>2, <1>4
  <2> QED BY <1>5, <2>1
<1> QED BY <1>4, <1>6, <1>8, <1>9 DEF R, depth

\* What a search for the shortest path that is over has found.
LEMMA ShortestIsRight ==
  ASSUME ShortestSound
  PROVE  ShortestIsShortest
BY DEF ShortestIsShortest, ShortestSound

-----------------------------------------------------------------------------
(***************************************************************************)
(* The simple paths.                                                       *)
(***************************************************************************)
\* There are finitely many routes.
LEMMA RoutesAreFinite ==
  ASSUME NEW c, NEW g, NEW depth \in Nat
  PROVE  IsFiniteSet(RoutesFrom(c, g, depth)) /\ Cardinality(RoutesFrom(c, g, depth)) \in Nat
<1> DEFINE A == RoutesFrom(c, g, depth)
           N == Cardinality(Columns)
           T == (1..N) \X Columns
           Graph(r) == {<<i, r[i]>> : i \in 1..Len(r)}
           f == [r \in A |-> Graph(r)]
<1>1. N \in Nat /\ IsFiniteSet(1..N) /\ IsFiniteSet(Columns)
  BY ColumnGraphAssumption, FS_CardinalityType, FS_Interval
<1>2. IsFiniteSet(SUBSET T)
  BY <1>1, FS_Product, FS_SUBSET
<1>3. \A r \in A : Len(r) - 1 \in 1..N - 1 /\ r \in [1..Len(r) -> Columns]
  <2> HIDE DEF A, N
  <2> QED BY RouteIsWay DEF A, N
<1>4. \A r \in A : Len(r) \in 1..N /\ Len(r) \in Nat /\ r \in [1..Len(r) -> Columns]
  <2> HIDE DEF A, N
  <2> SUFFICES ASSUME NEW r \in A PROVE Len(r) \in 1..N /\ Len(r) \in Nat
    BY <1>3
  <2>1. Len(r) \in Int
    <3>1. r \in [1..Len(r) -> Columns] /\ Len(r) - 1 \in 1..N - 1
      BY <1>3
    <3>2. \E n \in Nat : r \in [1..n -> Columns]
      <4>1. r \in Routes
        BY DEF A, RoutesFrom
      <4>2. PICK n \in 1..Cardinality(Columns) - 1 : r \in [1..n + 1 -> Columns]
        BY <4>1 DEF Routes
      <4>3. n + 1 \in Nat
        BY <1>1 DEF N
      <4> QED BY <4>2, <4>3
    <3> QED BY <3>2, SeqIs
  <2> QED BY <1>1, <1>3, <2>1
<1> HIDE DEF A, N
<1>5. \A r \in A : Graph(r) \in SUBSET T
  <2> SUFFICES ASSUME NEW r \in A, NEW i \in 1..Len(r) PROVE <<i, r[i]>> \in T
    OBVIOUS
  <2> QED BY <1>1, <1>4
<1>6. \A r, q \in A : Graph(r) = Graph(q) => r = q
  <2> SUFFICES ASSUME NEW r \in A, NEW q \in A, Graph(r) = Graph(q) PROVE r = q
    OBVIOUS
  <2>1. ASSUME NEW u \in A, NEW v \in A, Graph(u) \subseteq Graph(v)
        PROVE  \A i \in 1..Len(u) : i \in 1..Len(v) /\ u[i] = v[i]
    <3> SUFFICES ASSUME NEW i \in 1..Len(u) PROVE i \in 1..Len(v) /\ u[i] = v[i]
      OBVIOUS
    <3>1. <<i, u[i]>> \in Graph(v)
      BY <2>1
    <3>2. PICK j \in 1..Len(v) : <<i, u[i]>> = <<j, v[j]>>
      BY <3>1
    <3> QED BY <3>2
  <2>2. Graph(r) \subseteq Graph(q) /\ Graph(q) \subseteq Graph(r)
    OBVIOUS
  <2> HIDE DEF Graph
  <2>3. \A i \in 1..Len(r) : i \in 1..Len(q) /\ r[i] = q[i]
    BY <2>1, <2>2
  <2>4. \A i \in 1..Len(q) : i \in 1..Len(r) /\ q[i] = r[i]
    BY <2>1, <2>2
  <2>5. Len(r) = Len(q)
    <3>1. Len(r) \in 1..Len(q) /\ Len(q) \in 1..Len(r)
      BY <1>1, <1>4, <2>3, <2>4
    <3> QED BY <1>4, <3>1
  <2> QED BY <1>4, <2>3, <2>5
<1> HIDE DEF T, Graph
<1>7. f \in Injection(A, SUBSET T)
  BY <1>5, <1>6 DEF Injection, IsInjective
<1>8. IsFiniteSet(A)
  <2> HIDE DEF f
  <2> QED BY <1>2, <1>7, FS_Injection
<1> QED BY <1>8, FS_CardinalityType DEF A

TrailRecord == [at : Columns, tried : SUBSET Columns]

\* The stack of the path search: a way from the source that meets no column twice and has
\* not come to the target, every step of it tried.
TrailSound(t, g, depth) ==
    /\ t \in Seq(TrailRecord) /\ Len(t) # 0 /\ Len(t) <= depth + 1
    /\ t[1].at = Source
    /\ \A i \in 1..Len(t) : t[i].at # Target
    /\ \A i, j \in 1..Len(t) : i # j => t[i].at # t[j].at
    /\ \A i \in 1..Len(t) - 1 : <<t[i].at, t[i + 1].at>> \in g /\ t[i + 1].at \in t[i].tried

\* A path that the search has left behind: it parts from the stack at a column that was
\* tried, and whatever goes on from there is finished.
PartsAt(t, r, i) ==
    /\ i < Len(r) /\ \A j \in 1..i : r[j] = t[j].at
    /\ r[i + 1] \in t[i].tried
    /\ i # Len(t) => r[i + 1] # t[i + 1].at
Behind(t, r) == \E i \in 1..Len(t) : PartsAt(t, r, i)

PathsSound ==
    LET all == RoutesFrom(Source, hops, search.depth)
    IN  /\ TrailSound(trail, hops, search.depth)
        /\ paths = {r \in all : Behind(trail, r)}
        /\ Cardinality(paths) <= search.limit
        /\ search.done => \/ ~(HasNode(Source) /\ HasNode(Target)) \/ search.depth = 0
                          \/ Cardinality(paths) >= search.limit
                          \/ Len(trail) = 1 /\ Untried = {}

\* What is known of a route from the source.
LEMMA RouteFacts ==
  ASSUME NEW g, NEW depth \in Nat, NEW r \in RoutesFrom(Source, g, depth)
  PROVE  /\ Len(r) \in Nat /\ 2 <= Len(r) /\ Len(r) <= depth + 1
         /\ r \in [1..Len(r) -> Columns] /\ r[1] = Source /\ r[Len(r)] = Target
         /\ \A i \in 1..Len(r) - 1 : <<r[i], r[i + 1]>> \in g
         /\ \A i, j \in 1..Len(r) : i # j => r[i] # r[j]
<1>1. Len(r) \in Int
  <2>1. PICK n \in 1..Cardinality(Columns) - 1 : r \in [1..n + 1 -> Columns]
    BY DEF RoutesFrom, Routes
  <2>2. n + 1 \in Nat
    BY UnreachedIs
  <2> QED BY <2>1, <2>2, SeqIs
<1>2. Len(r) - 1 \in 1..depth
  BY RouteIsWay
<1>3. Len(r) \in Nat /\ 2 <= Len(r) /\ Len(r) <= depth + 1
  BY <1>1, <1>2
<1>4. r \in [1..Len(r) -> Columns] /\ r[1] = Source /\ r[Len(r)] = Target
  BY RouteIsWay
<1>5. \A i \in 1..Len(r) - 1 : <<r[i], r[i + 1]>> \in g
  BY RouteIsWay
<1>6. \A i, j \in 1..Len(r) : i # j => r[i] # r[j]
  BY RouteIsWay
<1> QED BY <1>3, <1>4, <1>5, <1>6

\* The columns of a stack.
LEMMA TrailFacts ==
  ASSUME NEW t, NEW g, NEW depth, TrailSound(t, g, depth)
  PROVE  /\ Len(t) \in Nat /\ Len(t) \in 1..Len(t) /\ DOMAIN t = 1..Len(t)
         /\ \A i \in 1..Len(t) : t[i] \in TrailRecord /\ t[i].at \in Columns /\ t[i].tried \in SUBSET Columns
<1>1. t \in Seq(TrailRecord) /\ Len(t) # 0
  BY DEF TrailSound
<1>2. Len(t) \in Nat /\ Len(t) \in 1..Len(t) /\ DOMAIN t = 1..Len(t)
  BY <1>1, LenProperties
<1>3. \A i \in 1..Len(t) : t[i] \in TrailRecord
  BY <1>1, ElementOfSeq
<1> QED BY <1>2, <1>3 DEF TrailRecord

\* A query for paths starts with a stack of the source alone, with no path behind it.
LEMMA FirstTrail ==
  ASSUME NEW g, NEW depth \in Nat
  PROVE  /\ TrailSound(<<[at |-> Source, tried |-> {Source}]>>, g, depth)
         /\ \A r \in RoutesFrom(Source, g, depth) : ~Behind(<<[at |-> Source, tried |-> {Source}]>>, r)
<1> DEFINE e == [at |-> Source, tried |-> {Source}]
           t == <<e>>
<1>1. Source \in Columns /\ Source # Target
  BY ColumnGraphAssumption
<1>2. e \in TrailRecord /\ e.at = Source /\ e.tried = {Source}
  BY <1>1 DEF TrailRecord
<1> HIDE DEF e
<1>3. t \in Seq(TrailRecord) /\ Len(t) = 1 /\ t[1] = e
  BY <1>2
<1> HIDE DEF t
<1>4. TrailSound(t, g, depth)
  <2>1. \A i \in 1..Len(t) : i = 1
    BY <1>3
  <2>2. 1..Len(t) - 1 = {}
    BY <1>3
  <2>3. Len(t) # 0 /\ Len(t) <= depth + 1
    BY <1>3
  <2> QED BY <1>1, <1>2, <1>3, <2>1, <2>2, <2>3 DEF TrailSound
<1>5. ASSUME NEW r \in RoutesFrom(Source, g, depth), NEW i \in 1..Len(t), PartsAt(t, r, i) PROVE FALSE
  <2>1. i = 1
    BY <1>3
  <2>2. r[1 + 1] = Source
    <3>1. r[i + 1] \in t[i].tried
      BY <1>5 DEF PartsAt
    <3>2. t[i].tried = {Source}
      BY <1>2, <1>3, <2>1
    <3> QED BY <2>1, <3>1, <3>2
  <2>3. Len(r) \in Nat /\ 2 <= Len(r) /\ r[1] = Source /\ \A k, j \in 1..Len(r) : k # j => r[k] # r[j]
    BY RouteFacts
  <2>4. 1 \in 1..Len(r) /\ 2 \in 1..Len(r) /\ 1 + 1 = 2
    BY <2>3
  <2> QED BY <2>2, <2>3, <2>4
<1>6. \A r \in RoutesFrom(Source, g, depth) : ~Behind(t, r)
  BY <1>5 DEF Behind
<1> QED BY <1>4, <1>6 DEF t, e

\* A stack whose last column has tried one more.
Tried(t, d) == [t EXCEPT ![Len(t)] = [t[Len(t)] EXCEPT !.tried = @ \union {d}]]

\* What one more try changes of a stack.
LEMMA TriedIs ==
  ASSUME NEW g, NEW depth, NEW t, TrailSound(t, g, depth), NEW d \in Columns
  PROVE  /\ Tried(t, d) \in Seq(TrailRecord) /\ Len(Tried(t, d)) = Len(t)
         /\ \A i \in 1..Len(t) : Tried(t, d)[i].at = t[i].at
         /\ \A i \in 1..Len(t) : i # Len(t) => Tried(t, d)[i].tried = t[i].tried
         /\ Tried(t, d)[Len(t)].tried = t[Len(t)].tried \union {d}
         /\ TrailSound(Tried(t, d), g, depth)
<1> DEFINE n == Len(t)
           e == [t[n] EXCEPT !.tried = @ \union {d}]
           top == [t EXCEPT ![n] = e]
<1>1. n \in Nat /\ n \in 1..n /\ \A i \in 1..n : t[i] \in TrailRecord /\ t[i].tried \in SUBSET Columns
  BY TrailFacts
<1>2. t \in Seq(TrailRecord)
  BY DEF TrailSound
<1>3. e \in TrailRecord /\ e.at = t[n].at /\ e.tried = t[n].tried \union {d}
  <2> DEFINE r == t[n]
  <2>1. r \in TrailRecord
    BY <1>1
  <2>2. e = [r EXCEPT !.tried = @ \union {d}]
    OBVIOUS
  <2> HIDE DEF r, e
  <2>3. e \in TrailRecord /\ e.at = r.at /\ e.tried = r.tried \union {d}
    BY <2>1, <2>2 DEF TrailRecord
  <2> QED BY <2>3 DEF r
<1> HIDE DEF e
<1>4. top \in Seq(TrailRecord) /\ Len(top) = n /\ \A i \in 1..n : top[i] = IF i = n THEN e ELSE t[i]
  <2>1. n \in 1..Len(t)
    BY <1>1
  <2> HIDE DEF n
  <2>2. top \in Seq(TrailRecord) /\ Len(top) = Len(t)
    BY <1>2, <1>3, <2>1, ExceptSeq
  <2>3. \A i \in 1..Len(t) : top[i] = IF i = n THEN e ELSE t[i]
    BY <1>2, <1>3, <2>1, ExceptSeq
  <2> QED BY <2>2, <2>3 DEF n
<1>5. Tried(t, d) = top
  BY DEF Tried, e
<1> HIDE DEF top
<1>6. \A i \in 1..n : top[i].at = t[i].at /\ top[i].tried = IF i = n THEN t[i].tried \union {d} ELSE t[i].tried
  BY <1>3, <1>4
<1>7. TrailSound(top, g, depth)
  <2>1. /\ n # 0 /\ n <= depth + 1 /\ t[1].at = Source
        /\ \A i \in 1..n : t[i].at # Target
        /\ \A i, j \in 1..n : i # j => t[i].at # t[j].at
        /\ \A i \in 1..n - 1 : <<t[i].at, t[i + 1].at>> \in g /\ t[i + 1].at \in t[i].tried
    BY DEF TrailSound
  <2> HIDE DEF n
  <2>2. 1 \in 1..n /\ \A i \in 1..n - 1 : i \in 1..n /\ i + 1 \in 1..n /\ i # n
    BY <1>1, <2>1
  <2>3. top[1].at = Source /\ \A i \in 1..n : top[i].at # Target
    BY <1>6, <2>1, <2>2
  <2>4. \A i, j \in 1..n : i # j => top[i].at # top[j].at
    BY <1>6, <2>1
  <2>5. ASSUME NEW i \in 1..n - 1
        PROVE  <<top[i].at, top[i + 1].at>> \in g /\ top[i + 1].at \in top[i].tried
    <3>1. top[i].at = t[i].at /\ top[i + 1].at = t[i + 1].at /\ top[i].tried = t[i].tried
      BY <1>6, <2>2
    <3>2. <<t[i].at, t[i + 1].at>> \in g /\ t[i + 1].at \in t[i].tried
      BY <2>1
    <3> QED BY <3>1, <3>2
  <2>6. \A i \in 1..n - 1 : <<top[i].at, top[i + 1].at>> \in g /\ top[i + 1].at \in top[i].tried
    BY <2>5
  <2> QED BY <1>4, <2>1, <2>3, <2>4, <2>6 DEF TrailSound
<1> QED BY <1>1, <1>4, <1>5, <1>6, <1>7

\* The path from the source along a stack to the target.
PathBy(t) == [i \in 1..Len(t) + 1 |-> IF i > Len(t) THEN Target ELSE t[i].at]

\* A column that may be tried at the end of a stack; the end is spent when there is none.
MayTry(t, g, d) ==
    /\ d \in Columns /\ <<t[Len(t)].at, d>> \in g
    /\ d \notin t[Len(t)].tried /\ \A i \in 1..Len(t) : t[i].at # d
Spent(t, g, depth) ==
    Len(t) <= depth => \A d \in Columns : <<t[Len(t)].at, d>> \in g =>
        d \in t[Len(t)].tried \/ \E i \in 1..Len(t) : t[i].at = d

\* The stack with a column it has just tried, and the stack without its last column.
Grown(t, d) == Append(Tried(t, d), [at |-> d, tried |-> {}])
Shrunk(t) == SubSeq(t, 1, Len(t) - 1)

\* A stack at whose end the target is tried: one more path is behind it.
LEMMA TargetFound ==
  ASSUME NEW g \in SUBSET (Columns \X Columns), NEW depth \in Nat, NEW t, TrailSound(t, g, depth),
         Len(t) <= depth, MayTry(t, g, Target)
  PROVE  /\ PathBy(t) \in RoutesFrom(Source, g, depth)
         /\ \A r \in RoutesFrom(Source, g, depth) : Behind(Tried(t, Target), r) <=> Behind(t, r) \/ r = PathBy(t)
<1> DEFINE n == Len(t)
           p == PathBy(t)
           top == Tried(t, Target)
<1>1. n \in Nat /\ n \in 1..n /\ (\A i \in 1..n : t[i].at \in Columns) /\ n # 0
  BY TrailFacts DEF TrailSound
<1>2. Target \in Columns /\ IsFiniteSet(Columns) /\ Cardinality(Columns) \in Nat
  BY ColumnGraphAssumption, FS_CardinalityType
<1>3. /\ t[1].at = Source
      /\ \A i \in 1..n : t[i].at # Target
      /\ \A i, j \in 1..n : i # j => t[i].at # t[j].at
      /\ \A i \in 1..n - 1 : <<t[i].at, t[i + 1].at>> \in g
  BY DEF TrailSound
<1>4. /\ Len(top) = n /\ \A i \in 1..n : top[i].at = t[i].at
      /\ \A i \in 1..n : i # n => top[i].tried = t[i].tried
      /\ top[n].tried = t[n].tried \union {Target}
  <2>1. Len(top) = n
    BY <1>2, TriedIs
  <2>2. \A i \in 1..n : top[i].at = t[i].at
    BY <1>2, TriedIs
  <2>3. \A i \in 1..n : i # n => top[i].tried = t[i].tried
    BY <1>2, TriedIs
  <2>4. top[n].tried = t[n].tried \union {Target}
    BY <1>2, TriedIs
  <2> QED BY <2>1, <2>2, <2>3, <2>4
<1> HIDE DEF top
<1>5. <<t[n].at, Target>> \in g /\ n <= depth /\ p = [i \in 1..n + 1 |-> IF i > n THEN Target ELSE t[i].at]
  BY DEF MayTry, PathBy
<1> HIDE DEF n, p
<1>6. \A i \in 1..n + 1 : (i > n <=> i = n + 1) /\ (~(i > n) => i \in 1..n)
  BY <1>1
<1>7. p \in [1..n + 1 -> Columns] /\ p[n + 1] = Target /\ \A i \in 1..n : p[i] = t[i].at
  <2>1. \A i \in 1..n : i \in 1..n + 1 /\ ~(i > n)
    BY <1>1
  <2>2. n + 1 \in 1..n + 1 /\ n + 1 > n
    BY <1>1
  <2> QED BY <1>1, <1>2, <1>5, <1>6, <2>1, <2>2
<1>8. Len(p) = n + 1 /\ DOMAIN p = 1..n + 1
  <2>1. n + 1 \in Nat
    BY <1>1
  <2> QED BY <1>7, <2>1, SeqIs
<1>9. \A i, j \in 1..n + 1 : i # j => p[i] # p[j]
  <2> SUFFICES ASSUME NEW i \in 1..n + 1, NEW j \in 1..n + 1, i # j PROVE p[i] # p[j]
    OBVIOUS
  <2>1. (i \in 1..n \/ i = n + 1) /\ (j \in 1..n \/ j = n + 1)
    BY <1>1
  <2> QED BY <1>3, <1>7, <2>1
<1>10. n + 1 <= Cardinality(Columns)
  <2> DEFINE way == [i \in 0..n |-> p[i + 1]]
  <2>1. \A i \in 0..n : i + 1 \in 1..n + 1
    BY <1>1
  <2>2. way \in [0..n -> Columns] /\ \A i \in 0..n : way[i] = p[i + 1]
    BY <1>7, <2>1
  <2> HIDE DEF way
  <2>3. \A i, j \in 0..n : i < j => way[i] # way[j]
    <3> SUFFICES ASSUME NEW i \in 0..n, NEW j \in 0..n, i < j PROVE way[i] # way[j]
      OBVIOUS
    <3> DEFINE a == i + 1
               b == j + 1
    <3>1. a # b /\ a \in 1..n + 1 /\ b \in 1..n + 1 /\ way[i] = p[a] /\ way[j] = p[b]
      BY <2>1, <2>2
    <3> HIDE DEF a, b
    <3> QED BY <1>9, <3>1
  <2> QED BY <1>1, <1>2, <2>2, <2>3, SimpleIsShort
<1>11. p \in RoutesFrom(Source, g, depth)
  <2>1. n \in 1..Cardinality(Columns) - 1
    BY <1>1, <1>2, <1>10
  <2>2. p \in Routes
    <3>1. p \in UNION {[1..k + 1 -> Columns] : k \in 1..Cardinality(Columns) - 1}
      BY <1>7, <2>1
    <3>2. p[Len(p)] = Target
      BY <1>7, <1>8
    <3>3. \A i, j \in DOMAIN p : i # j => p[i] # p[j]
      <4> SUFFICES ASSUME NEW i \in DOMAIN p, NEW j \in DOMAIN p, i # j PROVE p[i] # p[j]
        OBVIOUS
      <4>1. i \in 1..n + 1 /\ j \in 1..n + 1
        BY <1>8
      <4> QED BY <1>9, <4>1
    <3> QED BY <3>1, <3>2, <3>3 DEF Routes
  <2>3. p[1] = Source /\ Len(p) <= depth + 1
    <3>1. 1 \in 1..n
      BY <1>1
    <3> QED BY <1>1, <1>3, <1>5, <1>7, <1>8, <3>1
  <2>4. \A i \in 1..n : <<p[i], p[i + 1]>> \in g
    <3> SUFFICES ASSUME NEW i \in 1..n PROVE <<p[i], p[i + 1]>> \in g
      OBVIOUS
    <3>1. CASE i = n
      BY <1>1, <1>5, <1>7, <3>1
    <3>2. CASE i # n
      <4>1. i \in 1..n - 1 /\ i + 1 \in 1..n
        BY <1>1, <3>2
      <4> QED BY <1>3, <1>7, <4>1
    <3> QED BY <3>1, <3>2
  <2>5. 1..Len(p) - 1 = 1..n
    BY <1>1, <1>8
  <2> QED BY <2>2, <2>3, <2>4, <2>5 DEF RoutesFrom
<1>12. ASSUME NEW r \in RoutesFrom(Source, g, depth)
       PROVE  Behind(top, r) <=> Behind(t, r) \/ r = p
  <2>1. /\ Len(r) \in Nat /\ 2 <= Len(r) /\ r \in [1..Len(r) -> Columns] /\ r[Len(r)] = Target
        /\ \A i, j \in 1..Len(r) : i # j => r[i] # r[j]
    BY RouteFacts
  <2>2. \A i \in 1..n : (\A j \in 1..i : r[j] = top[j].at) <=> (\A j \in 1..i : r[j] = t[j].at)
    <3> SUFFICES ASSUME NEW i \in 1..n, NEW j \in 1..i PROVE top[j].at = t[j].at
      BY Zenon
    <3>1. j \in 1..n
      BY <1>1
    <3> QED BY <1>4, <3>1
  <2>3. ASSUME NEW i \in 1..n, i # n PROVE PartsAt(top, r, i) <=> PartsAt(t, r, i)
    <3>1. top[i].tried = t[i].tried /\ top[i + 1].at = t[i + 1].at
      <4>1. i + 1 \in 1..n
        BY <1>1, <2>3
      <4> QED BY <1>4, <2>3, <4>1
    <3>2. (\A j \in 1..i : r[j] = top[j].at) <=> (\A j \in 1..i : r[j] = t[j].at)
      BY <2>2
    <3> QED BY <1>4, <3>1, <3>2 DEF PartsAt, n
  <2>4. PartsAt(top, r, n) <=> PartsAt(t, r, n) \/ (n < Len(r) /\ (\A j \in 1..n : r[j] = t[j].at) /\ r[n + 1] = Target)
    <3>1. top[n].tried = t[n].tried \union {Target}
      BY <1>1, <1>4
    <3>2. (\A j \in 1..n : r[j] = top[j].at) <=> (\A j \in 1..n : r[j] = t[j].at)
      BY <1>1, <2>2
    <3> QED BY <1>4, <3>1, <3>2 DEF PartsAt, n
  <2>5. ASSUME n < Len(r), \A j \in 1..n : r[j] = t[j].at, r[n + 1] = Target PROVE r = p
    <3>1. n + 1 \in 1..Len(r) /\ Len(r) \in 1..Len(r)
      BY <1>1, <2>1, <2>5
    <3>2. Len(r) = n + 1
      BY <2>1, <2>5, <3>1
    <3>3. \A i \in 1..n + 1 : r[i] = p[i]
      <4> SUFFICES ASSUME NEW i \in 1..n + 1 PROVE r[i] = p[i]
        OBVIOUS
      <4>1. i \in 1..n \/ i = n + 1
        BY <1>1
      <4> QED BY <1>7, <2>5, <4>1
    <3> QED BY <1>7, <2>1, <3>2, <3>3
  <2>6. ASSUME r = p PROVE n < Len(r) /\ (\A j \in 1..n : r[j] = t[j].at) /\ r[n + 1] = Target
    BY <1>1, <1>7, <1>8, <2>6
  <2>7. Behind(top, r) <=> \E i \in 1..n : PartsAt(top, r, i)
    BY <1>4 DEF Behind
  <2>8. Behind(t, r) <=> \E i \in 1..n : PartsAt(t, r, i)
    BY DEF Behind, n
  <2> QED BY <1>1, <2>3, <2>4, <2>5, <2>6, <2>7, <2>8
<1> QED BY <1>11, <1>12 DEF top, p

\* A stack that grows by a column it has just tried: no path is left behind.
LEMMA TrailGrows ==
  ASSUME NEW g \in SUBSET (Columns \X Columns), NEW depth \in Nat, NEW t, TrailSound(t, g, depth),
         Len(t) <= depth, NEW d \in Columns, d # Target, MayTry(t, g, d)
  PROVE  /\ TrailSound(Grown(t, d), g, depth)
         /\ \A r \in RoutesFrom(Source, g, depth) : Behind(Grown(t, d), r) <=> Behind(t, r)
<1> DEFINE n == Len(t)
           u == Grown(t, d)
           top == Tried(t, d)
           e == [at |-> d, tried |-> {}]
<1>1. n \in Nat /\ n \in 1..n /\ n + 1 \in 1..n + 1 /\ n # 0
  BY TrailFacts DEF TrailSound
<1>2. /\ t[1].at = Source
      /\ \A i \in 1..n : t[i].at # Target
      /\ \A i, j \in 1..n : i # j => t[i].at # t[j].at
      /\ \A i \in 1..n - 1 : <<t[i].at, t[i + 1].at>> \in g /\ t[i + 1].at \in t[i].tried
  BY DEF TrailSound
<1>3. /\ top \in Seq(TrailRecord) /\ Len(top) = n /\ \A i \in 1..n : top[i].at = t[i].at
      /\ \A i \in 1..n : i # n => top[i].tried = t[i].tried
      /\ top[n].tried = t[n].tried \union {d}
  <2>1. top \in Seq(TrailRecord) /\ Len(top) = n
    BY TriedIs
  <2>2. \A i \in 1..n : top[i].at = t[i].at
    BY TriedIs
  <2>3. \A i \in 1..n : i # n => top[i].tried = t[i].tried
    BY TriedIs
  <2>4. top[n].tried = t[n].tried \union {d}
    BY TriedIs
  <2> QED BY <2>1, <2>2, <2>3, <2>4
<1>4. e \in TrailRecord /\ e.at = d /\ e.tried = {}
  BY DEF TrailRecord
<1>5. u = Append(top, e) /\ n <= depth /\ <<t[n].at, d>> \in g /\ d \notin t[n].tried /\ \A i \in 1..n : t[i].at # d
  BY DEF MayTry, Grown
<1> HIDE DEF n, top, e, u
<1>6. u \in Seq(TrailRecord) /\ Len(u) = n + 1 /\ (\A i \in 1..n : u[i] = top[i]) /\ u[n + 1] = e
  <2>1. Append(top, e) \in Seq(TrailRecord) /\ Len(Append(top, e)) = Len(top) + 1
        /\ Append(top, e)[Len(top) + 1] = e
    BY <1>3, <1>4, AppendProperties
  <2>2. \A i \in 1..Len(top) : Append(top, e)[i] = top[i]
    BY <1>3, <1>4, AppendProperties
  <2> QED BY <1>3, <1>5, <2>1, <2>2
<1>7. /\ \A i \in 1..n : u[i].at = t[i].at
      /\ \A i \in 1..n : i # n => u[i].tried = t[i].tried
      /\ u[n].tried = t[n].tried \union {d}
      /\ u[n + 1].at = d /\ u[n + 1].tried = {}
  BY <1>1, <1>3, <1>4, <1>6
<1>8. \A i \in 1..n + 1 : i \in 1..n \/ i = n + 1
  BY <1>1
<1>9. TrailSound(u, g, depth)
  <2>1. u[1].at = Source /\ n + 1 # 0 /\ n + 1 <= depth + 1
    BY <1>1, <1>2, <1>5, <1>7
  <2>2. \A i \in 1..n + 1 : u[i].at # Target
    BY <1>2, <1>7, <1>8
  <2>3. \A i, j \in 1..n + 1 : i # j => u[i].at # u[j].at
    <3> SUFFICES ASSUME NEW i \in 1..n + 1, NEW j \in 1..n + 1, i # j PROVE u[i].at # u[j].at
      OBVIOUS
    <3>1. CASE i \in 1..n /\ j \in 1..n
      BY <1>2, <1>7, <3>1
    <3>2. CASE i = n + 1
      <4>1. j \in 1..n /\ u[i].at = d
        BY <1>7, <1>8, <3>2
      <4> QED BY <1>5, <1>7, <4>1
    <3>3. CASE j = n + 1
      <4>1. i \in 1..n /\ u[j].at = d
        BY <1>7, <1>8, <3>3
      <4> QED BY <1>5, <1>7, <4>1
    <3> QED BY <1>8, <3>1, <3>2, <3>3
  <2>4. \A i \in 1..(n + 1) - 1 : <<u[i].at, u[i + 1].at>> \in g /\ u[i + 1].at \in u[i].tried
    <3>0. 1..(n + 1) - 1 = 1..n
      BY <1>1
    <3> SUFFICES ASSUME NEW i \in 1..n PROVE <<u[i].at, u[i + 1].at>> \in g /\ u[i + 1].at \in u[i].tried
      BY <3>0, Zenon
    <3>1. CASE i = n
      BY <1>1, <1>5, <1>7, <3>1
    <3>2. CASE i # n
      <4>1. i \in 1..n - 1 /\ i + 1 \in 1..n
        BY <1>1, <3>2
      <4>2. u[i].at = t[i].at /\ u[i + 1].at = t[i + 1].at /\ u[i].tried = t[i].tried
        BY <1>7, <3>2, <4>1
      <4> QED BY <1>2, <4>1, <4>2
    <3> QED BY <3>1, <3>2
  <2> QED BY <1>6, <2>1, <2>2, <2>3, <2>4 DEF TrailSound
<1>10. ASSUME NEW r \in RoutesFrom(Source, g, depth)
       PROVE  Behind(u, r) <=> Behind(t, r)
  <2>1. \A i \in 1..n : (\A j \in 1..i : r[j] = u[j].at) <=> (\A j \in 1..i : r[j] = t[j].at)
    <3> SUFFICES ASSUME NEW i \in 1..n, NEW j \in 1..i PROVE u[j].at = t[j].at
      BY Zenon
    <3>1. j \in 1..n
      BY <1>1
    <3> QED BY <1>7, <3>1
  <2>2. ASSUME NEW i \in 1..n, i # n PROVE PartsAt(u, r, i) <=> PartsAt(t, r, i)
    <3>1. u[i].tried = t[i].tried /\ u[i + 1].at = t[i + 1].at /\ i # Len(u) /\ i # Len(t)
      <4>1. i + 1 \in 1..n /\ i # n + 1
        BY <1>1, <2>2
      <4> QED BY <1>6, <1>7, <2>2, <4>1 DEF n
    <3>2. (\A j \in 1..i : r[j] = u[j].at) <=> (\A j \in 1..i : r[j] = t[j].at)
      BY <2>1
    <3> QED BY <3>1, <3>2 DEF PartsAt
  <2>3. PartsAt(u, r, n) <=> PartsAt(t, r, n)
    <3>1. u[n].tried = t[n].tried \union {d} /\ u[n + 1].at = d /\ n # Len(u)
      BY <1>1, <1>6, <1>7
    <3>2. (\A j \in 1..n : r[j] = u[j].at) <=> (\A j \in 1..n : r[j] = t[j].at)
      BY <1>1, <2>1
    <3>3. PartsAt(u, r, n) <=> n < Len(r) /\ (\A j \in 1..n : r[j] = u[j].at) /\ r[n + 1] \in t[n].tried
      BY <1>5, <3>1 DEF PartsAt
    <3>4. PartsAt(t, r, n) <=> n < Len(r) /\ (\A j \in 1..n : r[j] = t[j].at) /\ r[n + 1] \in t[n].tried
      BY DEF PartsAt, n
    <3> QED BY <3>2, <3>3, <3>4
  <2>4. ~PartsAt(u, r, n + 1)
    BY <1>7 DEF PartsAt
  <2>5. Behind(u, r) <=> \E i \in 1..n + 1 : PartsAt(u, r, i)
    BY <1>6 DEF Behind
  <2>6. Behind(t, r) <=> \E i \in 1..n : PartsAt(t, r, i)
    BY DEF Behind, n
  <2>7. \A i \in 1..n : i \in 1..n + 1 /\ (PartsAt(u, r, i) <=> PartsAt(t, r, i))
    <3> SUFFICES ASSUME NEW i \in 1..n PROVE i \in 1..n + 1 /\ (PartsAt(u, r, i) <=> PartsAt(t, r, i))
      OBVIOUS
    <3>1. i \in 1..n + 1
      BY <1>1
    <3>2. CASE i = n
      BY <2>3, <3>1, <3>2
    <3>3. CASE i # n
      BY <2>2, <3>1, <3>3
    <3> QED BY <3>2, <3>3
  <2> QED BY <1>8, <2>4, <2>5, <2>6, <2>7
<1> QED BY <1>9, <1>10 DEF u

\* A stack that leaves a column with nothing left to try: no path is left behind either.
LEMMA TrailShrinks ==
  ASSUME NEW g \in SUBSET (Columns \X Columns), NEW depth \in Nat, NEW t, TrailSound(t, g, depth),
         Len(t) > 1, Spent(t, g, depth)
  PROVE  /\ TrailSound(Shrunk(t), g, depth)
         /\ \A r \in RoutesFrom(Source, g, depth) : Behind(Shrunk(t), r) <=> Behind(t, r)
<1> DEFINE n == Len(t)
           u == Shrunk(t)
           m == n - 1
<1>1. n \in Nat /\ n \in 1..n /\ \A i \in 1..n : t[i] \in TrailRecord /\ t[i].at \in Columns
  BY TrailFacts
<1>2. /\ n <= depth + 1 /\ t[1].at = Source
      /\ \A i \in 1..n : t[i].at # Target
      /\ \A i, j \in 1..n : i # j => t[i].at # t[j].at
      /\ \A i \in 1..n - 1 : <<t[i].at, t[i + 1].at>> \in g /\ t[i + 1].at \in t[i].tried
  BY DEF TrailSound
<1>3. n > 1 /\ u = SubSeq(t, 1, m)
      /\ (n <= depth => \A d \in Columns : <<t[n].at, d>> \in g => d \in t[n].tried \/ \E i \in 1..n : t[i].at = d)
  BY DEF Spent, Shrunk
<1>4. m \in Nat /\ m # 0 /\ n = m + 1 /\ m \in 1..m /\ m < n
  BY <1>1, <1>3
<1>5. \A i \in 1..n - 1 : i \in 1..m
  OBVIOUS
<1>6. \A i \in 1..m : i \in 1..n - 1
  OBVIOUS
<1> HIDE DEF n, m, u
<1>7. \A i \in 1..m : i \in 1..n
  BY <1>4
<1>8. u \in Seq(TrailRecord) /\ Len(u) = m /\ \A i \in 1..m : u[i] = t[i]
  <2>1. \A i \in 1..m : t[i] \in TrailRecord
    BY <1>1, <1>7
  <2>2. 1 \in Int /\ m \in Int /\ 1 <= m /\ m - 1 + 1 = m
    BY <1>4
  <2>3. SubSeq(t, 1, m) \in Seq(TrailRecord) /\ Len(SubSeq(t, 1, m)) = IF 1 <= m THEN m - 1 + 1 ELSE 0
    BY <2>1, <2>2, SubSeqProperties
  <2>4. \A i \in 1..m - 1 + 1 : SubSeq(t, 1, m)[i] = t[1 + i - 1]
    BY <2>1, <2>2, SubSeqProperties
  <2>5. \A i \in 1..m : SubSeq(t, 1, m)[i] = t[i]
    <3> SUFFICES ASSUME NEW i \in 1..m PROVE SubSeq(t, 1, m)[i] = t[i]
      OBVIOUS
    <3>1. i \in 1..m - 1 + 1 /\ 1 + i - 1 = i
      BY <1>4
    <3> QED BY <2>4, <3>1
  <2> QED BY <1>3, <2>2, <2>3, <2>5
<1>9. TrailSound(u, g, depth)
  <2>1. u[1].at = Source /\ m # 0 /\ m <= depth + 1
    <3>1. 1 \in 1..m
      BY <1>4
    <3> QED BY <1>2, <1>4, <1>8, <3>1
  <2>2. \A i \in 1..m : u[i].at # Target
    BY <1>2, <1>7, <1>8
  <2>3. \A i, j \in 1..m : i # j => u[i].at # u[j].at
    BY <1>2, <1>7, <1>8
  <2>4. \A i \in 1..m - 1 : <<u[i].at, u[i + 1].at>> \in g /\ u[i + 1].at \in u[i].tried
    <3> SUFFICES ASSUME NEW i \in 1..m - 1 PROVE <<u[i].at, u[i + 1].at>> \in g /\ u[i + 1].at \in u[i].tried
      OBVIOUS
    <3>1. i \in 1..m /\ i + 1 \in 1..m /\ i \in 1..n - 1
      BY <1>4
    <3> QED BY <1>2, <1>8, <3>1
  <2> QED BY <1>8, <2>1, <2>2, <2>3, <2>4 DEF TrailSound
<1>10. ASSUME NEW r \in RoutesFrom(Source, g, depth)
       PROVE  Behind(u, r) <=> Behind(t, r)
  <2>1. /\ Len(r) \in Nat /\ 2 <= Len(r) /\ Len(r) <= depth + 1 /\ r \in [1..Len(r) -> Columns] /\ r[Len(r)] = Target
        /\ \A i, j \in 1..Len(r) : i # j => r[i] # r[j]
    BY RouteFacts
  <2>2. \A i \in 1..Len(r) - 1 : <<r[i], r[i + 1]>> \in g
    BY RouteFacts
  <2>3. \A i \in 1..m : (\A j \in 1..i : r[j] = u[j].at) <=> (\A j \in 1..i : r[j] = t[j].at)
    <3> SUFFICES ASSUME NEW i \in 1..m, NEW j \in 1..i PROVE u[j].at = t[j].at
      BY Zenon
    <3>1. j \in 1..m
      BY <1>4
    <3> QED BY <1>8, <3>1
  <2>4. ASSUME NEW i \in 1..m, i # m PROVE PartsAt(u, r, i) <=> PartsAt(t, r, i)
    <3>1. u[i] = t[i] /\ u[i + 1] = t[i + 1] /\ i # Len(u) /\ i # Len(t)
      <4>1. i + 1 \in 1..m /\ i # n
        BY <1>4, <2>4
      <4> QED BY <1>8, <2>4, <4>1 DEF n
    <3>2. (\A j \in 1..i : r[j] = u[j].at) <=> (\A j \in 1..i : r[j] = t[j].at)
      BY <2>3
    <3> QED BY <3>1, <3>2 DEF PartsAt
  <2> DEFINE Follows(k) == \A j \in 1..k : r[j] = t[j].at
  <2>5. PartsAt(u, r, m) <=> m < Len(r) /\ Follows(m) /\ r[m + 1] \in t[m].tried
    <3>1. u[m] = t[m] /\ m = Len(u)
      BY <1>4, <1>8
    <3>2. (\A j \in 1..m : r[j] = u[j].at) <=> (\A j \in 1..m : r[j] = t[j].at)
      BY <1>4, <2>3
    <3> QED BY <3>1, <3>2 DEF PartsAt
  <2>6. PartsAt(t, r, m) <=> m < Len(r) /\ Follows(m) /\ r[m + 1] \in t[m].tried /\ r[n] # t[n].at
    <3>1. m # Len(t) /\ m + 1 = n
      BY <1>4 DEF n
    <3> QED BY <3>1 DEF PartsAt
  <2>7. PartsAt(t, r, n) <=> n < Len(r) /\ Follows(n) /\ r[n + 1] \in t[n].tried
    BY DEF PartsAt, n
  <2>8. Follows(n) <=> Follows(m) /\ r[n] = t[n].at
    <3>1. \A j \in 1..n : j \in 1..m \/ j = n
      BY <1>4
    <3> QED BY <1>1, <1>7, <3>1
  <2>9. t[n].at \in t[m].tried
    BY <1>2, <1>4, <1>6
  <2>10. ASSUME m < Len(r), Follows(n) PROVE n < Len(r) /\ r[n + 1] \in t[n].tried
    <3>1. n \in 1..Len(r) /\ r[n] = t[n].at
      BY <1>1, <1>4, <2>1, <2>10
    <3>2. n # Len(r)
      BY <1>1, <1>2, <2>1, <3>1
    <3>3. n < Len(r) /\ n + 1 \in 1..Len(r) /\ n \in 1..Len(r) - 1 /\ n <= depth
      <4> DEFINE l == Len(r)
      <4>1. l \in Nat /\ l <= depth + 1 /\ n \in 1..l /\ n # l
        BY <2>1, <3>1, <3>2
      <4> HIDE DEF l
      <4>2. n < l /\ n + 1 \in 1..l /\ n \in 1..l - 1 /\ n <= depth
        BY <1>1, <4>1
      <4> QED BY <4>2 DEF l
    <3>4. <<t[n].at, r[n + 1]>> \in g /\ r[n + 1] \in Columns
      BY <2>1, <2>2, <3>1, <3>3
    <3>5. ASSUME NEW i \in 1..n, t[i].at = r[n + 1] PROVE FALSE
      <4>1. i \in 1..Len(r) /\ i # n + 1 /\ r[i] = r[n + 1]
        BY <1>1, <2>10, <3>3, <3>5
      <4> QED BY <2>1, <3>3, <4>1
    <3> QED BY <1>3, <3>3, <3>4, <3>5
  <2> HIDE DEF Follows
  <2>11. PartsAt(u, r, m) <=> PartsAt(t, r, m) \/ PartsAt(t, r, n)
    <3>1. n < Len(r) => m < Len(r)
      BY <1>4, <2>1
    <3>2. r[m + 1] = r[n]
      BY <1>4
    <3> QED BY <2>5, <2>6, <2>7, <2>8, <2>9, <2>10, <3>1, <3>2
  <2>12. Behind(u, r) <=> \E i \in 1..m : PartsAt(u, r, i)
    BY <1>8 DEF Behind
  <2>13. Behind(t, r) <=> \E i \in 1..n : PartsAt(t, r, i)
    BY DEF Behind, n
  <2>14. \A i \in 1..n : i \in 1..m \/ i = n
    BY <1>4
  <2> QED BY <1>1, <1>4, <1>7, <2>4, <2>11, <2>12, <2>13, <2>14
<1> QED BY <1>9, <1>10 DEF u

\* The limits of a query.
LEMMA LimitIs ==
  ASSUME GraphTypeOK
  PROVE  search.limit \in Nat /\ search.depth \in Nat /\ hops \in SUBSET (Columns \X Columns)
<1>1. search.limit \in PathLimits \union {0}
  BY DEF GraphTypeOK
<1>2. \A n \in PathLimits \union {0} : n \in Nat
  BY ColumnGraphAssumption
<1> QED BY <1>1, <1>2, DepthIs, KeptAre, HopsAre

\* The paths of a query are finitely many, and have columns only.
LEMMA PathsAre ==
  ASSUME GraphTypeOK, PathsSound
  PROVE  IsFiniteSet(paths) /\ Cardinality(paths) \in Nat
<1> DEFINE all == RoutesFrom(Source, hops, search.depth)
<1>1. IsFiniteSet(all)
  BY LimitIs, RoutesAreFinite
<1>2. paths \in SUBSET all
  BY DEF PathsSound
<1> HIDE DEF all
<1> QED BY <1>1, <1>2, FS_Subset, FS_CardinalityType

\* Routes go through columns.
LEMMA ColumnsOfRoutes ==
  ASSUME NEW g, NEW depth \in Nat
  PROVE  \A p \in RoutesFrom(Source, g, depth) : \A i \in DOMAIN p : p[i] \in Columns
<1> SUFFICES ASSUME NEW p \in RoutesFrom(Source, g, depth) PROVE \A i \in DOMAIN p : p[i] \in Columns
  OBVIOUS
<1>1. p \in [1..Len(p) -> Columns]
  BY RouteFacts
<1> QED BY <1>1

\* Paths are asked for.
LEMMA PathsAsked ==
  ASSUME GraphTypeOK, search = NoSearch, paths = {},
         NEW g \in SUBSET HopPairs, NEW depth \in Depths, NEW limit \in PathLimits,
         AskPaths(g, depth, limit)
  PROVE  GraphTypeOK' /\ search'.what = "paths" /\ PathsSound'
<1> DEFINE none == ~(HasNode(Source)' /\ HasNode(Target)')
           over == none \/ depth = 0 \/ limit = 0
           t == <<[at |-> Source, tried |-> {Source}]>>
<1>1. /\ hops' = g
      /\ search' = [NoSearch EXCEPT !.what = "paths", !.depth = depth, !.limit = limit, !.done = over]
      /\ trail' = t
      /\ UNCHANGED <<reached, frontier, level, paths, collected, answer>>
  BY Zenon DEF AskPaths
<1>2. over \in BOOLEAN
  OBVIOUS
<1>3. over <=> ~(HasNode(Source)' /\ HasNode(Target)') \/ depth = 0 \/ limit = 0
  OBVIOUS
<1> HIDE DEF none, over, t
<1>4. /\ search'.what = "paths" /\ search'.depth = depth /\ search'.limit = limit /\ search'.done = over
      /\ search' \in [what : {"none", "shortest", "paths", "backtrack"},
                      depth : Depths \union {0}, limit : PathLimits \union {0},
                      filter : Filters, done : BOOLEAN]
  BY <1>1, <1>2 DEF NoSearch, Filters
<1>5. depth \in Nat /\ limit \in Nat
  BY ColumnGraphAssumption
<1>6. TrailSound(t, g, depth) /\ \A r \in RoutesFrom(Source, g, depth) : ~Behind(t, r)
  BY <1>5, FirstTrail DEF t
<1>7. \A i \in DOMAIN trail' : trail'[i] \in [at : Columns, tried : SUBSET Columns]
  BY <1>1, <1>6, TrailFacts DEF TrailRecord
<1>8. GraphTypeOK'
  BY <1>1, <1>4, <1>7 DEF GraphTypeOK
<1>9. PathsSound'
  <2>1. TrailSound(trail', hops', search'.depth)
    BY <1>1, <1>4, <1>6
  <2>2. paths' = {r \in RoutesFrom(Source, hops', search'.depth) : Behind(trail', r)}
    BY <1>1, <1>4, <1>6
  <2>3. Cardinality(paths') = 0
    BY <1>1, FS_EmptySet
  <2>4. search'.done => ~(HasNode(Source)' /\ HasNode(Target)') \/ search'.depth = 0 \/ search'.limit = 0
    BY <1>3, <1>4
  <2>5. Cardinality(paths') <= search'.limit /\ (search'.limit = 0 => Cardinality(paths') >= search'.limit)
    BY <1>4, <1>5, <2>3
  <2> QED BY <2>1, <2>2, <2>4, <2>5 DEF PathsSound
<1> QED BY <1>4, <1>8, <1>9

\* The next column is tried.
LEMMA NextIsTried ==
  ASSUME GraphTypeOK, PathsSound, TryNext
  PROVE  GraphTypeOK' /\ search'.what = "paths" /\ PathsSound'
<1> DEFINE n == Len(trail)
           all == RoutesFrom(Source, hops, search.depth)
<1>1. /\ search.what = "paths" /\ ~search.done /\ Cardinality(paths) < search.limit
      /\ UNCHANGED <<hops, search, reached, frontier, level, collected, answer>>
  BY DEF TryNext, Searching
<1>2. PICK d \in Untried :
        LET here == [Here EXCEPT !.tried = @ \union {d}]
            top == [trail EXCEPT ![Len(trail)] = here]
        IN  IF d = Target
            THEN /\ paths' = paths \union {[i \in 1..Len(trail) + 1 |-> IF i > Len(trail) THEN d ELSE trail[i].at]}
                 /\ trail' = top
            ELSE /\ trail' = Append(top, [at |-> d, tried |-> {}])
                 /\ UNCHANGED paths
  BY Zenon DEF TryNext
<1>3. /\ d = Target => /\ paths' = paths \union {[i \in 1..Len(trail) + 1 |-> IF i > Len(trail) THEN d ELSE trail[i].at]}
                       /\ trail' = Tried(trail, d)
      /\ d # Target => trail' = Append(Tried(trail, d), [at |-> d, tried |-> {}]) /\ paths' = paths
  BY <1>2, Zenon DEF Tried, Here
<1>4. hops \in SUBSET (Columns \X Columns) /\ search.depth \in Nat /\ search.limit \in Nat
  BY LimitIs
<1>5. TrailSound(trail, hops, search.depth) /\ paths = {r \in all : Behind(trail, r)}
  BY DEF PathsSound
<1>6. n \in Nat /\ DOMAIN trail = 1..n /\ n \in 1..n
  BY <1>5, TrailFacts
<1>7. n <= search.depth /\ d \in Columns /\ MayTry(trail, hops, d)
  <2>1. ~(n > search.depth) /\ d \in Down(trail[n].at) \ (trail[n].tried \union OnTrail)
    BY <1>2 DEF Untried, Here
  <2> HIDE DEF n
  <2>2. n <= search.depth
    BY <1>4, <1>6, <2>1
  <2>3. \A i \in 1..n : trail[i].at # d
    BY <1>6, <2>1 DEF OnTrail
  <2> QED BY <2>1, <2>2, <2>3 DEF Down, MayTry, n
<1>8. IsFiniteSet(paths) /\ Cardinality(paths) \in Nat
  BY PathsAre
<1>9. \A p \in all : \A i \in DOMAIN p : p[i] \in Columns
  BY <1>4, ColumnsOfRoutes
<1>10. /\ TrailSound(trail', hops, search.depth) /\ paths' = {r \in all : Behind(trail', r)}
       /\ Cardinality(paths') <= search.limit
  <2>1. CASE d = Target
    <3> DEFINE p == PathBy(trail)
    <3>1. paths' = paths \union {p} /\ trail' = Tried(trail, Target)
      BY <1>3, <2>1 DEF PathBy
    <3>2. MayTry(trail, hops, Target) /\ n <= search.depth
      BY <1>7, <2>1
    <3>3. p \in all
      BY <1>4, <1>5, <3>2, TargetFound
    <3>4. \A r \in all : Behind(Tried(trail, Target), r) <=> Behind(trail, r) \/ r = p
      <4>1. \A r \in RoutesFrom(Source, hops, search.depth) :
               Behind(Tried(trail, Target), r) <=> Behind(trail, r) \/ r = PathBy(trail)
        BY <1>4, <1>5, <3>2, TargetFound
      <4> QED BY <4>1
    <3> HIDE DEF p, all
    <3>5. TrailSound(trail', hops, search.depth)
      BY <1>5, <1>7, <2>1, <3>1, TriedIs
    <3>6. paths' = {r \in all : Behind(trail', r)}
      BY <1>5, <3>1, <3>3, <3>4
    <3>7. Cardinality(paths') <= search.limit
      <4>1. Cardinality(paths \union {p}) = IF p \in paths THEN Cardinality(paths) ELSE Cardinality(paths) + 1
        BY <1>8, FS_AddElement
      <4> QED BY <1>1, <1>4, <1>8, <3>1, <4>1
    <3> QED BY <3>5, <3>6, <3>7
  <2>2. CASE d # Target
    <3> DEFINE u == Grown(trail, d)
    <3>1. trail' = u /\ paths' = paths
      BY <1>3, <2>2 DEF Grown
    <3>2. TrailSound(u, hops, search.depth)
      BY <1>4, <1>5, <1>7, <2>2, TrailGrows
    <3>3. \A r \in all : Behind(u, r) <=> Behind(trail, r)
      BY <1>4, <1>5, <1>7, <2>2, TrailGrows
    <3> HIDE DEF u, all
    <3>4. paths' = {r \in all : Behind(trail', r)}
      BY <1>5, <3>1, <3>3
    <3>5. Cardinality(paths') <= search.limit
      BY <1>1, <1>4, <1>8, <3>1
    <3> QED BY <3>1, <3>2, <3>4, <3>5
  <2> QED BY <2>1, <2>2
<1>11. \A i \in DOMAIN trail' : trail'[i] \in [at : Columns, tried : SUBSET Columns]
  BY <1>10, TrailFacts DEF TrailRecord
<1>12. GraphTypeOK'
  BY <1>1, <1>9, <1>10, <1>11 DEF GraphTypeOK
<1>13. PathsSound'
  BY <1>1, <1>10 DEF PathsSound
<1> QED BY <1>1, <1>12, <1>13

\* What is left to try at the end of the stack.
LEMMA NothingUntried ==
  ASSUME GraphTypeOK, PathsSound, Untried = {}
  PROVE  Spent(trail, hops, search.depth)
<1>1. TrailSound(trail, hops, search.depth) /\ search.depth \in Nat
  BY LimitIs DEF PathsSound
<1>2. Len(trail) \in Nat /\ DOMAIN trail = 1..Len(trail)
  BY <1>1, TrailFacts
<1> SUFFICES ASSUME Len(trail) <= search.depth, NEW d \in Columns, <<trail[Len(trail)].at, d>> \in hops
    PROVE  d \in trail[Len(trail)].tried \/ \E i \in 1..Len(trail) : trail[i].at = d
  BY DEF Spent
<1>3. ~(Len(trail) > search.depth)
  BY <1>1, <1>2
<1>4. d \notin Down(Here.at) \ (Here.tried \union OnTrail)
  BY <1>3 DEF Untried
<1>5. d \in trail[Len(trail)].tried \/ d \in OnTrail
  BY <1>4 DEF Down, Here
<1> QED BY <1>2, <1>5 DEF OnTrail

\* The last column of the stack is left.
LEMMA ColumnLeft ==
  ASSUME GraphTypeOK, PathsSound, LeaveColumn
  PROVE  GraphTypeOK' /\ search'.what = "paths" /\ PathsSound'
<1> DEFINE all == RoutesFrom(Source, hops, search.depth)
           u == Shrunk(trail)
<1>1. /\ search.what = "paths" /\ ~search.done /\ Len(trail) > 1 /\ Untried = {} /\ trail' = u
      /\ UNCHANGED <<hops, search, reached, frontier, level, paths, collected, answer>>
  BY DEF LeaveColumn, Searching, Shrunk
<1>2. hops \in SUBSET (Columns \X Columns) /\ search.depth \in Nat
  BY LimitIs
<1>3. /\ TrailSound(trail, hops, search.depth) /\ paths = {r \in all : Behind(trail, r)}
      /\ Cardinality(paths) <= search.limit
  BY DEF PathsSound
<1>4. Spent(trail, hops, search.depth)
  BY <1>1, NothingUntried
<1>5. TrailSound(u, hops, search.depth)
  BY <1>1, <1>2, <1>3, <1>4, TrailShrinks
<1>6. \A r \in all : Behind(u, r) <=> Behind(trail, r)
  BY <1>1, <1>2, <1>3, <1>4, TrailShrinks
<1> HIDE DEF u, all
<1>7. \A i \in DOMAIN trail' : trail'[i] \in [at : Columns, tried : SUBSET Columns]
  BY <1>1, <1>5, TrailFacts DEF TrailRecord
<1>8. GraphTypeOK'
  BY <1>1, <1>7 DEF GraphTypeOK
<1>9. paths = {r \in all : Behind(u, r)}
  BY <1>3, <1>6
<1>10. PathsSound'
  BY <1>1, <1>3, <1>5, <1>9 DEF PathsSound, all
<1> QED BY <1>1, <1>8, <1>10

\* The search has its paths, or nothing left to try.
LEMMA PathsAreFound ==
  ASSUME GraphTypeOK, PathsSound, PathsFound
  PROVE  GraphTypeOK' /\ search'.what = "paths" /\ PathsSound'
<1>1. /\ Cardinality(paths) >= search.limit \/ (Len(trail) = 1 /\ Untried = {})
      /\ search.what = "paths" /\ search' = [search EXCEPT !.done = TRUE]
      /\ UNCHANGED <<hops, reached, frontier, level, trail, paths, collected, answer>>
  BY DEF PathsFound
<1>2. /\ search' \in [what : {"none", "shortest", "paths", "backtrack"},
                      depth : Depths \union {0}, limit : PathLimits \union {0},
                      filter : Filters, done : BOOLEAN]
      /\ search'.what = "paths" /\ search'.depth = search.depth /\ search'.limit = search.limit
  BY <1>1 DEF GraphTypeOK
<1>3. GraphTypeOK'
  BY <1>1, <1>2 DEF GraphTypeOK
<1>4. Untried' = Untried
  BY <1>1, <1>2 DEF Untried, Down, Here, OnTrail
<1>5. PathsSound'
  BY <1>1, <1>2, <1>4 DEF PathsSound
<1> QED BY <1>2, <1>3, <1>5

\* What a search for paths that is over has found.
LEMMA PathsAreRight ==
  ASSUME GraphTypeOK, PathsSound
  PROVE  PathsAreAll
<1> DEFINE all == RoutesFrom(Source, hops, search.depth)
<1> SUFFICES ASSUME search.what = "paths", search.done
    PROVE  IF search.limit = 0 \/ search.depth = 0 THEN paths = {}
           ELSE /\ paths \subseteq all
                /\ Cardinality(paths) = IF Cardinality(all) < search.limit
                                        THEN Cardinality(all) ELSE search.limit
  BY DEF PathsAreAll
<1>1. /\ TrailSound(trail, hops, search.depth) /\ paths = {r \in all : Behind(trail, r)}
      /\ Cardinality(paths) <= search.limit
      /\ \/ ~(HasNode(Source) /\ HasNode(Target)) \/ search.depth = 0
         \/ Cardinality(paths) >= search.limit
         \/ Len(trail) = 1 /\ Untried = {}
  BY DEF PathsSound
<1>2. hops \in SUBSET (Columns \X Columns) /\ search.depth \in Nat /\ search.limit \in Nat
  BY LimitIs
<1>3. IsFiniteSet(all) /\ Cardinality(all) \in Nat
  BY <1>2, RoutesAreFinite
<1>4. IsFiniteSet(paths) /\ Cardinality(paths) \in Nat /\ paths \in SUBSET all
  BY <1>1, PathsAre
<1>5. Cardinality(paths) <= Cardinality(all)
  <2> HIDE DEF all
  <2> QED BY <1>3, <1>4, FS_Subset
<1>6. CASE search.limit = 0
  <2>1. Cardinality(paths) = 0
    BY <1>1, <1>4, <1>6
  <2>2. paths = {}
    BY <1>4, <2>1, FS_EmptySet
  <2> QED BY <1>6, <2>2
<1>7. CASE search.depth = 0
  <2>1. ASSUME NEW r \in all PROVE FALSE
    <3>1. Len(r) \in Nat /\ 2 <= Len(r) /\ Len(r) <= search.depth + 1
      BY <1>2, RouteFacts
    <3> QED BY <1>7, <3>1
  <2> QED BY <1>4, <1>7, <2>1
<1>8. CASE search.limit # 0 /\ search.depth # 0
  <2>1. CASE Cardinality(paths) >= search.limit
    <3>1. Cardinality(paths) = search.limit /\ ~(Cardinality(all) < search.limit)
      BY <1>1, <1>2, <1>3, <1>4, <1>5, <2>1
    <3> QED BY <1>4, <1>8, <3>1
  <2>2. CASE paths = all
    <3>1. Cardinality(all) <= search.limit
      BY <1>1, <2>2
    <3>2. Cardinality(all) = IF Cardinality(all) < search.limit THEN Cardinality(all) ELSE search.limit
      <4> HIDE DEF all
      <4> QED BY <1>2, <1>3, <3>1
    <3>3. Cardinality(paths) = IF Cardinality(all) < search.limit THEN Cardinality(all) ELSE search.limit
      BY <2>2, <3>2
    <3> QED BY <1>4, <1>8, <3>3
  <2>3. ASSUME ~(HasNode(Source) /\ HasNode(Target)) PROVE paths = all
    <3>1. ASSUME NEW r \in all PROVE FALSE
      <4>1. Way(Source, hops, Len(r) - 1) /\ Len(r) - 1 \in 1..search.depth
        BY <1>2, RouteIsWay
      <4> DEFINE k == Len(r) - 1
      <4>2. k \in Nat /\ Way(Source, hops, k)
        BY <1>2, <4>1
      <4> HIDE DEF k
      <4>3. (\E d \in Columns : <<Source, d>> \in hops) /\ \E d \in Columns : <<d, Target>> \in hops
        BY <1>2, <4>2, EndsOfWay
      <4> QED BY <2>3, <4>3 DEF HasNode, Down, Up
    <3> QED BY <1>4, <3>1
  <2>4. ASSUME Len(trail) = 1, Untried = {} PROVE paths = all
    <3>1. ASSUME NEW r \in all PROVE Behind(trail, r)
      <4>1. /\ Len(r) \in Nat /\ 2 <= Len(r) /\ r \in [1..Len(r) -> Columns] /\ r[1] = Source
            /\ \A i, j \in 1..Len(r) : i # j => r[i] # r[j]
        BY <1>2, RouteFacts
      <4>2. \A i \in 1..Len(r) - 1 : <<r[i], r[i + 1]>> \in hops
        BY <1>2, RouteFacts
      <4>3. 1 \in 1..Len(r) - 1 /\ 1 \in 1..Len(r) /\ 1 + 1 \in 1..Len(r) /\ 1 # 1 + 1
        BY <4>1
      <4>4. trail[1].at = Source
        BY <1>1 DEF TrailSound
      <4>5. <<trail[1].at, r[1 + 1]>> \in hops /\ r[1 + 1] \in Columns /\ r[1 + 1] # Source
        BY <4>1, <4>2, <4>3, <4>4
      <4>6. 1 <= search.depth
        BY <1>2, <1>8
      <4>7. r[1 + 1] \in trail[1].tried \/ \E i \in 1..1 : trail[i].at = r[1 + 1]
        BY <2>4, <4>5, <4>6, NothingUntried DEF Spent
      <4>8. \A i \in 1..1 : i = 1
        OBVIOUS
      <4>9. r[1 + 1] \in trail[1].tried
        BY <4>4, <4>5, <4>7, <4>8
      <4>10. PartsAt(trail, r, 1)
        BY <2>4, <4>1, <4>4, <4>8, <4>9 DEF PartsAt
      <4>11. 1 \in 1..Len(trail)
        BY <2>4
      <4> QED BY <4>10, <4>11 DEF Behind
    <3> QED BY <1>1, <3>1
  <2> QED BY <1>1, <1>8, <2>1, <2>2, <2>3, <2>4
<1> QED BY <1>6, <1>7, <1>8

\* The inductive invariant: what each query has established so far.
ColumnGraphSound ==
    /\ GraphTypeOK
    /\ search.what = "none" =>
          search = NoSearch /\ level = [s \in Sides |-> 0] /\ paths = {} /\ collected = {}
    /\ search.what = "shortest" => ShortestSound
    /\ search.what = "paths" => PathsSound
    /\ search.what = "backtrack" => BacktrackSound

\* No query is under way at first.
LEMMA ColumnGraphStarts == GraphInit => ColumnGraphSound
<1> SUFFICES ASSUME GraphInit PROVE ColumnGraphSound
  OBVIOUS
<1>1. /\ hops = {} /\ search = NoSearch /\ reached = Nowhere /\ frontier = [s \in Sides |-> {}]
      /\ level = [s \in Sides |-> 0] /\ trail = << >> /\ paths = {} /\ collected = {} /\ answer = 0
  BY DEF GraphInit
<1>2. /\ search.what = "none"
      /\ search \in [what : {"none", "shortest", "paths", "backtrack"},
                     depth : Depths \union {0}, limit : PathLimits \union {0},
                     filter : Filters, done : BOOLEAN]
  BY <1>1 DEF NoSearch, Filters
<1>3. reached \in [Sides -> [Columns -> 0..Unreached]]
  BY <1>1, UnreachedIs DEF Nowhere
<1>4. level \in [Sides -> 0..Unreached] /\ answer \in 0..Unreached /\ frontier \in [Sides -> SUBSET Columns]
  BY <1>1, UnreachedIs
<1>5. \A i \in DOMAIN trail : trail[i] \in [at : Columns, tried : SUBSET Columns]
  BY <1>1
<1>6. GraphTypeOK
  BY <1>1, <1>2, <1>3, <1>4, <1>5 DEF GraphTypeOK
<1> QED BY <1>1, <1>2, <1>6 DEF ColumnGraphSound

\* Every step of a query keeps the invariant.
LEMMA ColumnGraphMoves ==
  ASSUME ColumnGraphSound, GraphNext
  PROVE  ColumnGraphSound'
<1>1. ASSUME search = NoSearch
      PROVE  GraphTypeOK /\ level = [s \in Sides |-> 0] /\ paths = {} /\ collected = {}
  BY <1>1 DEF ColumnGraphSound, NoSearch
<1>2. ASSUME search = NoSearch, NEW g \in SUBSET HopPairs, NEW d \in Depths, AskShortest(g, d)
      PROVE  ColumnGraphSound'
  BY <1>1, <1>2, ShortestAsked DEF ColumnGraphSound
<1>3. ASSUME search = NoSearch, NEW g \in SUBSET HopPairs, NEW d \in Depths, NEW n \in PathLimits, AskPaths(g, d, n)
      PROVE  ColumnGraphSound'
  BY <1>1, <1>3, PathsAsked DEF ColumnGraphSound
<1>4. ASSUME search = NoSearch, NEW g \in SUBSET HopPairs, NEW d \in Depths, NEW f \in Filters, AskBacktrack(g, d, f)
      PROVE  ColumnGraphSound'
  BY <1>1, <1>4, BacktrackAsked DEF ColumnGraphSound
<1>5. CASE ExpandLevel
  <2>1. search.what = "shortest" /\ ~search.done
    BY <1>5 DEF ExpandLevel
  <2> QED BY <1>5, <2>1, LevelExpanded DEF ColumnGraphSound
<1>6. CASE NoMeeting
  <2>1. search.what = "shortest" /\ ~search.done
    BY <1>6 DEF NoMeeting
  <2> QED BY <1>6, <2>1, SidesApart DEF ColumnGraphSound
<1>7. CASE TryNext
  <2>1. search.what = "paths"
    BY <1>7 DEF TryNext, Searching
  <2> QED BY <1>7, <2>1, NextIsTried DEF ColumnGraphSound
<1>8. CASE LeaveColumn
  <2>1. search.what = "paths"
    BY <1>8 DEF LeaveColumn, Searching
  <2> QED BY <1>8, <2>1, ColumnLeft DEF ColumnGraphSound
<1>9. CASE PathsFound
  <2>1. search.what = "paths"
    BY <1>9 DEF PathsFound
  <2> QED BY <1>9, <2>1, PathsAreFound DEF ColumnGraphSound
<1>10. CASE BacktrackLevel
  <2>1. search.what = "backtrack"
    BY <1>10 DEF BacktrackLevel
  <2> QED BY <1>10, <2>1, BacktrackGoesOn DEF ColumnGraphSound
<1>11. CASE BacktrackEnds
  <2>1. search.what = "backtrack"
    BY <1>11 DEF BacktrackEnds
  <2> QED BY <1>11, <2>1, BacktrackIsOver DEF ColumnGraphSound
<1> QED BY <1>2, <1>3, <1>4, <1>5, <1>6, <1>7, <1>8, <1>9, <1>10, <1>11 DEF GraphNext

\* So it holds of every behaviour.
LEMMA ColumnGraphStaysSound == GraphSpec => []ColumnGraphSound
<1>1. ColumnGraphSound /\ UNCHANGED graphVars => ColumnGraphSound'
  <2> SUFFICES ASSUME ColumnGraphSound, UNCHANGED graphVars PROVE ColumnGraphSound'
    OBVIOUS
  <2>1. UNCHANGED <<hops, search, reached, frontier, level, trail, paths, collected, answer>>
    BY DEF graphVars
  <2>2. GraphTypeOK'
    BY <2>1 DEF ColumnGraphSound, GraphTypeOK
  <2>3. ShortestSound => ShortestSound'
    BY <2>1 DEF ShortestSound
  <2>4. Untried' = Untried /\ HasNode(Source)' = HasNode(Source) /\ HasNode(Target)' = HasNode(Target)
    BY <2>1 DEF Untried, Down, Up, Here, OnTrail, HasNode
  <2>5. PathsSound => PathsSound'
    BY <2>1, <2>4 DEF PathsSound
  <2>6. KeptHops' = KeptHops
    BY <2>1 DEF KeptHops, Kept
  <2>7. BacktrackSound => BacktrackSound'
    BY <2>1, <2>4, <2>6 DEF BacktrackSound
  <2> QED BY <2>1, <2>2, <2>3, <2>5, <2>7 DEF ColumnGraphSound
<1>2. ColumnGraphSound /\ [GraphNext]_graphVars => ColumnGraphSound'
  BY <1>1, ColumnGraphMoves
<1> QED BY <1>2, ColumnGraphStarts, PTL DEF GraphSpec

\* The searches' state keeps its types: every level, distance and depth is within the number
\* of columns, for any columns, hops, depths and limits.
THEOREM ColumnGraphTypeCorrect == GraphSpec => []GraphTypeOK
<1>1. ColumnGraphSound => GraphTypeOK
  BY DEF ColumnGraphSound
<1> QED BY <1>1, ColumnGraphStaysSound, PTL

\* shortest_path, find_paths and backtrack_from_target return what their definitions ask
\* for: a shortest path whenever there is one within max_depth, all simple paths or max_paths
\* of them, and every column at its distance with the hops that lead there - on every graph,
\* at every depth and limit, with every filter.
THEOREM SearchesAgreeHolds == GraphSpec => []SearchesAgree
<1>1. ColumnGraphSound => SearchesAgree
  <2> SUFFICES ASSUME ColumnGraphSound PROVE SearchesAgree
    OBVIOUS
  <2>1. GraphTypeOK
    BY DEF ColumnGraphSound
  <2>2. ShortestIsShortest
    BY ShortestIsRight DEF ColumnGraphSound, ShortestIsShortest
  <2>3. PathsAreAll
    BY <2>1, PathsAreRight DEF ColumnGraphSound, PathsAreAll
  <2>4. BacktrackLevelsRight
    BY <2>1, BacktrackIsRight DEF ColumnGraphSound, BacktrackLevelsRight
  <2> QED BY <2>2, <2>3, <2>4 DEF SearchesAgree
<1> QED BY <1>1, ColumnGraphStaysSound, PTL

-----------------------------------------------------------------------------
(***************************************************************************)
(* The lineage of a SQL statement.                                         *)
(***************************************************************************)
\* The one of a set that has one.
LEMMA OnlyIs ==
  ASSUME NEW S, IsFiniteSet(S), Cardinality(S) = 1
  PROVE  S = {Only(S)}
<1>1. PICK x : S = {x}
  BY FS_Singleton
<1>2. (CHOOSE t \in S : TRUE) = x
  BY <1>1
<1> QED BY <1>1, <1>2 DEF Only

\* The tables of a statement, and the one of a bare column.
LEMMA OneTableOf ==
  ASSUME NEW s, SqlStatement(s), Cardinality(TablesOf(s)) = 1
  PROVE  s.from[CHOOSE a \in DOMAIN s.from : TRUE] = Only(TablesOf(s))
<1> DEFINE f == s.from
           S == TablesOf(s)
<1>1. S = {f[a] : a \in DOMAIN f} /\ IsFiniteSet(DOMAIN f)
  BY DEF TablesOf, SqlStatement
<1>2. IsFiniteSet(S)
  <2>1. IsFiniteSet({f[a] : a \in DOMAIN f})
    <3>1. [a \in DOMAIN f |-> f[a]] \in Surjection(DOMAIN f, {f[a] : a \in DOMAIN f})
      BY DEF Surjection
    <3> HIDE DEF f
    <3> QED BY <1>1, <3>1, FS_Surjection
  <2> QED BY <1>1, <2>1
<1> HIDE DEF S, f
<1>3. S = {Only(S)}
  BY <1>2, OnlyIs DEF S
<1>4. DOMAIN f # {}
  BY <1>1, <1>3
<1>5. (CHOOSE a \in DOMAIN f : TRUE) \in DOMAIN f
  BY <1>4
<1>6. ASSUME NEW a \in DOMAIN f PROVE f[a] \in S
  BY <1>1
<1>7. f[CHOOSE a \in DOMAIN f : TRUE] \in S
  BY <1>5, <1>6
<1> QED BY <1>3, <1>7 DEF S, f

\* A reference that is resolved is resolved to one of its base columns.
LEMMA SourceIsBase ==
  ASSUME NEW s, SqlStatement(s), NEW r, r.of # "", SqlSource(s, r)[1] # NoTable
  PROVE  SqlSource(s, r) \in SqlBase(s, r)
<1>1. CASE r.of \in DOMAIN s.ctes
  <2> DEFINE c == s.ctes[r.of]
  <2>1. SqlSource(s, r) = FromCte(c, r.col)
    BY <1>1 DEF SqlSource
  <2>2. r.col \in DOMAIN c.items
    <3> SUFFICES ASSUME r.col \notin DOMAIN c.items PROVE FALSE
      OBVIOUS
    <3>1. FromCte(c, r.col) = <<NoTable, r.col>>
      BY DEF FromCte
    <3>2. SqlSource(s, r)[1] = NoTable
      <4>1. SqlSource(s, r) = <<NoTable, r.col>>
        BY <2>1, <3>1
      <4> DEFINE col == r.col
      <4> HIDE DEF col
      <4>2. <<NoTable, col>>[1] = NoTable
        OBVIOUS
      <4> QED BY <4>1, <4>2 DEF col
    <3> QED BY <3>2
  <2>3. SqlSource(s, r) = <<c.table, c.items[r.col][1]>>
    BY <2>1, <2>2 DEF FromCte
  <2>4. 1 \in DOMAIN c.items[r.col]
    BY <1>1, <2>2 DEF SqlStatement
  <2>5. c.items[r.col][1] \in ToSet(c.items[r.col])
    BY <2>4 DEF ToSet
  <2>6. SqlBase(s, r) = {<<c.table, base>> : base \in ToSet(c.items[r.col])}
    BY <1>1 DEF SqlBase
  <2> QED BY <2>3, <2>5, <2>6
<1>2. CASE r.of \notin DOMAIN s.ctes
  <2>1. r.of \in DOMAIN s.from
    BY <1>2 DEF SqlSource
  <2>2. SqlSource(s, r) = <<s.from[r.of], r.col>>
    BY <1>2, <2>1 DEF SqlSource
  <2>3. SqlBase(s, r) = {<<s.from[r.of], r.col>>}
    BY <1>2 DEF SqlBase
  <2> QED BY <2>2, <2>3
<1> QED BY <1>1, <1>2

\* A bare column belongs to the only table.
LEMMA BareIsBase ==
  ASSUME NEW s, SqlStatement(s), NEW r, r.of = "", Only(TablesOf(s)) # NoTable \/ Cardinality(TablesOf(s)) = 1
  PROVE  SqlBase(s, r) = {<<Only(TablesOf(s)), r.col>>}
<1>1. Cardinality(TablesOf(s)) = 1
  BY DEF Only
<1>2. s.from[CHOOSE a \in DOMAIN s.from : TRUE] = Only(TablesOf(s))
  BY <1>1, OneTableOf
<1>3. r.of \notin DOMAIN s.ctes
  BY DEF SqlStatement
<1> QED BY <1>2, <1>3 DEF SqlBase

LEMMA SourcesAreBases ==
  ASSUME NEW s, SqlStatement(s), NEW o \in DOMAIN s.items, NEW e \in SqlSources(s, o), e[1] # NoTable
  PROVE  e \in SqlMakes(s, o)
<1>1. CASE s.ctes # << >> \/ Qualified(s, o) # {}
  <2>1. PICK r \in Qualified(s, o) : e = SqlSource(s, r)
    BY <1>1 DEF SqlSources
  <2>2. r \in ToSet(s.items[o]) /\ r.of # ""
    BY <2>1 DEF Qualified
  <2>3. e \in SqlBase(s, r)
    BY <2>1, <2>2, SourceIsBase
  <2> QED BY <2>2, <2>3 DEF SqlMakes
<1>2. CASE s.ctes = << >> /\ Qualified(s, o) = {}
  <2>1. PICK r \in ToSet(s.items[o]) : e = <<Only(TablesOf(s)), r.col>>
    BY <1>2 DEF SqlSources
  <2>2. r.of = ""
    BY <1>2, <2>1 DEF Qualified
  <2>3. e \in SqlBase(s, r)
    BY <2>1, <2>2, BareIsBase
  <2> QED BY <2>1, <2>3 DEF SqlMakes
<1> QED BY <1>1, <1>2

\* parse_sql_text: whatever the statement joins, nests in CTEs and leaves unqualified, an
\* edge that names a table is one that the statement makes.
THEOREM SqlEdgesAreTrue ==
  ASSUME NEW s, SqlStatement(s)
  PROVE  {e \in SqlEdges(s) : e[3] # NoTable} \subseteq SqlRan(s)
<1> SUFFICES ASSUME NEW x \in SqlEdges(s), x[3] # NoTable PROVE x \in SqlRan(s)
  OBVIOUS
<1>1. PICK o \in DOMAIN s.items : x \in {<<s.to, o, e[1], e[2]>> : e \in SqlSources(s, o)}
  BY DEF SqlEdges
<1>2. PICK e \in SqlSources(s, o) : x = <<s.to, o, e[1], e[2]>>
  BY <1>1
<1>3. e \in SqlMakes(s, o)
  BY <1>2, SourcesAreBases
<1>4. x \in {<<s.to, o, b[1], b[2]>> : b \in SqlMakes(s, o)}
  BY <1>2, <1>3
<1> QED BY <1>4 DEF SqlRan

\* The expressions whose text leaves no choice: all references name an alias, or a CTE's
\* column that is made of one, or all are bare and there is one table.
SqlClear(s, o) ==
    \/ \A r \in ToSet(s.items[o]) :
          \/ r.of \in DOMAIN s.from \ DOMAIN s.ctes
          \/ /\ r.of \in DOMAIN s.ctes /\ r.col \in DOMAIN s.ctes[r.of].items
             /\ ToSet(s.ctes[r.of].items[r.col]) = {s.ctes[r.of].items[r.col][1]}
    \/ /\ s.ctes = << >> /\ Cardinality(TablesOf(s)) = 1
       /\ \A r \in ToSet(s.items[o]) : r.of = ""

\* parse_sql_text: of such an expression nothing is missed, and nothing is left
\* unresolved.
THEOREM SqlEdgesAreAll ==
  ASSUME NEW s, SqlStatement(s), NEW o \in DOMAIN s.items, SqlClear(s, o)
  PROVE  SqlSources(s, o) = SqlMakes(s, o)
<1>1. CASE \A r \in ToSet(s.items[o]) :
             \/ r.of \in DOMAIN s.from \ DOMAIN s.ctes
             \/ /\ r.of \in DOMAIN s.ctes /\ r.col \in DOMAIN s.ctes[r.of].items
                /\ ToSet(s.ctes[r.of].items[r.col]) = {s.ctes[r.of].items[r.col][1]}
  <2>1. ASSUME NEW r \in ToSet(s.items[o]) PROVE r.of # "" /\ SqlBase(s, r) = {SqlSource(s, r)}
    <3>1. r.of # ""
      BY <1>1 DEF SqlStatement
    <3>2. CASE r.of \in DOMAIN s.from \ DOMAIN s.ctes
      BY <3>1, <3>2 DEF SqlBase, SqlSource
    <3>3. CASE /\ r.of \in DOMAIN s.ctes /\ r.col \in DOMAIN s.ctes[r.of].items
               /\ ToSet(s.ctes[r.of].items[r.col]) = {s.ctes[r.of].items[r.col][1]}
      <4> DEFINE c == s.ctes[r.of]
      <4>1. SqlSource(s, r) = <<c.table, c.items[r.col][1]>>
        BY <3>3 DEF SqlSource, FromCte
      <4>2. SqlBase(s, r) = {<<c.table, base>> : base \in ToSet(c.items[r.col])}
        BY <3>3 DEF SqlBase
      <4>3. ToSet(c.items[r.col]) = {c.items[r.col][1]}
        BY <3>3
      <4> HIDE DEF c
      <4> QED BY <3>1, <4>1, <4>2, <4>3
    <3> QED BY <1>1, <3>1, <3>2, <3>3
  <2>2. Qualified(s, o) = ToSet(s.items[o])
    BY <2>1 DEF Qualified
  <2>3. SqlMakes(s, o) = {SqlSource(s, r) : r \in ToSet(s.items[o])}
    BY <2>1 DEF SqlMakes
  <2>4. SqlSources(s, o) = {SqlSource(s, r) : r \in ToSet(s.items[o])}
    <3>1. CASE s.ctes # << >> \/ Qualified(s, o) # {}
      BY <2>2, <3>1 DEF SqlSources
    <3>2. CASE s.ctes = << >> /\ Qualified(s, o) = {}
      BY <2>2, <3>2 DEF SqlSources
    <3> QED BY <3>1, <3>2
  <2> QED BY <2>3, <2>4
<1>2. CASE /\ s.ctes = << >> /\ Cardinality(TablesOf(s)) = 1
           /\ \A r \in ToSet(s.items[o]) : r.of = ""
  <2>1. \A r \in ToSet(s.items[o]) : SqlBase(s, r) = {<<Only(TablesOf(s)), r.col>>}
    BY <1>2, BareIsBase
  <2>2. Qualified(s, o) = {}
    BY <1>2 DEF Qualified
  <2>3. SqlSources(s, o) = {<<Only(TablesOf(s)), r.col>> : r \in ToSet(s.items[o])}
    BY <1>2, <2>2 DEF SqlSources
  <2>4. SqlMakes(s, o) = {<<Only(TablesOf(s)), r.col>> : r \in ToSet(s.items[o])}
    BY <2>1 DEF SqlMakes
  <2> QED BY <2>3, <2>4
<1> QED BY <1>1, <1>2 DEF SqlClear

=============================================================================
