------------------------------- MODULE Levels -------------------------------
(***************************************************************************)
(* The walk by levels: from a set of nodes along edges <<from, to>>, what   *)
(* one more level adds and what lies within a number of levels.  The layers *)
(* of the transformation panel are made of it, and it says which tables a   *)
(* lineage trace is to reach.                                              *)
(***************************************************************************)
EXTENDS Naturals

\* The edges E walked against their direction.
Backward(E) == {<<e[2], e[1]>> : e \in E}

\* Where the edges E lead from the nodes X.
NextNodes(E, X) == {e[2] : e \in {x \in E : x[1] \in X}}

\* The nodes at most n edges away from those of S.
WithinLevels(E, S, n) ==
    LET upTo[i \in 0..n] == IF i = 0 THEN S
                            ELSE upTo[i - 1] \union NextNodes(E, upTo[i - 1])
    IN  upTo[n]

=============================================================================
