--------------------------- MODULE MCTransformCache ---------------------------
\* Model values for TransformCache: two worker threads, one trace and the edges
\* it needs.
EXTENDS TransformCache, TLC

CONSTANTS r1, r2, n1, n2, trace, edges

MCNested == [f \in Requests |-> IF f = r1 THEN n1 ELSE n2]
MCNeeds == [k \in Keys |-> IF k = trace THEN edges ELSE None]
MCSide == [k \in Keys |-> None]
\* The two threads are interchangeable, each with its own nested frame.
MCThreads ==
    {p \in Permutations(Frames) :
        \A f \in Requests : p[f] \in Requests /\ Nested[p[f]] = p[Nested[f]]}
=============================================================================
