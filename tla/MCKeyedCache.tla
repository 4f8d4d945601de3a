----------------------------- MODULE MCKeyedCache -----------------------------
\* Model values for KeyedCache: two worker threads, and keys that stand for
\* all_tables (needs catalogs), catalogs, lineage (a trace too: also writes columns), columns.
EXTENDS KeyedCache, TLC

CONSTANTS r1, r2, n1, n2, allTables, catalogs, lineage, cols

MCNested == [f \in Requests |-> IF f = r1 THEN n1 ELSE n2]
\* The two threads are interchangeable, each with its own nested frame.
MCThreads ==
    {p \in Permutations(Frames) : \A f \in Requests : p[f] \in Requests /\ Nested[p[f]] = p[Nested[f]]}
\* What a state of KeyedCacheFresh.cfg is told by.  While every key fits in the registry no
\* lock leaves it; then who holds what follows from the calls' locations, and neither the
\* lock objects' names nor the order they were used in matters.  Of the histories, ages are
\* asked of no key once it is exempt, which it stays, unless the call is live, and a flush
\* at time 0 has nothing older before it.
MCSeen == [k \in Keys |-> IF Exempt(k) THEN 0 ELSE seen[k]]
MCFloor ==
    [f \in Frames |-> IF key[f] # None /\ ~live[f] /\ Exempt(key[f]) THEN 0 ELSE floor[f]]
MCFlush == IF flushedAt = 0 THEN <<>> ELSE <<straddled, fresh>>
MCWithoutRegistry ==
    <<now, cache, pc, key, live, result, sideVars, MCSeen, MCFloor, flushedAt, MCFlush>>
MCNeeds == [k \in Keys |-> IF k = allTables THEN catalogs ELSE None]
MCSide == [k \in Keys |-> IF k = lineage THEN cols ELSE None]
=============================================================================
