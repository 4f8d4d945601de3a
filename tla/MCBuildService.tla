---------------------------- MODULE MCBuildService ----------------------------
(***************************************************************************)
(* Instances of BuildService for TLC, and what a comment of                  *)
(* build_service.py says where the model shows otherwise.                    *)
(***************************************************************************)
EXTENDS BuildService, TLC

\* Threads, run ids and tables are interchangeable (safety runs only).
Symmetry == Permutations(Threads) \union Permutations(Runs) \union Permutations(Tables)

\* build_service.py:294, "Per-table build lock prevents concurrent duplicate Jobs
\* for same FQN": of one process, no two executing jobs are for the same table.
NoDuplicateJobs ==
    \A r, s \in active : runTable[r] = runTable[s] => r = s
=============================================================================
