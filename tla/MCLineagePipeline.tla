-------------------------- MODULE MCLineagePipeline --------------------------
(***************************************************************************)
(* Two notebooks: load writes gold from raw; fan writes gold from silver, and   *)
(* has a mapping from raw whose output neither the parser nor system lineage      *)
(* can name.                                                                *)
(***************************************************************************)
EXTENDS LineagePipeline, TLC

CONSTANTS raw, silver, gold, load, fan

MCHops == {[art |-> load, src |-> raw, dst |-> gold],
           [art |-> fan, src |-> silver, dst |-> gold],
           [art |-> fan, src |-> raw, dst |-> None]}
MCDiscovers == [t \in Tables |-> CASE t = raw -> {load} [] t = silver -> {fan} [] OTHER -> {load, fan}]
MCEdits == [a \in Artifacts |-> IF a = fan THEN 1 ELSE 0]
MCRuns == Permutations(Runs)
=============================================================================
