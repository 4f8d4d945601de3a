------------------------ MODULE LineagePipeline_proofs ------------------------
(***************************************************************************)
(* Proofs about LineagePipeline: its types, and that the build job serves what   *)
(* it parsed and puts on record only what some run took up.  Runs, tables, code   *)
(* and hops are arbitrary, and so are the bounds.                             *)
(***************************************************************************)
EXTENDS LineagePipeline, TLAPS

\* A run under way has a table, and what it parses is what it extracted.
RunsTyped ==
    \A r \in Runs :
        /\ pc[r] # "idle" => table[r] \in Tables
        /\ new[r] \subseteq Extracted(r)
        /\ pc[r] \in {"idle", "extract"} => Extracted(r) = {}
        /\ pc[r] \in {"idle", "extract", "check", "empty"} => new[r] = {}
        /\ r \in forgotten => pc[r] \in Ended

\* What a run that no clear caught has committed so far.
Commits ==
    \A r \in Runs : r \notin cleared =>
        /\ pc[r] \in {"edges", "endpoints"} => nodes[r] = Ends(Parsed(r))
        /\ pc[r] = "endpoints" => edges[r] = Parsed(r)
        /\ pc[r] = "done" => endpoints[r] = Parsed(r)

\* Between its check and its record a run relies on what it read of the gate.
Checked ==
    \A r \in Runs, a \in Artifacts :
        pc[r] = "record" /\ a \in Extracted(r) \ new[r] /\ r \notin cleared =>
            \E s \in Runs : Accounts(s, a, got[r][a])

IInv == TypeOK /\ RunsTyped /\ Commits /\ Checked /\ SkippedMeansTaken

-----------------------------------------------------------------------------
\* A run parses the same while its table, its texts and its selection stay.
LEMMA ParsedFrame ==
    ASSUME NEW r \in Runs, table'[r] = table[r], got'[r] = got[r], new'[r] = new[r]
    PROVE  Parsed(r)' = Parsed(r) /\ Extracted(r)' = Extracted(r)
BY DEF Parsed, Extracted

\* The hops of a run under way are rows, and its nodes are tables.
LEMMA ParsedType ==
    ASSUME TypeOK, RunsTyped, NEW r \in Runs, pc[r] # "idle"
    PROVE  Parsed(r) \subseteq Rows /\ Ends(Parsed(r)) \subseteq Tables
<1>1. ASSUME NEW h \in Hops, h.art \in new[r]
      PROVE  [art |-> h.art, src |-> h.src, dst |-> Target(h, table[r]),
              content |-> got[r][h.art]] \in Rows
    <2>1. got[r][h.art] \in Nat
        BY <1>1 DEF TypeOK, RunsTyped, Extracted
    <2>2. h.art \in Artifacts /\ h.src \in Tables /\ h.dst \in Tables \union {None}
        BY PipelineAssumption
    <2>3. Target(h, table[r]) \in Tables
        BY <2>2 DEF Target, RunsTyped
    <2> QED BY <2>1, <2>2, <2>3 DEF Rows
<1>2. Parsed(r) \subseteq Rows
    BY <1>1 DEF Parsed
<1> QED BY <1>2 DEF Ends, Rows

-----------------------------------------------------------------------------
LEMMA TypeStep == ASSUME TypeOK, RunsTyped, [Next]_vars PROVE TypeOK'
<1> USE PipelineAssumption
<1>1. ASSUME NEW r \in Runs, NEW t \in Tables, NEW f \in BOOLEAN, Begin(r, t, f) PROVE TypeOK'
    BY <1>1 DEF TypeOK, Begin, Goto, Working, versions, graph, clearVars
<1>2. ASSUME NEW r \in Runs, Extract(r) PROVE TypeOK'
    <2> PICK fetched \in SUBSET Discovers[table[r]] :
            /\ got' = [got EXCEPT ![r] =
                         [a \in Artifacts |-> IF a \in fetched THEN content[a] ELSE None]]
            /\ Goto(r, IF fetched = {} THEN "empty" ELSE "check")
        BY <1>2 DEF Extract
    <2>1. got' \in [Runs -> [Artifacts -> Nat \union {None}]]
        BY DEF TypeOK
    <2> QED BY <1>2, <2>1 DEF TypeOK, Extract, Goto, Working, Ended, versions, graph, clearVars
<1>3. ASSUME NEW r \in Runs, CheckVersions(r) PROVE TypeOK'
    <2>1. {a \in Extracted(r) : recorded[a] # got[r][a]} \in SUBSET Artifacts
        BY DEF Extracted
    <2> QED BY <1>3, <2>1 DEF TypeOK, CheckVersions, Goto, Working, versions, graph, clearVars
<1>4. ASSUME NEW r \in Runs, RecordVersions(r) PROVE TypeOK'
    <2>1. Extracted(r) \in SUBSET Artifacts
        BY DEF Extracted
    <2>2. recorded' \in [Artifacts -> Nat \union {None}]
        BY <1>4 DEF RecordVersions, TypeOK
    <2> QED BY <1>4, <2>1, <2>2 DEF TypeOK, RecordVersions, Goto, Working, Ended, graph, clearVars
<1>5. ASSUME NEW r \in Runs, WriteNodes(r) PROVE TypeOK'
    <2>1. Ends(Parsed(r)) \in SUBSET Tables
        BY <1>5, ParsedType DEF WriteNodes
    <2> QED BY <1>5, <2>1 DEF TypeOK, WriteNodes, Goto, Working, versions, clearVars
<1>6. ASSUME NEW r \in Runs, WriteEdges(r) PROVE TypeOK'
    <2>1. Parsed(r) \in SUBSET Rows
        BY <1>6, ParsedType DEF WriteEdges
    <2> QED BY <1>6, <2>1 DEF TypeOK, WriteEdges, Goto, Working, versions, clearVars
<1>7. ASSUME NEW r \in Runs, BuildEndpoints(r) PROVE TypeOK'
    <2>1. {x \in edges[r] : {x.src, x.dst} \subseteq nodes[r]} \in SUBSET Rows
        BY DEF TypeOK
    <2>2. endpoints' \in [Runs -> SUBSET Rows]
        BY <1>7, <2>1 DEF BuildEndpoints, TypeOK
    <2>3. stored' \in Seq(Runs)
        BY <1>7 DEF BuildEndpoints, TypeOK
    <2> QED BY <1>7, <2>2, <2>3 DEF TypeOK, BuildEndpoints, Goto, Ended, versions, clearVars
<1>8. ASSUME NEW r \in Runs, Fail(r) PROVE TypeOK'
    BY <1>8 DEF TypeOK, Fail, Goto, Ended, versions, graph, clearVars
<1>9. ASSUME NEW t \in Tables \union {None}, ClearBegin(t) PROVE TypeOK'
    BY <1>9 DEF TypeOK, ClearBegin, ClearSteps, versions, graph, runVars
<1>10. CASE ClearEndpoints
    <2>1. endpoints' \in [Runs -> SUBSET Rows]
        BY <1>10 DEF ClearEndpoints, TypeOK
    <2> QED BY <1>10, <2>1 DEF TypeOK, ClearEndpoints, ClearTo, ClearSteps, versions, runVars
<1>11. CASE ClearNodes
    <2>1. nodes' \in [Runs -> SUBSET Tables]
        BY <1>11 DEF ClearNodes, TypeOK
    <2> QED BY <1>11, <2>1 DEF TypeOK, ClearNodes, ClearTo, ClearSteps, versions, runVars
<1>12. CASE ClearEdges
    <2>1. edges' \in [Runs -> SUBSET Rows]
        BY <1>12 DEF ClearEdges, TypeOK
    <2> QED BY <1>12, <2>1 DEF TypeOK, ClearEdges, ClearTo, ClearSteps, versions, runVars
<1>13. CASE ClearVersions
    <2>1. recorded' \in [Artifacts -> Nat \union {None}]
        BY <1>13 DEF ClearVersions
    <2> QED BY <1>13, <2>1 DEF TypeOK, ClearVersions, ClearTo, ClearSteps, graph, runVars
<1>14. CASE ClearFails
    BY <1>14 DEF TypeOK, ClearFails, ClearSteps, versions, graph, runVars
<1>15. ASSUME NEW a \in Artifacts, Edit(a) PROVE TypeOK'
    <2>1. content' \in [Artifacts -> Nat]
        BY <1>15 DEF Edit, TypeOK
    <2> QED BY <1>15, <2>1 DEF TypeOK, Edit, graph, runVars, clearVars
<1>16. CASE UNCHANGED vars
    BY <1>16 DEF TypeOK, vars, versions, graph, runVars, clearVars
<1> QED
    BY <1>1, <1>2, <1>3, <1>4, <1>5, <1>6, <1>7, <1>8, <1>9, <1>10, <1>11, <1>12,
       <1>13, <1>14, <1>15, <1>16 DEF Next, RunStep, ClearStep

-----------------------------------------------------------------------------
LEMMA RunsStep == ASSUME TypeOK, RunsTyped, [Next]_vars PROVE RunsTyped'
<1>1. ASSUME NEW r \in Runs, NEW t \in Tables, NEW f \in BOOLEAN, Begin(r, t, f) PROVE RunsTyped'
    BY <1>1 DEF TypeOK, RunsTyped, Extracted, Begin, Goto, Ended, clearVars
<1>2. ASSUME NEW r \in Runs, Extract(r) PROVE RunsTyped'
    <2> PICK fetched \in SUBSET Discovers[table[r]] :
            /\ got' = [got EXCEPT ![r] =
                         [a \in Artifacts |-> IF a \in fetched THEN content[a] ELSE None]]
            /\ Goto(r, IF fetched = {} THEN "empty" ELSE "check")
        BY <1>2 DEF Extract
    <2>1. new'[r] = {} /\ pc'[r] \in {"empty", "check"} /\ table'[r] \in Tables /\ r \notin forgotten
        BY <1>2 DEF TypeOK, RunsTyped, Extract, Goto, Ended
    <2>2. \A q \in Runs \ {r} : pc'[q] = pc[q] /\ got'[q] = got[q]
        BY DEF TypeOK, Goto
    <2> QED BY <1>2, <2>1, <2>2 DEF RunsTyped, Extracted, Extract, clearVars
<1>3. ASSUME NEW r \in Runs, CheckVersions(r) PROVE RunsTyped'
    BY <1>3 DEF TypeOK, RunsTyped, Extracted, CheckVersions, Goto, Ended, clearVars
<1>4. ASSUME NEW r \in Runs, RecordVersions(r) PROVE RunsTyped'
    BY <1>4 DEF TypeOK, RunsTyped, Extracted, RecordVersions, Goto, Ended, clearVars
<1>5. ASSUME NEW r \in Runs, WriteNodes(r) \/ WriteEdges(r) \/ BuildEndpoints(r) \/ Fail(r)
      PROVE  RunsTyped'
    <2>1. /\ pc[r] \in Working /\ pc'[r] \in {"edges", "endpoints", "done", "failed"}
          /\ \A q \in Runs \ {r} : pc'[q] = pc[q]
          /\ UNCHANGED <<table, got, new, forgotten>>
        BY <1>5 DEF TypeOK, WriteNodes, WriteEdges, BuildEndpoints, Fail, Goto, Working, clearVars
    <2> QED BY <2>1 DEF RunsTyped, Extracted, Working, Ended
<1>6. CASE ClearVersions
    BY <1>6 DEF RunsTyped, Extracted, ClearVersions, runVars
<1>7. CASE UNCHANGED <<runVars, forgotten>>
    BY <1>7 DEF RunsTyped, Extracted, runVars
<1>8. ASSUME NEW t \in Tables \union {None}, ClearBegin(t) PROVE UNCHANGED <<runVars, forgotten>>
    BY <1>8 DEF ClearBegin
<1>9. CASE ClearEndpoints \/ ClearNodes \/ ClearEdges \/ ClearFails
    BY <1>7, <1>9 DEF ClearEndpoints, ClearNodes, ClearEdges, ClearFails
<1>10. ASSUME NEW a \in Artifacts, Edit(a) PROVE UNCHANGED <<runVars, forgotten>>
    BY <1>10 DEF Edit, clearVars
<1>11. CASE UNCHANGED vars
    BY <1>7, <1>11 DEF vars, clearVars
<1> QED
    BY <1>1, <1>2, <1>3, <1>4, <1>5, <1>6, <1>7, <1>8, <1>9, <1>10, <1>11
    DEF Next, RunStep, ClearStep

\* A delete catches every run that has begun.
LEMMA ClearCatches ==
    ASSUME NEW step, ClearTo(step), UNCHANGED runVars, NEW r \in Runs, r \notin cleared'
    PROVE  pc[r] = "idle" /\ pc'[r] = "idle" /\ r \notin cleared
BY DEF ClearTo, runVars

LEMMA CommitsStep == ASSUME TypeOK, RunsTyped, Commits, [Next]_vars PROVE Commits'
<1> USE DEF Commits
<1> DEFINE Same(r) == table'[r] = table[r] /\ got'[r] = got[r] /\ new'[r] = new[r]
           Stored(r) == nodes'[r] = nodes[r] /\ edges'[r] = edges[r] /\ endpoints'[r] = endpoints[r]
           Commit(r) == r \notin cleared =>
               /\ pc[r] \in {"edges", "endpoints"} => nodes[r] = Ends(Parsed(r))
               /\ pc[r] = "endpoints" => edges[r] = Parsed(r)
               /\ pc[r] = "done" => endpoints[r] = Parsed(r)
<1>1. ASSUME NEW r \in Runs, Same(r), Stored(r), pc'[r] = pc[r], cleared' = cleared PROVE Commit(r)'
    <2>1. Parsed(r)' = Parsed(r)
        BY <1>1, ParsedFrame
    <2>2. Ends(Parsed(r))' = Ends(Parsed(r))
        BY <2>1 DEF Ends
    <2> QED BY <1>1, <2>1, <2>2
<1>2. ASSUME NEW r \in Runs, pc'[r] \notin {"edges", "endpoints", "done"} PROVE Commit(r)'
    BY <1>2
<1>3. ASSUME NEW q \in Runs, RunStep(q) PROVE \A r \in Runs \ {q} : Commit(r)'
    <2>1. \A r \in Runs \ {q} : Same(r) /\ Stored(r) /\ pc'[r] = pc[r]
        BY <1>3 DEF TypeOK, RunStep, Begin, Extract, CheckVersions, RecordVersions, WriteNodes,
                    WriteEdges, BuildEndpoints, Fail, Goto, graph
    <2>2. cleared' = cleared
        BY <1>3 DEF RunStep, Begin, Extract, CheckVersions, RecordVersions, WriteNodes,
                    WriteEdges, BuildEndpoints, Fail, clearVars
    <2> QED BY <1>1, <2>1, <2>2
<1>4. ASSUME NEW q \in Runs, RunStep(q) PROVE Commit(q)'
    <2>1. CASE WriteNodes(q)
        <3>1. Same(q) /\ pc'[q] = "edges" /\ nodes'[q] = Ends(Parsed(q))
            BY <2>1 DEF WriteNodes, TypeOK, Goto
        <3>2. Parsed(q)' = Parsed(q)
            BY <3>1, ParsedFrame
        <3>3. Ends(Parsed(q))' = Ends(Parsed(q))
            BY <3>2 DEF Ends
        <3> QED BY <3>1, <3>3
    <2>2. CASE WriteEdges(q)
        <3>1. Same(q) /\ pc[q] = "edges" /\ pc'[q] = "endpoints" /\ edges'[q] = Parsed(q)
              /\ nodes' = nodes /\ cleared' = cleared
            BY <2>2 DEF WriteEdges, TypeOK, Goto, clearVars
        <3>2. Parsed(q)' = Parsed(q)
            BY <3>1, ParsedFrame
        <3>3. Ends(Parsed(q))' = Ends(Parsed(q))
            BY <3>2 DEF Ends
        <3> QED BY <3>1, <3>2, <3>3
    <2>3. CASE BuildEndpoints(q)
        <3>1. /\ Same(q) /\ pc[q] = "endpoints" /\ pc'[q] = "done" /\ cleared' = cleared
              /\ endpoints'[q] = {x \in edges[q] : {x.src, x.dst} \subseteq nodes[q]}
            BY <2>3 DEF BuildEndpoints, TypeOK, Goto, clearVars
        <3>2. Parsed(q)' = Parsed(q)
            BY <3>1, ParsedFrame
        <3>3. q \notin cleared => endpoints'[q] = Parsed(q)
            BY <3>1 DEF Ends
        <3> QED BY <3>1, <3>2, <3>3
    <2>4. CASE Fail(q)
        BY <2>4, <1>2 DEF Fail, TypeOK, Goto
    <2>5. ASSUME NEW t \in Tables, NEW f \in BOOLEAN, Begin(q, t, f) PROVE Commit(q)'
        BY <2>5, <1>2 DEF Begin, TypeOK, Goto
    <2>6. CASE Extract(q)
        BY <2>6, <1>2 DEF Extract, TypeOK, Goto
    <2>7. CASE CheckVersions(q) \/ RecordVersions(q)
        BY <2>7, <1>2 DEF CheckVersions, RecordVersions, TypeOK, Goto
    <2> QED BY <1>4, <2>1, <2>2, <2>3, <2>4, <2>5, <2>6, <2>7 DEF RunStep
<1>5. ASSUME UNCHANGED <<graph, runVars, cleared>> PROVE Commits'
    BY <1>1, <1>5 DEF graph, runVars
<1>6. ASSUME NEW t \in Tables \union {None}, ClearBegin(t) PROVE Commits'
    BY <1>5, <1>6 DEF ClearBegin
<1>7. CASE ClearEndpoints \/ ClearNodes \/ ClearEdges \/ ClearVersions
    <2>1. UNCHANGED runVars /\ \E step \in ClearSteps : ClearTo(step)
        BY <1>7 DEF ClearEndpoints, ClearNodes, ClearEdges, ClearVersions, ClearSteps
    <2> QED BY <2>1, ClearCatches
<1>8. CASE ClearFails
    BY <1>5, <1>8 DEF ClearFails
<1>9. ASSUME NEW a \in Artifacts, Edit(a) PROVE Commits'
    BY <1>5, <1>9 DEF Edit, clearVars
<1>10. CASE UNCHANGED vars
    BY <1>5, <1>10 DEF vars, clearVars
<1> HIDE DEF Commits
<1>11. ASSUME NEW q \in Runs, RunStep(q) PROVE Commits'
    BY <1>3, <1>4, <1>11 DEF Commits
<1> HIDE DEF Commit
<1> QED BY <1>6, <1>7, <1>8, <1>9, <1>10, <1>11 DEF Next, ClearStep

-----------------------------------------------------------------------------
\* A run that accounts for a text goes on doing so, until a wipe forgets it.
LEMMA AccountsKept ==
    ASSUME TypeOK, RunsTyped, Commits, [Next]_vars, ~ClearVersions,
           NEW s \in Runs, NEW a \in Artifacts, NEW c \in Nat, Accounts(s, a, c)
    PROVE  Accounts(s, a, c)'
<1>1. a \in Extracted(s) /\ pc[s] \notin {"idle", "extract"}
    BY PipelineAssumption DEF Accounts, Extracted, RunsTyped
<1>2. ASSUME UNCHANGED <<cleared, forgotten>>, table'[s] = table[s], got'[s] = got[s],
             new'[s] = new[s], pc'[s] = pc[s], endpoints'[s] = endpoints[s]
      PROVE  Accounts(s, a, c)'
    <2>1. Parsed(s)' = Parsed(s)
        BY <1>2, ParsedFrame
    <2> QED BY <1>2, <2>1 DEF Accounts, Took
<1>3. ASSUME NEW q \in Runs \ {s}, RunStep(q) PROVE Accounts(s, a, c)'
    BY <1>2, <1>3 DEF TypeOK, RunStep, Begin, Extract, CheckVersions, RecordVersions,
       WriteNodes, WriteEdges, BuildEndpoints, Fail, Goto, graph, clearVars
<1>4. CASE RunStep(s)
    <2>1. UNCHANGED <<cleared, forgotten, got>>
        BY <1>1, <1>4 DEF RunStep, Begin, Extract, CheckVersions, RecordVersions,
           WriteNodes, WriteEdges, BuildEndpoints, Fail, clearVars
    <2>2. CASE s \in cleared
        BY <2>1, <2>2 DEF Accounts
    <2>3. CASE s \notin cleared
        <3>1. a \in new[s] /\ ~CheckVersions(s)
            BY <2>3 DEF Accounts, Took, CheckVersions, RunsTyped
        <3>2. CASE RecordVersions(s)
            <4>1. a \in new'[s] /\ pc'[s] = "nodes"
                BY <1>1, <3>1, <3>2 DEF RecordVersions, TypeOK, Goto
            <4> QED BY <2>1, <4>1 DEF Accounts, Took, Working
        <3>3. CASE WriteNodes(s) \/ WriteEdges(s) \/ Fail(s)
            <4>1. new' = new /\ pc'[s] \in Working \union {"failed"}
                BY <3>3 DEF WriteNodes, WriteEdges, Fail, TypeOK, Goto, Working
            <4> QED BY <2>1, <3>1, <4>1 DEF Accounts, Took
        <3>4. CASE BuildEndpoints(s)
            <4>1. new' = new /\ pc'[s] = "done"
                BY <3>4 DEF BuildEndpoints, TypeOK, Goto
            <4>2. Commits'
                BY CommitsStep
            <4>3. endpoints'[s] = Parsed(s)'
                BY <2>1, <2>3, <4>1, <4>2 DEF Commits
            <4> QED BY <2>1, <3>1, <4>1, <4>3 DEF Accounts, Took
        <3>5. ~Extract(s) /\ \A t \in Tables, f \in BOOLEAN : ~Begin(s, t, f)
            BY <1>1 DEF Extract, Begin
        <3> QED BY <1>4, <3>1, <3>2, <3>3, <3>4, <3>5 DEF RunStep
    <2> QED BY <2>2, <2>3
<1>5. CASE ClearEndpoints \/ ClearNodes \/ ClearEdges
    <2>1. UNCHANGED <<runVars, forgotten>> /\ \E step \in ClearSteps : ClearTo(step)
        BY <1>5 DEF ClearEndpoints, ClearNodes, ClearEdges, ClearSteps
    <2>2. s \in cleared'
        BY <1>1, <2>1 DEF ClearTo
    <2> QED BY <2>1, <2>2 DEF Accounts, runVars
<1>6. ASSUME UNCHANGED <<graph, runVars, cleared, forgotten>> PROVE Accounts(s, a, c)'
    BY <1>2, <1>6 DEF graph, runVars
<1>7. ASSUME NEW t \in Tables \union {None}, ClearBegin(t) PROVE Accounts(s, a, c)'
    BY <1>6, <1>7 DEF ClearBegin
<1>8. CASE ClearFails
    BY <1>6, <1>8 DEF ClearFails
<1>9. ASSUME NEW b \in Artifacts, Edit(b) PROVE Accounts(s, a, c)'
    BY <1>6, <1>9 DEF Edit, clearVars
<1>10. CASE UNCHANGED vars
    BY <1>6, <1>10 DEF vars, clearVars
<1> QED BY <1>3, <1>4, <1>5, <1>7, <1>8, <1>9, <1>10 DEF Next, ClearStep

\* What a run has extracted are texts.
LEMMA ExtractedText ==
    ASSUME TypeOK, NEW r \in Runs, NEW a \in Extracted(r) PROVE a \in Artifacts /\ got[r][a] \in Nat
BY DEF TypeOK, Extracted

LEMMA GateStep == ASSUME IInv, [Next]_vars PROVE SkippedMeansTaken' /\ Checked'
<1> USE DEF IInv
<1>1. ASSUME NEW a \in Artifacts, recorded'[a] # None
      PROVE  \E s \in Runs : Accounts(s, a, recorded[a])'
    <2>1. ~ClearVersions
        BY <1>1 DEF ClearVersions
    <2>2. CASE recorded'[a] = recorded[a]
        <3>1. recorded[a] \in Nat
            BY <1>1, <2>2 DEF TypeOK
        <3>2. PICK s \in Runs : Accounts(s, a, recorded[a])
            BY <1>1, <2>2 DEF SkippedMeansTaken
        <3>3. Accounts(s, a, recorded[a])'
            BY <2>1, <2>2, <3>1, <3>2, AccountsKept DEF Accounts, Took
        <3> QED BY <3>3
    <2>3. CASE recorded'[a] # recorded[a]
        <3>1. PICK q \in Runs : RecordVersions(q)
            BY <2>1, <2>3 DEF Next, RunStep, ClearStep, Begin, Extract, CheckVersions, WriteNodes,
               WriteEdges, BuildEndpoints, Fail, ClearBegin, ClearEndpoints, ClearNodes,
               ClearEdges, ClearFails, Edit, vars, versions
        <3>2. /\ a \in Extracted(q) /\ recorded'[a] = got[q][a] /\ got'[q] = got[q]
              /\ pc[q] = "record" /\ q \notin forgotten /\ UNCHANGED <<cleared, forgotten>>
            BY <2>3, <3>1 DEF RecordVersions, RunsTyped, Ended, clearVars
        <3>3. CASE a \in new'[q]
            <4>1. pc'[q] = "nodes"
                BY <3>1, <3>3 DEF RecordVersions, TypeOK, Goto
            <4> QED BY <3>2, <3>3, <4>1 DEF Accounts, Took, Working
        <3>4. CASE q \in cleared
            BY <3>2, <3>4 DEF Accounts
        <3>5. CASE a \notin new'[q] /\ q \notin cleared
            <4>1. a \notin new[q]
                BY <3>1, <3>2, <3>5 DEF RecordVersions, TypeOK
            <4>2. PICK s \in Runs : Accounts(s, a, got[q][a])
                BY <3>2, <3>5, <4>1 DEF Checked
            <4>3. got[q][a] \in Nat
                BY <3>2, ExtractedText
            <4>4. Accounts(s, a, recorded[a])'
                BY <2>1, <3>2, <4>2, <4>3, AccountsKept DEF Accounts, Took
            <4> QED BY <4>4
        <3> QED BY <3>3, <3>4, <3>5
    <2> QED BY <2>2, <2>3
<1>2. ASSUME NEW r \in Runs, NEW a \in Artifacts, pc'[r] = "record",
             a \in Extracted(r)' \ new'[r], r \notin cleared'
      PROVE  \E s \in Runs : Accounts(s, a, got[r][a])'
    <2>1. /\ got'[r] = got[r] /\ pc[r] \in {"check", "record"} /\ r \notin cleared
          /\ pc[r] = "record" => new'[r] = new[r]
          /\ pc[r] = "check" => CheckVersions(r)
        <3>1. ASSUME NEW q \in Runs, RunStep(q)
              PROVE  /\ got'[r] = got[r] /\ pc[r] \in {"check", "record"} /\ cleared' = cleared
                     /\ pc[r] = "record" => new'[r] = new[r]
                     /\ pc[r] = "check" => CheckVersions(r)
            BY <1>2, <3>1 DEF TypeOK, RunStep, Begin, Extract, CheckVersions, RecordVersions,
               WriteNodes, WriteEdges, BuildEndpoints, Fail, Goto, clearVars
        <3>2. ASSUME UNCHANGED runVars, cleared \subseteq cleared'
              PROVE  /\ got'[r] = got[r] /\ pc[r] = "record" /\ r \notin cleared
                     /\ new'[r] = new[r]
            BY <1>2, <3>2 DEF runVars
        <3>3. ASSUME ClearStep \/ (\E b \in Artifacts : Edit(b)) \/ UNCHANGED vars
              PROVE  UNCHANGED runVars /\ cleared \subseteq cleared'
            BY <3>3 DEF ClearStep, ClearBegin, ClearEndpoints, ClearNodes, ClearEdges,
               ClearVersions, ClearFails, ClearTo, Edit, vars, clearVars
        <3> QED BY <1>2, <3>1, <3>2, <3>3 DEF Next
    <2>2. ~ClearVersions
        BY <1>2, <2>1 DEF ClearVersions, ClearTo
    <2>3. got[r][a] \in Nat /\ a \in Extracted(r)
        BY <1>2, <2>1, ExtractedText DEF Extracted
    <2>4. PICK s \in Runs : Accounts(s, a, got[r][a])
        <3>1. CASE pc[r] = "record"
            BY <1>2, <2>1, <2>3, <3>1 DEF Checked
        <3>2. CASE pc[r] = "check"
            <4>1. recorded[a] = got[r][a]
                BY <1>2, <2>1, <2>3, <3>2 DEF CheckVersions, TypeOK
            <4> QED BY <2>3, <4>1, PipelineAssumption DEF SkippedMeansTaken
        <3> QED BY <2>1, <3>1, <3>2
    <2>5. Accounts(s, a, got[r][a])'
        BY <2>1, <2>2, <2>3, <2>4, AccountsKept DEF Accounts, Took
    <2> QED BY <2>5
<1> QED BY <1>1, <1>2 DEF SkippedMeansTaken, Checked

-----------------------------------------------------------------------------
\* The invariant the others are read off.
THEOREM PipelineInvariant == Spec => []IInv
<1>1. Init => IInv
    BY PipelineAssumption DEF Init, IInv, TypeOK, RunsTyped, Commits, Checked, SkippedMeansTaken,
       Extracted, ClearSteps
<1>2. IInv /\ [Next]_vars => IInv'
    BY TypeStep, RunsStep, CommitsStep, GateStep DEF IInv
<1> QED BY <1>1, <1>2, PTL DEF Spec

\* The stores and the locals of a run have their types in every reachable state.
THEOREM TypeCorrect == Spec => []TypeOK
BY PipelineInvariant, PTL DEF IInv

\* A run that reports success and that no clear caught serves exactly the hops it
\* parsed, whichever runs were interleaved with it (build_edge_endpoints).
THEOREM DoneMeansServedHolds == Spec => []DoneMeansServed
<1>1. IInv => DoneMeansServed
    BY DEF IInv, Commits, DoneMeansServed
<1> QED BY <1>1, PipelineInvariant, PTL

\* The version gate skips only what some run took up (batch_check_versions).
THEOREM SkippedMeansTakenHolds == Spec => []SkippedMeansTaken
BY PipelineInvariant, PTL DEF IInv
=============================================================================
