---------------------------- MODULE MCAppServices ----------------------------
(***************************************************************************)
(* An instance of the services that keep tables, caches and counters of    *)
(* their own: peer workspaces and feature flags, producer analysis, the    *)
(* sublineage store, code extraction, notifications, the cache of users,   *)
(* the request limit, the model budget and the Delta tier. They share no   *)
(* state: in a behaviour one "service" is at work, the others rest in      *)
(* their first state.                                                      *)
(***************************************************************************)
EXTENDS PeerWorkspaces, ProducerAnalysis, SublineageStore, Extraction, Notifications,
        UserInfo, RateLimit, LlmBudget, DeltaTier, TLC

VARIABLE service

CONSTANTS
    t1, t2,                     \* threads
    p1, p2, f1, f2,             \* producers and the files they run
    s1, s2,                     \* scanners
    col, flow1, flow2, kc, kf,  \* troubles and the keys of their alerts
    ra, rb                      \* replicas

\* p1 runs two files in a peer workspace, p2 has none; one edit of one text.
MCFilesOf == (p1 :> {f1, f2}) @@ (p2 :> {})
MCEdited == {<<p1, f1>>}

\* A hop, the same with another expression, and two hops.
MCContents == {("h1" :> "e1"), ("h1" :> "e2"), ("h1" :> "e1") @@ ("h2" :> "e2")}

\* Runs of jobs that share a file, one path twice, one task of another kind.
Task(kind, path) == [kind |-> kind, path |-> path]
MCTasksOf ==
    ("j1" :> {Task("notebook", "p1"), Task("sql_file", "p2")}) @@
    ("j2" :> {Task("python", "p1"), Task("other", "p1"), Task("notebook", "p3")})
MCPathsOf == ("n1" :> <<"p1">>) @@ ("n2" :> <<"old", "p2">>)
MCLibrariesOf == ("d1" :> {"p2"})

\* Two flows into one column have the same key.
MCKeyOf == (col :> kc) @@ (flow1 :> kf) @@ (flow2 :> kf)
MCBucketOf ==
    (col :> "schema_changes") @@ (flow1 :> "sensitive_flows") @@ (flow2 :> "sensitive_flows")

-----------------------------------------------------------------------------
ServicesInit ==
    /\ service \in {"peers", "analysis", "store", "extraction", "alerts",
                    "users", "limit", "budget", "tier"}
    /\ PeerInit /\ AnalysisInit /\ StoreInit
    /\ ExtractInit /\ (service # "extraction" => \A n \in Notebooks : pathCache[n] = 0)
    /\ NotificationsInit
    /\ UserInfoInit /\ (service # "users" => group = {})
    /\ RateLimitInit /\ LlmBudgetInit
    \* The replicas are alike: t1 is in ra, and t2 beside it or not.
    /\ DeltaTierInit /\ home[t1] = ra /\ (service # "tier" => home[t2] = ra)

ServicesNext ==
    \/ /\ service = "peers" /\ PeerNext
       /\ UNCHANGED <<analysisVars, storeVars, extractVars, alertVars, infoVars, limitVars,
                      llmVars, tierVars>>
    \/ /\ service = "analysis" /\ AnalysisNext
       /\ UNCHANGED <<peerVars, storeVars, extractVars, alertVars, infoVars, limitVars,
                      llmVars, tierVars>>
    \/ /\ service = "store" /\ StoreNext
       /\ UNCHANGED <<peerVars, analysisVars, extractVars, alertVars, infoVars, limitVars,
                      llmVars, tierVars>>
    \/ /\ service = "extraction" /\ ExtractNext
       /\ UNCHANGED <<peerVars, analysisVars, storeVars, alertVars, infoVars, limitVars,
                      llmVars, tierVars>>
    \/ /\ service = "alerts" /\ NotificationsNext
       /\ UNCHANGED <<peerVars, analysisVars, storeVars, extractVars, infoVars, limitVars,
                      llmVars, tierVars>>
    \/ /\ service = "users" /\ UserInfoNext
       /\ UNCHANGED <<peerVars, analysisVars, storeVars, extractVars, alertVars, limitVars,
                      llmVars, tierVars>>
    \/ /\ service = "limit" /\ RateLimitNext
       /\ UNCHANGED <<peerVars, analysisVars, storeVars, extractVars, alertVars, infoVars,
                      llmVars, tierVars>>
    \/ /\ service = "budget" /\ LlmBudgetNext
       /\ UNCHANGED <<peerVars, analysisVars, storeVars, extractVars, alertVars, infoVars,
                      limitVars, tierVars>>
    \/ /\ service = "tier" /\ DeltaTierNext
       /\ UNCHANGED <<peerVars, analysisVars, storeVars, extractVars, alertVars, infoVars,
                      limitVars, llmVars>>

servicesVars == <<service, peerVars, analysisVars, storeVars, extractVars, alertVars, infoVars,
                  limitVars, llmVars, tierVars>>

ServicesSpec == ServicesInit /\ [][ServicesNext /\ UNCHANGED service]_servicesVars

\* Any changes of the flag as long as nothing is registered; registrations with at most
\* one, made on its own (the flag matters to them only in letting a request in).
MCFewChanges == registry = <<>> \/ (flagTurns <= 1 /\ ~auditBlurred)

\* The type invariants of the nine services: no cache is over its limit or holds two
\* entries of one key, no counter, version or time is out of its range.
ServicesTypeOK ==
    /\ PeerTypeOK
    /\ AnalysisTypeOK
    /\ StoreTypeOK
    /\ ExtractTypeOK
    /\ NotificationsTypeOK
    /\ UserInfoTypeOK
    /\ RateLimitTypeOK
    /\ LlmBudgetTypeOK
    /\ DeltaTierTypeOK

=============================================================================
