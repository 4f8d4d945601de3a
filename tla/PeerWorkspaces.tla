----------------------------- MODULE PeerWorkspaces -----------------------------
(***************************************************************************)
(* backend/federated_workspaces.py and the feature flag it is gated by     *)
(* (backend/feature_flags.py): which client reads the source of a producer *)
(* that runs in another workspace. Every request runs in a worker thread.  *)
(*                                                                         *)
(* The registry only grows and is read newest first, so the list a thread  *)
(* read is identified by how many rows it had. A client is identified by   *)
(* the row it was built from.                                              *)
(***************************************************************************)
EXTENDS Naturals, Sequences, FiniteSets

CONSTANTS
    PeerThreads,  \* worker threads, serving users and admins
    Wids,         \* workspace ids other than the app's own
    MaxRows,      \* bound: registrations
    MaxToggles    \* bound: changes of the flag

ASSUME PeerAssumption == MaxRows \in Nat /\ MaxToggles \in Nat

FlagTexts == {"absent", "true", "false"}
NoPeer == 0
NoList == MaxRows + 1

VARIABLES
    flagRow,       \* the row of live_source_fetch in the feature_flags table
    flagAudit,     \* the newest row of feature_flags_audit
    auditsOut,     \* values whose audit INSERT outlived its call
    flagTurns,     \* changes of the flag so far
    registry,      \* the federated_workspaces table, oldest row first
    peersCache,    \* _peers_cache: the length of the list it holds, or NoList
    peerClients,   \* _peer_clients: per workspace the row its client is built from
    peerCall,      \* per thread: the request it serves
    heldOver,      \* history: workspaces whose old row outlived their eviction
    auditBlurred   \* history: since the last change made on its own, the flag or the
                   \* trail changed in a way that need not leave them alike

peerVars == <<flagRow, flagAudit, auditsOut, flagTurns, registry, peersCache, peerClients,
              peerCall, heldOver, auditBlurred>>

\* "chosen" answers with a row, or with none ("not registered", a 409).
Answers == {"none", "chosen", "disabled", "unread", "failed"}
IdleCall == [pc |-> "idle", wid |-> "none", resolving |-> FALSE, seen |-> 0,
             row |-> NoPeer, turn |-> "absent", from |-> 0, answer |-> "none"]

PeerTypeOK ==
    /\ flagRow \in FlagTexts /\ flagAudit \in FlagTexts
    /\ auditsOut \subseteq FlagTexts
    /\ flagTurns \in 0..MaxToggles
    /\ registry \in UNION {[1..n -> [wid : Wids, enabled : BOOLEAN]] : n \in 0..MaxRows}
    /\ peersCache \in 0..MaxRows \union {NoList}
    /\ peerClients \in [Wids -> 0..MaxRows]
    /\ peerCall \in [PeerThreads ->
         [pc : {"idle", "list", "keep", "lookup", "build", "answered",
                "invalidate", "evict", "audit"},
          wid : Wids \union {"none"}, resolving : BOOLEAN, seen : 0..MaxRows,
          row : 0..MaxRows, turn : FlagTexts, from : 0..MaxRows, answer : Answers]]
    /\ heldOver \subseteq Wids
    /\ auditBlurred \in BOOLEAN

PeerInit ==
    /\ flagRow = "absent" /\ flagAudit = "absent" /\ auditsOut = {} /\ flagTurns = 0
    /\ registry = << >>
    /\ peersCache = NoList
    /\ peerClients = [w \in Wids |-> NoPeer]
    /\ peerCall = [t \in PeerThreads |-> IdleCall]
    /\ heldOver = {} /\ auditBlurred = FALSE

-----------------------------------------------------------------------------
flagVars == <<flagRow, flagAudit, auditsOut, flagTurns, auditBlurred>>

\* get_flag_state: the Statement API returns a BOOLEAN as text, and
\* bool("false") is True, so a row of either value reads as enabled.
FlagReads == flagRow # "absent"

\* What get_peer makes of a list of the first n rows: the newest ENABLED row of w.
\* A newer row that is not enabled is passed over.
EnabledRows(w, n) == {i \in 1..n : registry[i].wid = w /\ registry[i].enabled}
NewestOf(rows) == IF rows = {} THEN NoPeer ELSE CHOOSE i \in rows : \A j \in rows : j <= i
Resolved(w, n) == NewestOf(EnabledRows(w, n))

Registering(w) ==
    \E t \in PeerThreads : peerCall[t].pc \in {"invalidate", "evict"} /\ peerCall[t].wid = w

PeerStep(t, from, to) ==
    /\ peerCall[t].pc = from
    /\ peerCall' = [peerCall EXCEPT ![t] = to]

PeerDone(t, from, answer, row) ==
    PeerStep(t, from, [peerCall[t] EXCEPT !.pc = "answered", !.answer = answer,
                                          !.seen = 0, !.row = row])

\* A request for the source of a producer in workspace w.  The route resolves the
\* workspace first (_resolve_fetch_workspace); a flag that is off, or that could not
\* be read, is a 409.
FetchFromPeer(t, w) ==
    /\ IF FlagReads
       THEN PeerStep(t, "idle", [IdleCall EXCEPT !.pc = "list", !.wid = w, !.resolving = TRUE,
                        !.from = IF Registering(w) THEN 0 ELSE Len(registry)])
       ELSE PeerStep(t, "idle", [IdleCall EXCEPT !.pc = "answered", !.wid = w,
                                                 !.answer = "disabled"])
    /\ UNCHANGED <<flagVars, registry, peersCache, peerClients, heldOver>>

\* get_peer, with the list in hand: no row refuses the request; in the route the
\* fetch then starts, in get_workspace_client the client is built.
Choose(t, from, n) ==
    LET row == Resolved(peerCall[t].wid, n)
    IN  IF row = NoPeer THEN PeerDone(t, from, "chosen", NoPeer)
        ELSE IF peerCall[t].resolving
        THEN PeerStep(t, from, [peerCall[t] EXCEPT !.pc = "lookup", !.seen = 0,
                                                   !.resolving = FALSE])
        ELSE PeerStep(t, from, [peerCall[t] EXCEPT !.pc = "build", !.seen = 0, !.row = row])

\* list_peer_workspaces: no list when the flag is off; the cached one for 30 s; ...
ListCached(t) ==
    /\ IF FlagReads
       THEN peersCache # NoList /\ Choose(t, "list", peersCache)
       ELSE PeerDone(t, "list", "disabled", NoPeer)
    /\ UNCHANGED <<flagVars, registry, peersCache, peerClients, heldOver>>

\* ... otherwise it is read, and kept only once the answer is here.
ListRead(t) ==
    /\ FlagReads /\ peersCache = NoList
    /\ \/ PeerStep(t, "list", [peerCall[t] EXCEPT !.pc = "keep", !.seen = Len(registry)])
       \/ PeerDone(t, "list", "unread", NoPeer)
    /\ UNCHANGED <<flagVars, registry, peersCache, peerClients, heldOver>>

ListKeep(t) ==
    /\ Choose(t, "keep", peerCall[t].seen)
    /\ peersCache' = peerCall[t].seen
    /\ UNCHANGED <<flagVars, registry, peerClients, heldOver>>

PeersCacheExpires ==
    /\ peersCache' = NoList
    /\ UNCHANGED <<flagVars, registry, peerClients, peerCall, heldOver>>

\* get_workspace_client: the flag again, then a cached client before the registry.
Lookup(t) ==
    LET client == peerClients[peerCall[t].wid]
    IN  /\ peerCall[t].pc = "lookup"
        /\ IF ~FlagReads THEN PeerDone(t, "lookup", "disabled", NoPeer)
           ELSE IF client # NoPeer THEN PeerDone(t, "lookup", "chosen", client)
           ELSE PeerStep(t, "lookup", [peerCall[t] EXCEPT !.pc = "list"])
        /\ UNCHANGED <<flagVars, registry, peersCache, peerClients, heldOver>>

\* The client is built from the row (its host checked, its credentials read) and
\* cached; a bad host or a missing credential raises and caches nothing.
BuildClient(t) ==
    /\ \/ /\ PeerDone(t, "build", "chosen", peerCall[t].row)
          /\ peerClients' = [peerClients EXCEPT ![peerCall[t].wid] = peerCall[t].row]
       \/ PeerDone(t, "build", "failed", NoPeer) /\ UNCHANGED peerClients
    /\ UNCHANGED <<flagVars, registry, peersCache, heldOver>>

PeerReturn(t) ==
    /\ PeerStep(t, "answered", IdleCall)
    /\ UNCHANGED <<flagVars, registry, peersCache, peerClients, heldOver>>

-----------------------------------------------------------------------------
\* register_peer_workspace: always a new row; the list and then the client of w go.
Register(t, w, on) ==
    /\ Len(registry) < MaxRows
    /\ registry' = Append(registry, [wid |-> w, enabled |-> on])
    /\ PeerStep(t, "idle", [IdleCall EXCEPT !.pc = "invalidate", !.wid = w])
    /\ UNCHANGED <<flagVars, peersCache, peerClients, heldOver>>

\* The INSERT outlives its wait_timeout: the registration raises, the row lands, and
\* nothing is dropped.
RegisterLate(w, on) ==
    /\ Len(registry) < MaxRows
    /\ registry' = Append(registry, [wid |-> w, enabled |-> on])
    /\ heldOver' = heldOver \union {w}
    /\ UNCHANGED <<flagVars, peersCache, peerClients, peerCall>>

InvalidatePeers(t) ==
    /\ PeerStep(t, "invalidate", [peerCall[t] EXCEPT !.pc = "evict"])
    /\ peersCache' = NoList
    /\ UNCHANGED <<flagVars, registry, peerClients, heldOver>>

\* An older choice for w that is still in a thread's hands, or in the list.
InHandFor(w) ==
    LET old(n) == Resolved(w, n) # Resolved(w, Len(registry))
    IN  \/ peersCache # NoList /\ old(peersCache)
        \/ \E t \in PeerThreads :
             \/ peerCall[t].pc = "keep" /\ old(peerCall[t].seen)
             \/ /\ peerCall[t].pc = "build" /\ peerCall[t].wid = w
                /\ peerCall[t].row # Resolved(w, Len(registry))

\* Mutant: a registration that keeps the client.
EvictNothing(t) ==
    /\ PeerStep(t, "evict", IdleCall)
    /\ heldOver' = IF InHandFor(peerCall[t].wid)
                   THEN heldOver \union {peerCall[t].wid} ELSE heldOver
    /\ UNCHANGED <<flagVars, registry, peersCache, peerClients>>

EvictClient(t) ==
    /\ PeerStep(t, "evict", IdleCall)
    /\ peerClients' = [peerClients EXCEPT ![peerCall[t].wid] = NoPeer]
    /\ heldOver' = IF InHandFor(peerCall[t].wid)
                   THEN heldOver \union {peerCall[t].wid} ELSE heldOver
    /\ UNCHANGED <<flagVars, registry, peersCache>>

-----------------------------------------------------------------------------
Auditing == \E t \in PeerThreads : peerCall[t].pc = "audit"

\* set_flag_state: a MERGE of the flag's row ...
SetFlag(t, text) ==
    /\ flagTurns < MaxToggles
    /\ PeerStep(t, "idle", [IdleCall EXCEPT !.pc = "audit", !.turn = text])
    /\ flagRow' = text /\ flagTurns' = flagTurns + 1
    /\ auditBlurred' = Auditing
    /\ UNCHANGED <<flagAudit, auditsOut, registry, peersCache, peerClients, heldOver>>

\* ... which can outlive its wait_timeout: the call raises, no audit row is attempted,
\* and the flag changes afterwards.  (One that fails for good changes nothing.)
SetFlagLate(text) ==
    /\ flagTurns < MaxToggles
    /\ flagRow' = text /\ flagTurns' = flagTurns + 1
    /\ auditBlurred' = TRUE
    /\ UNCHANGED <<flagAudit, auditsOut, registry, peersCache, peerClients, peerCall, heldOver>>

\* The second statement, an INSERT into the audit table: it is done, or it fails, or it
\* outlives its wait_timeout as well ...
AuditFlag(t) ==
    /\ PeerStep(t, "audit", IdleCall)
    /\ \/ flagAudit' = peerCall[t].turn /\ UNCHANGED <<auditsOut, auditBlurred>>
       \/ /\ auditBlurred' = TRUE /\ UNCHANGED flagAudit
          /\ auditsOut' \in {auditsOut, auditsOut \union {peerCall[t].turn}}
    /\ UNCHANGED <<flagRow, flagTurns, registry, peersCache, peerClients, heldOver>>

\* ... and its row lands by itself.
AuditLands(text) ==
    /\ text \in auditsOut
    /\ auditsOut' = auditsOut \ {text}
    /\ flagAudit' = text
    /\ auditBlurred' = TRUE
    /\ UNCHANGED <<flagRow, flagTurns, registry, peersCache, peerClients, peerCall, heldOver>>

PeerNext ==
    \/ \E t \in PeerThreads, w \in Wids : FetchFromPeer(t, w)
    \/ \E t \in PeerThreads : ListCached(t)
    \/ \E t \in PeerThreads : ListRead(t)
    \/ \E t \in PeerThreads : ListKeep(t)
    \/ PeersCacheExpires
    \/ \E t \in PeerThreads : Lookup(t)
    \/ \E t \in PeerThreads : BuildClient(t)
    \/ \E t \in PeerThreads : PeerReturn(t)
    \/ \E t \in PeerThreads, w \in Wids, on \in BOOLEAN : Register(t, w, on)
    \/ \E w \in Wids, on \in BOOLEAN : RegisterLate(w, on)
    \/ \E t \in PeerThreads : InvalidatePeers(t)
    \/ \E t \in PeerThreads : EvictClient(t)
    \/ \E t \in PeerThreads, text \in {"true", "false"} : SetFlag(t, text)
    \/ \E text \in {"true", "false"} : SetFlagLate(text)
    \/ \E t \in PeerThreads : AuditFlag(t)
    \/ \E text \in auditsOut : AuditLands(text)

PeerSpec == PeerInit /\ [][PeerNext]_peerVars

-----------------------------------------------------------------------------
\* Once the registration of a workspace returned, a request that starts is answered
\* with a row get_peer chooses from the registry as it is from then on - or an older
\* choice was in hand, in the list or in another thread, at the eviction.
PeerAnswersCurrent ==
    \A t \in PeerThreads :
        LET c == peerCall[t]
        IN  c.pc = "answered" /\ c.answer = "chosen" =>
                \/ c.wid \in heldOver
                \/ \E n \in c.from..Len(registry) : c.row = Resolved(c.wid, n)

\* The audit trail ends with the flag's value once a change has been made on its own,
\* until another is between its two statements, fails to leave its audit row, is made
\* by a MERGE that outlives its call, or overlaps a third, or until an audit row lands
\* after its call; and then again from the next change that is made on its own.
AuditTellsTheFlag ==
    \/ flagAudit = flagRow
    \/ auditBlurred
    \/ Auditing

\* A change an admin was told of is in force, and on record: of the registry, of
\* the flag that switches it on.
ChangesTakeEffect == PeerAnswersCurrent /\ AuditTellsTheFlag

=============================================================================
