---------------------------- MODULE TransformCache ----------------------------
(***************************************************************************)
(* backend/transform_service.py: its own copy of the single-flight cache      *)
(* (_transform_cached_fetch, _get_transform_lock; no live mode), and           *)
(* clear_transform_lineage, which flushes the cache and then deletes the       *)
(* stored lineage.  Clients ask for traces; a trace's fetcher asks for the      *)
(* table's edges, as load_edges asks in turn for the id of the latest run:     *)
(* that third level repeats the second and is folded into it.                *)
(* A change of the system tables is here a build that stores new edges.       *)
(***************************************************************************)
EXTENDS KeyedCache

\* This copy has no accessor that asks a shared table.
ASSUME NoTier == Tier = {}

VARIABLES
    wiping,    \* a clear_transform_lineage call is between its flush and its deletes
    wipedAt,   \* history: the state of the store the last wipe left behind
    refilled,  \* history: keys cached, or on their way there, at the last wipe
    afterWipe  \* history: f was called after the last wipe returned

wipeVars == <<wiping, wipedAt, refilled>>
tvars == <<vars, wiping, wipedAt, refilled, afterWipe>>

TInit ==
    /\ Init
    /\ wiping = FALSE /\ wipedAt = 0 /\ refilled = {}
    /\ afterWipe = [f \in Frames |-> FALSE]

-----------------------------------------------------------------------------
\* A call made now is after the last wipe, unless one is under way.
Calls ==
    afterWipe' = [f \in Frames |->
        CASE pc'[f] = "idle" -> FALSE
          [] pc[f] = "idle" /\ pc'[f] # "idle" -> ~wiping
          [] OTHER -> afterWipe[f]]

\* Only what no fetcher asks for is asked for by clients.
TAsk(f, k) ==
    /\ k \notin {Needs[x] : x \in Keys}
    /\ Ask(f, k, FALSE)
    /\ Calls
    /\ UNCHANGED wipeVars
TStep(f) == Step(f) /\ Calls /\ UNCHANGED wipeVars
TDrop(k) == Drop(k) /\ UNCHANGED <<wipeVars, afterWipe>>
BuildStores == Tick /\ UNCHANGED <<wipeVars, afterWipe>>

\* invalidate_transform_cache: a poll saw its build succeed, or scope "cache".
TFlush == Flush /\ UNCHANGED <<wipeVars, afterWipe>>

\* Mutant: a failed delete that is reported as done.
WipeNothing ==
    /\ wiping /\ now < LastTime
    /\ wiping' = FALSE
    /\ wipedAt' = now + 1
    /\ refilled' = {}
    /\ afterWipe' = [f \in Frames |-> FALSE]
    /\ UNCHANGED vars

\* clear_transform_lineage with scope "table" or "all": first the flush ...
WipeFlush ==
    /\ ~wiping
    /\ wiping' = TRUE
    /\ Flush
    /\ UNCHANGED <<wipedAt, refilled, afterWipe>>

\* ... then the deletes, after which the call returns.
WipeDelete ==
    /\ wiping
    /\ Tick
    /\ wiping' = FALSE
    /\ wipedAt' = now'
    /\ refilled' = {k \in Keys : cache[k] # None} \union InHand
    /\ afterWipe' = [f \in Frames |-> FALSE]

\* ... or a delete fails, which is raised, or logged and left out of "cleared".
WipeFails ==
    /\ wiping
    /\ wiping' = FALSE
    /\ UNCHANGED <<vars, wipedAt, refilled, afterWipe>>

TNext ==
    \/ \E f \in Requests, k \in Keys : TAsk(f, k)
    \/ \E f \in Frames : TStep(f)
    \/ \E k \in Keys : TDrop(k)
    \/ BuildStores
    \/ TFlush
    \/ WipeFlush
    \/ WipeDelete
    \/ WipeFails

TSpec == TInit /\ [][TNext]_tvars

-----------------------------------------------------------------------------
\* After a wipe returned, a call can only be answered with what was stored before it
\* if a read had put that into the cache, or had it in hand, between the wipe's
\* flush and its deletes.
WipeSticks ==
    \A f \in Frames :
        pc[f] = "returned" /\ afterWipe[f] /\ result[f] # None /\ result[f] < wipedAt
            => key[f] \in refilled \/ Needs[key[f]] \in refilled
=============================================================================
