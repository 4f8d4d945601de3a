------------------------------ MODULE DeltaTier ------------------------------
(***************************************************************************)
(* The cache tier the replicas share (cache_service.py, and the reads that *)
(* go through it, perf_patches.py): behind the in-process entry of a graph *)
(* stands a Delta row with an expiry of its own. A value is represented by *)
(* the hour it was read from the system tables. Requests are short beside  *)
(* the lifetime of an entry: the clock moves when none is under way.       *)
(* The readers that imported the unpatched function never see the row.     *)
(***************************************************************************)
EXTENDS Integers, FiniteSets

CONSTANTS
    Replicas,       \* app processes
    TierThreads,    \* threads that answer requests
    TierTTL,        \* CACHE_TTL_SECONDS, of both tiers
    MaxHours        \* bound: hours

ASSUME TierBounds == TierTTL \in Nat \ {0} /\ MaxHours \in Nat \ {0}

VARIABLES
    home,       \* the replica of each thread: the proxy's choice, made once
    hour,       \* the clock, of the replicas and of the warehouse
    lru,        \* each replica's entry: the value and the time it was put
    row,        \* the Delta row: the value and when it expires; no row has expired
    request,    \* each thread's request
    counted,    \* what an admin call has counted: "none", "expire", "vacuum"
    crossed     \* history: a read published what another thread had put meanwhile

tierVars == <<home, hour, lru, row, request, counted, crossed>>

NoValue == -1
NoEntry == [val |-> NoValue, at |-> 0]
NoRequest == [at |-> "idle", val |-> NoValue, tier |-> FALSE, cached |-> FALSE]

DeltaTierInit ==
    /\ home \in [TierThreads -> Replicas]
    /\ hour = 0 /\ lru = [r \in Replicas |-> NoEntry]
    /\ row = [val |-> NoValue, exp |-> 0]
    /\ request = [t \in TierThreads |-> NoRequest]
    /\ counted = "none" /\ crossed = FALSE

MyEntry(t) == lru[home[t]]
InLru(t) == MyEntry(t).val # NoValue /\ hour - MyEntry(t).at < TierTTL
RowLive == row.exp > hour
KeyFree(t) == \A u \in TierThreads : home[u] = home[t] => request[u].at # "fetch"
Ready(t) == request[t].at \in {"idle", "answered"}
At(t, place) == request' = [request EXCEPT ![t].at = place]
AnswerWith(t, v) ==
    request' = [request EXCEPT ![t] = [NoRequest EXCEPT !.at = "answered", !.val = v]]

\* A live in-process entry answers at once, patched or not.
AskWarm(t) ==
    /\ Ready(t) /\ InLru(t)
    /\ AnswerWith(t, MyEntry(t).val)
    /\ UNCHANGED <<home, hour, lru, row, counted, crossed>>

\* Otherwise the patched read asks the row, the plain one the system tables.
AskCold(t, tier) ==
    /\ Ready(t) /\ ~InLru(t)
    /\ request' = [request EXCEPT ![t] =
           [NoRequest EXCEPT !.at = IF tier THEN "row" ELSE "plain", !.tier = tier]]
    /\ UNCHANGED <<home, hour, lru, row, counted, crossed>>

\* skip_cache: neither tier is asked, and the row is not written.
AskRefresh(t) ==
    /\ Ready(t) /\ KeyFree(t)
    /\ request' = [request EXCEPT ![t] = [NoRequest EXCEPT !.at = "fetch"]]
    /\ UNCHANGED <<home, hour, lru, row, counted, crossed>>

\* DeltaCacheService.get: the live row, or None, for any failure too.
ReadRow(t) ==
    /\ request[t].at = "row"
    /\ \/ RowLive /\ request' = [request EXCEPT ![t].at = "load", ![t].val = row.val]
       \/ At(t, "plain")
    /\ UNCHANGED <<home, hour, lru, row, counted, crossed>>

\* The row becomes the replica's entry, as if it had been read just now.
LoadRow(t) ==
    /\ request[t].at = "load"
    /\ lru' = [lru EXCEPT ![home[t]] = [val |-> request[t].val, at |-> hour]]
    /\ AnswerWith(t, request[t].val)
    /\ UNCHANGED <<home, hour, row, counted, crossed>>

\* A result the original fetched is published; one it had cached is not.
Publishes(t) == request[t].tier /\ ~request[t].cached

\* The original: an entry another thread has put meanwhile, or the key's lock.
AskOriginal(t) ==
    /\ request[t].at = "plain"
    /\ \/ /\ InLru(t)
          /\ request' = [request EXCEPT ![t] = [@ EXCEPT
                 !.val = MyEntry(t).val, !.cached = TRUE, !.at = "fetched"]]
       \/ ~InLru(t) /\ KeyFree(t) /\ At(t, "fetch")
    /\ UNCHANGED <<home, hour, lru, row, counted, crossed>>

\* The system tables answer and the entry is put, or a query fails and it is not.
FetchTier(t) ==
    /\ request[t].at = "fetch"
    /\ \/ /\ lru' = [lru EXCEPT ![home[t]] = [val |-> hour, at |-> hour]]
          /\ request' = [request EXCEPT ![t].val = hour, ![t].at = "fetched"]
       \/ At(t, "fetched") /\ UNCHANGED lru
    /\ UNCHANGED <<home, hour, row, counted, crossed>>

\* The entry is read back to be published.
ReadBack(t) ==
    /\ request[t].at = "fetched"
    /\ IF Publishes(t) /\ InLru(t)
       THEN /\ request' = [request EXCEPT ![t].at = "publish", ![t].val = MyEntry(t).val]
            /\ crossed' = (crossed \/ (~request[t].cached /\ MyEntry(t).val # request[t].val))
       ELSE AnswerWith(t, request[t].val) /\ UNCHANGED crossed
    /\ UNCHANGED <<home, hour, lru, row, counted>>

\* DeltaCacheService.set: one MERGE, or nothing: too large, or a failure.
PublishRow(t) ==
    /\ request[t].at = "publish"
    /\ \/ row' = [val |-> request[t].val, exp |-> hour + TierTTL]
       \/ UNCHANGED row
    /\ AnswerWith(t, request[t].val)
    /\ UNCHANGED <<home, hour, lru, counted, crossed>>

\* invalidate_namespace and vacuum count first, and write when there is something.
CountRows(what) ==
    /\ counted = "none" /\ what \in {"expire", "vacuum"}
    /\ IF what = "expire" THEN RowLive ELSE ~RowLive /\ row.val # NoValue
    /\ counted' = what
    /\ UNCHANGED <<home, hour, lru, row, request, crossed>>

ExpireRows ==
    /\ counted = "expire" /\ counted' = "none"
    /\ row' = [row EXCEPT !.exp = 0]
    /\ UNCHANGED <<home, hour, lru, request, crossed>>

\* The rows that were counted, whatever has become of them.
NullCounted == TRUE

\* WHERE expires_at <= current_timestamp(), as the UPDATE runs.
NullExpired == ~RowLive

VacuumRows ==
    /\ counted = "vacuum" /\ counted' = "none"
    /\ row' = IF NullExpired THEN [row EXCEPT !.val = NoValue] ELSE row
    /\ UNCHANGED <<home, hour, lru, request, crossed>>

\* A replica starts again with no entry.
RestartReplica(r) ==
    /\ lru[r] # NoEntry \/ \E t \in TierThreads : home[t] = r /\ request[t] # NoRequest
    /\ lru' = [lru EXCEPT ![r] = NoEntry]
    /\ request' = [t \in TierThreads |-> IF home[t] = r THEN NoRequest ELSE request[t]]
    /\ UNCHANGED <<home, hour, row, counted, crossed>>

HourPasses ==
    /\ hour < MaxHours /\ \A t \in TierThreads : Ready(t)
    /\ hour' = hour + 1
    /\ request' = [t \in TierThreads |-> NoRequest]
    /\ UNCHANGED <<home, lru, row, counted, crossed>>

DeltaTierNext ==
    \/ \E t \in TierThreads :
         \/ AskWarm(t) \/ AskRefresh(t) \/ ReadRow(t) \/ LoadRow(t) \/ AskOriginal(t)
         \/ FetchTier(t) \/ ReadBack(t) \/ PublishRow(t)
         \/ \E tier \in BOOLEAN : AskCold(t, tier)
    \/ \E what \in {"expire", "vacuum"} : CountRows(what)
    \/ ExpireRows \/ VacuumRows \/ HourPasses
    \/ \E r \in Replicas : RestartReplica(r)

DeltaTierSpec == DeltaTierInit /\ [][DeltaTierNext]_tierVars

-----------------------------------------------------------------------------
DeltaTierTypeOK ==
    /\ hour \in 0..MaxHours
    /\ \A r \in Replicas : lru[r].val \in NoValue..hour /\ lru[r].at \in 0..hour
    /\ row.val \in NoValue..hour /\ row.exp \in 0..(hour + TierTTL)
    /\ \A r \in Replicas :
         Cardinality({t \in TierThreads : home[t] = r /\ request[t].at = "fetch"}) <= 1

\* "lineage data that is TTL'd": each tier ages a value by one lifetime, and a
\* value a replica loaded from the row is never published again, so that no answer
\* is two lifetimes old, however the replicas share and restart. The exception is
\* a thread that publishes, instead of what it fetched, what another put meanwhile.
TwoLifetimes ==
    crossed \/ \A t \in TierThreads : request[t].at = "answered" /\ request[t].val # NoValue =>
        hour - request[t].val < 2 * TierTTL

\* A live row has its payload: vacuum never empties one that was published while
\* it counted.
LiveRowIsWhole == RowLive => row.val # NoValue

\* The shared row bounds the age of what is shown and is whole while it lives.
TierBoundsAge == TwoLifetimes /\ LiveRowIsWhole

=============================================================================
