------------------------------ MODULE KeyedCache ------------------------------
(***************************************************************************)
(* The single-flight, LRU-bounded cache of backend/lineage_service.py         *)
(* (_get_keyed_lock, _cache_get, _cache_set, _cached_fetch and the accessors   *)
(* built on them), and the accessor of perf_patches.py that fills the same      *)
(* cache from the Delta table the replicas share, without the keyed lock.      *)
(* backend/transform_service.py has a second copy of the keyed cache;          *)
(* TransformCache adds what is particular to it.                              *)
(*                                                                          *)
(* Data are abstracted to their age: a value is the time at which the system   *)
(* tables were read to make it.  A call is a frame: a request, or the nested    *)
(* call a fetcher makes (list_all_tables needs list_catalogs, load_edges needs *)
(* the latest run id) while it holds its own lock.                            *)
(***************************************************************************)
EXTENDS Integers, Sequences, FiniteSets

CONSTANTS
    Requests,   \* frames of requests, one per worker thread
    Nested,     \* [Requests -> frames]: the frame of the call a fetcher makes
    Keys,       \* cache keys
    Needs,      \* [Keys -> Keys or None]: the key a fetch of this key asks for
    Side,       \* [Keys -> Keys or None]: the key a fetch of this key also writes
    Tier,       \* keys whose patched accessor asks the shared Delta table first
    Locks,      \* lock objects (bound on those alive at once)
    LocksMax,   \* _KEYED_LOCKS_MAX
    LastTime,   \* bound: changes of the system tables
    None        \* no value

Frames == Requests \union {Nested[f] : f \in Requests}
Times == 0..LastTime

ASSUME CacheAssumption ==
    /\ Nested \in [Requests -> Frames] /\ \A f \in Requests : Nested[f] \notin Requests
    /\ \A f, g \in Requests : Nested[f] = Nested[g] => f = g
    /\ Needs \in [Keys -> Keys \union {None}] /\ Side \in [Keys -> Keys \union {None}]
    /\ \A k \in Keys : Needs[k] # None => Needs[Needs[k]] = None /\ Side[k] = None
    /\ Tier \subseteq Keys
    /\ LocksMax \in Nat \ {0} /\ LastTime \in Nat
    /\ None \notin Locks \union Frames \union Times \union Keys

VARIABLES
    now,       \* the state the system tables are in
    cache,     \* _cache: the value's age, None for no entry
    order,     \* _keyed_locks: its keys from least to most recently used
    lockOf,    \* _keyed_locks: the lock object of a registered key
    owner,     \* the frame holding a lock object
    pc, key, live, lock, result,   \* each frame's locals; live is skip_cache
    columns,   \* ... and the columns it has read for another key
    lost,      \* history: keys whose lock left the registry while a frame had it
    bare,      \* history: keys put without their lock
    seen,      \* history: newest value delivered per key
    floor,     \* history: when f was called, seen[key[f]], or now if it is live
    flushedAt, \* history: now at the last invalidate_cache()
    straddled, \* history: keys with data in flight at the last invalidate_cache(),
               \* or filled with an older shared row since
    fresh      \* history: f was called after the last invalidate_cache()

registry == <<order, lockOf, lost>>
flushVars == <<flushedAt, straddled>>
callVars == <<key, live, floor, fresh>>
sideVars == <<columns, bare>>
vars == <<now, cache, order, lockOf, owner, pc, key, live, lock, result, columns, lost,
          bare, seen, floor, flushedAt, straddled, fresh>>

Locations == {"idle", "row", "loading", "locking", "waiting", "checking", "fetching",
              "nested", "storing", "releasing", "returned"}

VarsOK ==
    /\ now \in Times
    /\ cache \in [Keys -> Times \union {None}]
    /\ order \in Seq(Keys)
    /\ lockOf \in [Keys -> Locks \union {None}]
    /\ owner \in [Locks -> Frames \union {None}]
    /\ pc \in [Frames -> Locations]
    /\ key \in [Frames -> Keys \union {None}]
    /\ live \in [Frames -> BOOLEAN]
    /\ lock \in [Frames -> Locks \union {None}]
    /\ result \in [Frames -> Times \union {None}]
    /\ columns \in [Frames -> Times \union {None}]
    /\ bare \in SUBSET Keys
    /\ lost \in SUBSET Keys
    /\ seen \in [Keys -> Times]
    /\ floor \in [Frames -> Times]
    /\ flushedAt \in Times
    /\ straddled \in SUBSET Keys
    /\ fresh \in [Frames -> BOOLEAN]

\* Types, and every lock object that is held is held by a call that knows it and will
\* leave its `with` block.
TypeOK == VarsOK /\ \A l \in Locks : owner[l] # None => lock[owner[l]] = l

Init ==
    /\ now = 0
    /\ cache = [k \in Keys |-> None]
    /\ order = <<>>
    /\ lockOf = [k \in Keys |-> None]
    /\ owner = [l \in Locks |-> None]
    /\ pc = [f \in Frames |-> "idle"]
    /\ key = [f \in Frames |-> None]
    /\ live = [f \in Frames |-> FALSE]
    /\ lock = [f \in Frames |-> None]
    /\ result = [f \in Frames |-> None]
    /\ columns = [f \in Frames |-> None]
    /\ lost = {} /\ bare = {}
    /\ seen = [k \in Keys |-> 0]
    /\ floor = [f \in Frames |-> 0]
    /\ flushedAt = 0 /\ straddled = {}
    /\ fresh = [f \in Frames |-> FALSE]

-----------------------------------------------------------------------------
Goto(f, from, to) == pc[f] = from /\ pc' = [pc EXCEPT ![f] = to]

\* What a call does first: remember its arguments, look the key up and either
\* return the cached value or go for the key's lock.
Called(f, k, lv) ==
    /\ key' = [key EXCEPT ![f] = k]
    /\ live' = [live EXCEPT ![f] = lv]
    /\ floor' = [floor EXCEPT ![f] = IF lv THEN now ELSE seen[k]]
    /\ fresh' = [fresh EXCEPT ![f] = TRUE]

\* A call that is over leaves nothing behind.
Forget(f) ==
    /\ key' = [key EXCEPT ![f] = None]
    /\ live' = [live EXCEPT ![f] = FALSE]
    /\ floor' = [floor EXCEPT ![f] = 0]
    /\ fresh' = [fresh EXCEPT ![f] = FALSE]

\* Mutants: a live request served from the cache; the lock released for the fetch;
\* a fetcher that asks for its own key; acquire() and release() around the fetch in
\* place of `with`, so that a failed fetch keeps the lock; a flush by prefix that
\* reaches the lineage keys only.
HitEvenLive(k, lv) == cache[k] # None
RecheckReleases(f) ==
    /\ Goto(f, "checking", "fetching")
    /\ owner' = [owner EXCEPT ![lock[f]] = None]
    /\ UNCHANGED <<now, cache, registry, lock, result, seen, callVars, flushVars, sideVars>>
NestSelf(f) ==
    LET g == Nested[f]
        k == key[f]
    IN  /\ f \in Requests /\ pc[f] = "fetching" /\ pc[g] = "idle"
        /\ Needs[k] # None
        /\ Called(g, k, FALSE)
        /\ pc' = [pc EXCEPT ![f] = "nested", ![g] = "locking"]
        /\ UNCHANGED <<now, cache, registry, owner, lock, result, seen, flushVars, sideVars>>
ReleaseIfFetched(f) ==
    /\ Goto(f, "releasing", "returned")
    /\ owner' = IF result[f] = None THEN owner ELSE [owner EXCEPT ![lock[f]] = None]
    /\ lock' = [lock EXCEPT ![f] = None]
    /\ UNCHANGED <<now, cache, registry, result, seen, callVars, flushVars, sideVars>>
FlushPrefix ==
    /\ cache' = [k \in Keys |-> IF Side[k] = None THEN cache[k] ELSE None]
    /\ flushedAt' = now
    /\ straddled' = {}
    /\ fresh' = [f \in Frames |-> FALSE]
    /\ UNCHANGED <<now, registry, owner, pc, key, live, lock, result, seen, floor, sideVars>>

Hit(k, lv) == ~lv /\ cache[k] # None

\* A request arrives.  Only a key without a nested call can be asked for live.
Ask(f, k, lv) ==
    /\ lv => Needs[k] = None
    /\ Called(f, k, lv)
    /\ \/ /\ Hit(k, lv)
          /\ Goto(f, "idle", "returned")
          /\ result' = [result EXCEPT ![f] = cache[k]]
       \/ /\ ~Hit(k, lv)
          /\ Goto(f, "idle", "locking")
          /\ UNCHANGED result
    /\ UNCHANGED <<now, cache, registry, owner, lock, seen, flushVars, sideVars>>

\* _patched_get_table_lineage and _patched_get_lineage_trace, for callers that import
\* the accessor late: the look-up, then the shared Delta table, then the original
\* accessor, whose first look-up MissRow is.
AskTier(f, k) ==
    /\ k \in Tier
    /\ Called(f, k, FALSE)
    /\ \/ /\ Hit(k, FALSE)
          /\ Goto(f, "idle", "returned")
          /\ result' = [result EXCEPT ![f] = cache[k]]
       \/ /\ ~Hit(k, FALSE)
          /\ Goto(f, "idle", "row")
          /\ UNCHANGED result
    /\ UNCHANGED <<now, cache, registry, owner, lock, seen, flushVars, sideVars>>

\* A row that some replica published when the system tables were in some earlier state,
\* and that has not expired (DeltaTier has the table in detail) ...
ReadRow(f) ==
    /\ Goto(f, "row", "loading")
    /\ \E v \in 0..now : result' = [result EXCEPT ![f] = v]
    /\ UNCHANGED <<now, cache, registry, owner, lock, seen, callVars, flushVars, sideVars>>

\* ... or there is none, or the read fails or does not validate.
MissRow(f) ==
    /\ \/ /\ Goto(f, "row", "returned")
          /\ Hit(key[f], live[f])
          /\ result' = [result EXCEPT ![f] = cache[key[f]]]
       \/ /\ Goto(f, "row", "locking")
          /\ ~Hit(key[f], live[f])
          /\ UNCHANGED result
    /\ UNCHANGED <<now, cache, registry, owner, lock, seen, callVars, flushVars, sideVars>>

\* The row is put over whatever is cached by now, without the key's lock.
LoadRow(f) ==
    /\ Goto(f, "loading", "returned")
    /\ cache' = [cache EXCEPT ![key[f]] = result[f]]
    /\ bare' = bare \union {key[f]}
    /\ straddled' = IF result[f] < flushedAt THEN straddled \union {key[f]} ELSE straddled
    /\ UNCHANGED <<now, registry, owner, lock, result, columns, seen, callVars, flushedAt>>

-----------------------------------------------------------------------------
\* _get_keyed_lock, in one step because it runs under _keyed_locks_guard.
InUse == {lockOf[k] : k \in Keys} \union {lock[f] : f \in Frames}
Fresh == CHOOSE l \in Locks : l \notin InUse

\* k moved to, or added at, the most recently used end.
Touched(k) ==
    IF \E i \in 1..Len(order) : order[i] = k
    THEN LET p == CHOOSE i \in 1..Len(order) : order[i] = k
         IN  SubSeq(order, 1, p - 1) \o SubSeq(order, p + 1, Len(order)) \o <<k>>
    ELSE Append(order, k)

\* How many of the least recently used keys of s the eviction loop pops: it stops at
\* the cap, or at a lock somebody holds.
Popped(s, locks) ==
    Cardinality({i \in 1..(Len(s) - LocksMax) : \A j \in 1..i : owner[locks[s[j]]] = None})

\* A held lock at the old end is moved to the new end instead.
Rotated(s) == Append(Tail(s), Head(s))

GetLock(f) ==
    LET k == key[f]
        new == lockOf[k] = None
        l == IF new THEN Fresh ELSE lockOf[k]
        locks == [lockOf EXCEPT ![k] = l]
        s == Touched(k)
        n == Popped(s, locks)
        gone == {x \in Keys : \E i \in 1..n : s[i] = x}
        rest == SubSeq(s, n + 1, Len(s))
    IN  /\ Goto(f, "locking", "waiting")
        /\ new => Locks \ InUse # {}
        /\ lock' = [lock EXCEPT ![f] = l]
        /\ order' = IF Len(rest) > LocksMax THEN Rotated(rest) ELSE rest
        /\ lockOf' = [x \in Keys |-> IF x \in gone THEN None ELSE locks[x]]
        /\ lost' = lost \union {x \in gone : \E g \in Frames : lock'[g] = locks[x]}
        /\ UNCHANGED <<now, cache, owner, result, seen, callVars, flushVars, sideVars>>

Acquire(f) ==
    /\ Goto(f, "waiting", "checking")
    /\ owner[lock[f]] = None
    /\ owner' = [owner EXCEPT ![lock[f]] = f]
    /\ UNCHANGED <<now, cache, registry, lock, result, seen, callVars, flushVars, sideVars>>

\* The second look-up, under the lock.
Recheck(f) ==
    /\ \/ /\ Goto(f, "checking", "releasing")
          /\ Hit(key[f], live[f])
          /\ result' = [result EXCEPT ![f] = cache[key[f]]]
       \/ /\ Goto(f, "checking", "fetching")
          /\ ~Hit(key[f], live[f])
          /\ UNCHANGED result
    /\ UNCHANGED <<now, cache, registry, owner, lock, seen, callVars, flushVars, sideVars>>

-----------------------------------------------------------------------------
\* The fetchers.  Most issue their statements and are done.  Two also read columns and
\* cache them under the columns' own keys, whose locks they do not take: a lineage
\* before its own read (_fetch_table_lineage), a trace after its own, for each catalog
\* it reached (_build_graph_from_rows).  Either order is allowed here for both.
ReadColumns(f) ==
    /\ pc[f] \in {"fetching", "storing"} /\ columns[f] = None
    /\ Side[key[f]] # None
    /\ columns' = [columns EXCEPT ![f] = now]
    /\ UNCHANGED <<now, cache, registry, owner, pc, lock, result, bare, seen, callVars, flushVars>>

StoreColumns(f) ==
    /\ columns[f] # None
    /\ cache' = [cache EXCEPT ![Side[key[f]]] = columns[f]]
    /\ bare' = bare \union {Side[key[f]]}
    /\ columns' = [columns EXCEPT ![f] = None]
    /\ UNCHANGED <<now, registry, owner, pc, lock, result, seen, callVars, flushVars>>

\* The statements themselves.
Read(f) ==
    /\ Goto(f, "fetching", "storing")
    /\ Needs[key[f]] = None /\ columns[f] = None
    /\ result' = [result EXCEPT ![f] = now]
    /\ UNCHANGED <<now, cache, registry, owner, lock, seen, callVars, flushVars, sideVars>>

\* A fetch that comes to nothing: it raises, at a statement or in what it does with the
\* rows, before or after a nested call or its columns; or it returns what its accessor
\* refuses to cache (an empty list, lineage_ok = False, a truncated trace).
FetchFails(f) ==
    /\ pc[f] \in {"fetching", "storing"}
    /\ pc' = [pc EXCEPT ![f] = "releasing"]
    /\ result' = [result EXCEPT ![f] = None]
    /\ columns' = [columns EXCEPT ![f] = None]
    /\ UNCHANGED <<now, cache, registry, owner, lock, bare, seen, callVars, flushVars>>

\* The nested call; its data make the outer value no newer than they are.
Nest(f) ==
    LET g == Nested[f]
        k == Needs[key[f]]
    IN  /\ f \in Requests /\ pc[f] = "fetching" /\ pc[g] = "idle"
        /\ k # None
        /\ Called(g, k, FALSE)
        /\ pc' = [pc EXCEPT ![f] = "nested",
                            ![g] = IF cache[k] # None THEN "returned" ELSE "locking"]
        /\ result' = [result EXCEPT ![g] = cache[k]]
        /\ UNCHANGED <<now, cache, registry, owner, lock, seen, flushVars, sideVars>>

\* History: what a call hands over.
Newer(a, b) == IF b # None /\ b > a THEN b ELSE a

Delivered(f) == seen' = [seen EXCEPT ![key[f]] = Newer(@, result[f])]

\* The nested call's result is there for the rest of the fetch.
Collect(f) ==
    LET g == Nested[f]
    IN  /\ pc[f] = "nested" /\ pc[g] = "returned"
        /\ pc' = [pc EXCEPT ![f] = "storing", ![g] = "idle"]
        /\ result' = [result EXCEPT ![f] = result[g], ![g] = None]
        /\ Forget(g)
        /\ Delivered(g)
        /\ UNCHANGED <<now, cache, registry, owner, lock, flushVars, sideVars>>

\* _cache_set, for a result worth keeping.
Store(f) ==
    /\ Goto(f, "storing", "releasing") /\ columns[f] = None
    /\ cache' = IF result[f] = None THEN cache ELSE [cache EXCEPT ![key[f]] = result[f]]
    /\ UNCHANGED <<now, registry, owner, lock, result, seen, callVars, flushVars, sideVars>>

\* `with lock` ends, by return or by exception.
Release(f) ==
    /\ Goto(f, "releasing", "returned")
    /\ owner' = [owner EXCEPT ![lock[f]] = None]
    /\ lock' = [lock EXCEPT ![f] = None]
    /\ UNCHANGED <<now, cache, registry, result, seen, callVars, flushVars, sideVars>>

\* The answer reaches the client.
Finish(f) ==
    /\ f \in Requests
    /\ Goto(f, "returned", "idle")
    /\ Delivered(f)
    /\ result' = [result EXCEPT ![f] = None]
    /\ Forget(f)
    /\ UNCHANGED <<now, cache, registry, owner, lock, flushVars, sideVars>>

-----------------------------------------------------------------------------
\* An entry goes: its TTL, the byte cap, the entry cap, or evict_cache_entry.
Drop(k) ==
    /\ cache[k] # None
    /\ cache' = [cache EXCEPT ![k] = None]
    /\ UNCHANGED <<now, registry, owner, pc, lock, result, seen, callVars, flushVars, sideVars>>

\* Keys whose old data are in a frame's hands on their way into the cache.
InHand ==
    {key[f] : f \in {g \in Frames : pc[g] = "storing"}}
    \union {Side[key[f]] : f \in {g \in Frames : columns[g] # None}}
    \union {key[f] : f \in {g \in Requests :
                pc[g] = "nested" /\ pc[Nested[g]] \in {"storing", "releasing", "returned"}}}

\* invalidate_cache().
Flush ==
    /\ cache' = [k \in Keys |-> None]
    /\ flushedAt' = now
    /\ straddled' = InHand
    /\ fresh' = [f \in Frames |-> FALSE]
    /\ UNCHANGED <<now, registry, owner, pc, key, live, lock, result, seen, floor, sideVars>>

\* The system tables change.
Tick ==
    /\ now < LastTime
    /\ now' = now + 1
    /\ UNCHANGED <<cache, registry, owner, pc, lock, result, seen, callVars, flushVars, sideVars>>

Step(f) ==
    \/ ReadRow(f) \/ MissRow(f) \/ LoadRow(f)
    \/ GetLock(f) \/ Acquire(f) \/ Recheck(f)
    \/ ReadColumns(f) \/ StoreColumns(f) \/ Read(f) \/ FetchFails(f)
    \/ Nest(f) \/ Collect(f) \/ Store(f) \/ Release(f) \/ Finish(f)

Next ==
    \/ \E f \in Requests, k \in Keys, lv \in BOOLEAN : Ask(f, k, lv)
    \/ \E f \in Requests, k \in Keys : AskTier(f, k)
    \/ \E f \in Frames : Step(f)
    \/ \E k \in Keys : Drop(k)
    \/ Flush
    \/ Tick

Spec == Init /\ [][Next]_vars

-----------------------------------------------------------------------------
Fetching(f) == pc[f] \in {"fetching", "nested", "storing"}

\* Single flight: two calls fetch one key together only after its lock was dropped
\* from the bounded registry while a call that had not acquired it yet was going to
\* use it.
SingleFlight ==
    \A f, g \in Frames :
        f # g /\ Fetching(f) /\ Fetching(g) /\ key[f] = key[g] => key[f] \in lost

\* Keys that have been put without their lock (the columns of a lineage or a trace, a
\* row of the shared table), or whose lock was lost, or whose data come from such a key.
Exempt(k) == k \in bare \union lost \/ Needs[k] \in bare \union lost

\* Time never runs backwards for a client: as long as every put of its key was made
\* under the key's lock, a call returns data no older than what any earlier call for
\* the key had returned, through hits, expiry, evictions, flushes and failed fetches;
\* and a live call always returns data read after it was made.
ReadsNeverGoBack ==
    \A f \in Frames :
        pc[f] = "returned" /\ result[f] # None /\ (live[f] \/ ~Exempt(key[f]))
            => result[f] >= floor[f]

\* After invalidate_cache() a call can only be answered with older data if a fetch had
\* them in hand at that moment and stored them afterwards, or the patched accessor has
\* since filled the key with a row of the shared table older than the flush.
FlushSticks ==
    \A f \in Frames :
        pc[f] = "returned" /\ fresh[f] /\ result[f] # None /\ result[f] < flushedAt
            => key[f] \in straddled \/ Needs[key[f]] \in straddled

\* Keyed locks are held across nested keyed calls, but never in a circle: whenever
\* a call is under way, one of them can go on.
Blocked(f) ==
    \/ pc[f] = "waiting" /\ owner[lock[f]] # None
    \/ pc[f] = "nested" /\ pc[Nested[f]] # "returned"
NoCircularWait ==
    (\E f \in Frames : pc[f] # "idle") => \E f \in Frames : pc[f] # "idle" /\ ~Blocked(f)
=============================================================================
