------------------------------ MODULE RateLimit ------------------------------
(***************************************************************************)
(* RateLimitMiddleware of backend/main.py: the requests each user was let  *)
(* through within the last window, with at most max_requests of them, and  *)
(* the user let through longest ago forgotten when there are too many.     *)
(* Nothing awaits while the lock is held, so a request is one step.        *)
(***************************************************************************)
EXTENDS Integers, Sequences, FiniteSets

CONSTANTS
    LimitUsers,     \* users
    RateMax,        \* max_requests
    RateWindow,     \* window_seconds
    MaxTracked,     \* MAX_TRACKED_USERS
    MaxPassed,      \* bound: requests let through for one user
    MaxTime         \* bound: seconds

ASSUME LimitBounds == {RateMax, RateWindow, MaxTracked, MaxPassed, MaxTime} \subseteq Nat \ {0}

VARIABLES
    time,           \* time.time()
    requests,       \* self.requests, in its order: <<user, the times of its list>>
    passed,         \* history: the times at which each user was let through
    shortened       \* history: users forgotten with a request in their window

limitVars == <<time, requests, passed, shortened>>

RateLimitInit ==
    /\ time = 0 /\ requests = << >> /\ shortened = {}
    /\ passed = [u \in LimitUsers |-> << >>]

\* A list of times is the set of them, each with its number: two may be equal.
ThisTime(u) == [nth |-> Len(passed[u]) + 1, at |-> time]

Recent(times) == {t \in times : time - t.at < RateWindow}
Tracked(Q) == {Q[i][1] : i \in DOMAIN Q}
PlaceOf(Q, u) == CHOOSE i \in DOMAIN Q : Q[i][1] = u
EntryOf(Q, u) == IF u \in Tracked(Q) THEN Recent(Q[PlaceOf(Q, u)][2]) ELSE {}

\* popitem(last=False), when there are too many.
Evicted == IF Len(requests) > MaxTracked THEN Tail(requests) ELSE requests

\* An accepted user who keeps its place.
InPlace(Q, u, times) ==
    IF u \in Tracked(Q) THEN [i \in DOMAIN Q |-> IF Q[i][1] = u THEN <<u, times>> ELSE Q[i]]
    ELSE Append(Q, <<u, times>>)

\* move_to_end.
Without(Q, u) ==
    IF u \in Tracked(Q)
    THEN [i \in 1..Len(Q) - 1 |-> Q[IF i < PlaceOf(Q, u) THEN i ELSE i + 1]] ELSE Q
ToEnd(Q, u, times) == Append(Without(Q, u), <<u, times>>)

Forget ==
    shortened' = shortened \union
        {u \in Tracked(requests) \ Tracked(Evicted) : EntryOf(requests, u) # {}}

AtLimit(u) == Cardinality(EntryOf(Evicted, u)) >= RateMax

LetThrough(u) ==
    /\ ~AtLimit(u) /\ Len(passed[u]) < MaxPassed
    /\ requests' = ToEnd(Evicted, u, EntryOf(Evicted, u) \union {ThisTime(u)})
    /\ passed' = [passed EXCEPT ![u] = Append(@, time)]
    /\ Forget /\ UNCHANGED time

\* 429: its times are pruned, its place stays.
Refuse(u) ==
    /\ AtLimit(u)
    /\ requests' = InPlace(Evicted, u, EntryOf(Evicted, u))
    /\ Forget /\ UNCHANGED <<time, passed>>

LimitTick == time < MaxTime /\ time' = time + 1 /\ UNCHANGED <<requests, passed, shortened>>

RateLimitNext == LimitTick \/ \E u \in LimitUsers : LetThrough(u) \/ Refuse(u)

RateLimitSpec == RateLimitInit /\ [][RateLimitNext]_limitVars

-----------------------------------------------------------------------------
RateLimitTypeOK ==
    /\ time \in 0..MaxTime
    /\ Tracked(requests) \subseteq LimitUsers
    /\ \A i, j \in DOMAIN requests : requests[i][1] = requests[j][1] => i = j
    /\ \A u \in Tracked(requests) : Len(passed[u]) > 0

\* "Per-user rate limiter": no user is let through more than max_requests times
\* within one window, whoever else was refused or forgotten meanwhile, unless it
\* was itself forgotten.
RateHolds ==
    \A u \in LimitUsers \ shortened :
        Cardinality({i \in DOMAIN passed[u] : time - passed[u][i] < RateWindow}) <= RateMax

\* "with LRU eviction": who is forgotten was let through before everyone else
\* that is tracked, a user who keeps being refused included.
ForgetsTheQuietest ==
    [][\A u \in Tracked(requests) \ Tracked(requests') :
         \A v \in Tracked(requests) \ {u} :
             passed[u][Len(passed[u])] <= passed[v][Len(passed[v])]]_limitVars

\* The limit holds and is lifted from the quietest only.
FairLimit == []RateHolds /\ ForgetsTheQuietest

=============================================================================
