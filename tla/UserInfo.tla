------------------------------ MODULE UserInfo ------------------------------
(***************************************************************************)
(* _get_user_info of backend/main.py: who a forwarded token belongs to and *)
(* whether that user is an admin. The answer is cached per token, for      *)
(* longer when it is known than when the lookup failed; the lookup itself  *)
(* is a remote call outside the lock, made by any number of threads of one *)
(* token at once. An admin may be removed from the group at any time.      *)
(***************************************************************************)
EXTENDS Integers, Sequences, FiniteSets

CONSTANTS
    InfoThreads,    \* threads that answer requests
    Tokens,         \* forwarded tokens
    InfoTTL,        \* USER_INFO_CACHE_TTL
    FailTTL,        \* USER_INFO_FAIL_TTL
    InfoMax,        \* USER_INFO_CACHE_MAX
    MaxClock        \* bound: seconds

ASSUME InfoBounds ==
    {InfoTTL, FailTTL, InfoMax, MaxClock} \subseteq Nat \ {0} /\ FailTTL <= InfoTTL

VARIABLES
    seconds,    \* time.time()
    group,      \* the tokens whose user is in the admin group
    memberAt,   \* history: when each token's user was last in it, -1 is never
    infoCache,  \* _user_info_cache, in its order: [token, ts, known, admin]
    look        \* each thread's request

infoVars == <<seconds, group, memberAt, infoCache, look>>

NoLook == [at |-> "idle", token |-> "none", now |-> 0, known |-> FALSE, admin |-> FALSE]

UserInfoInit ==
    /\ seconds = 0 /\ group \in SUBSET Tokens
    /\ memberAt = [k \in Tokens |-> IF k \in group THEN 0 ELSE -1]
    /\ infoCache = << >> /\ look = [t \in InfoThreads |-> NoLook]

InfoEntries(k) == {i \in DOMAIN infoCache : infoCache[i].token = k}
LifeOf(e) == IF e.known THEN InfoTTL ELSE FailTTL
LiveInfo(k) == {i \in InfoEntries(k) : seconds - infoCache[i].ts < LifeOf(infoCache[i])}

\* The other tokens' entries, in their order.
OtherTokens(k) ==
    IF InfoEntries(k) = {} THEN infoCache
    ELSE LET i == CHOOSE j \in InfoEntries(k) : TRUE
         IN  [n \in 1..Len(infoCache) - 1 |-> infoCache[IF n < i THEN n ELSE n + 1]]

\* A live entry answers, and moves to the end.
InfoHit(t, k) ==
    /\ look[t].at = "idle" /\ LiveInfo(k) # {}
    /\ \E i \in LiveInfo(k) :
         /\ infoCache' = Append(OtherTokens(k), infoCache[i])
         /\ look' = [look EXCEPT ![t] = [at |-> "answered", token |-> k, now |-> seconds,
                          known |-> infoCache[i].known, admin |-> infoCache[i].admin]]
    /\ UNCHANGED <<seconds, group, memberAt>>

\* No live entry: the time is taken now, the lookup follows.
InfoMiss(t, k) ==
    /\ look[t].at = "idle" /\ LiveInfo(k) = {}
    /\ look' = [look EXCEPT ![t] = [NoLook EXCEPT !.at = "lookup", !.token = k, !.now = seconds]]
    /\ UNCHANGED <<seconds, group, memberAt, infoCache>>

\* current_user.me(); any failure is nobody, who is no admin.
LookUp(t) ==
    /\ look[t].at = "lookup"
    /\ \/ look' = [look EXCEPT ![t].at = "keep", ![t].known = TRUE,
                               ![t].admin = look[t].token \in group]
       \/ look' = [look EXCEPT ![t].at = "keep"]
    /\ UNCHANGED <<seconds, group, memberAt, infoCache>>

\* The time of the entry, when it is taken as it is stored.
TimeStored(t) == seconds

\* The time of the entry: when the request began, before the lookup.
TimeAsked(t) == look[t].now

\* Nothing is dropped when there are too many.
Unbounded(all) == all

\* popitem(last=False), the entry used longest ago.
Bounded(all) == IF Len(all) > InfoMax THEN Tail(all) ELSE all

KeepInfo(t) ==
    /\ look[t].at = "keep"
    /\ LET e == [token |-> look[t].token, ts |-> TimeAsked(t), known |-> look[t].known,
                 admin |-> look[t].admin]
       IN  infoCache' = Bounded(Append(OtherTokens(look[t].token), e))
    /\ look' = [look EXCEPT ![t].at = "answered"]
    /\ UNCHANGED <<seconds, group, memberAt>>

InfoReturn(t) ==
    /\ look[t].at = "answered" /\ look' = [look EXCEPT ![t] = NoLook]
    /\ UNCHANGED <<seconds, group, memberAt, infoCache>>

\* A user joins the admin group, or leaves it.
ChangeGroup(k) ==
    /\ group' = (group \ {k}) \union ({k} \ group)
    /\ memberAt' = [memberAt EXCEPT ![k] = seconds]
    /\ UNCHANGED <<seconds, infoCache, look>>

InfoTick ==
    /\ seconds < MaxClock /\ seconds' = seconds + 1
    /\ memberAt' = [k \in Tokens |-> IF k \in group THEN seconds + 1 ELSE memberAt[k]]
    /\ UNCHANGED <<group, infoCache, look>>

UserInfoNext ==
    \/ \E t \in InfoThreads :
         \/ LookUp(t) \/ KeepInfo(t) \/ InfoReturn(t)
         \/ \E k \in Tokens : InfoHit(t, k) \/ InfoMiss(t, k)
    \/ \E k \in Tokens : ChangeGroup(k)
    \/ InfoTick

UserInfoSpec == UserInfoInit /\ [][UserInfoNext]_infoVars

-----------------------------------------------------------------------------
UserInfoTypeOK ==
    /\ Len(infoCache) <= InfoMax
    /\ \A i, j \in DOMAIN infoCache : infoCache[i].token = infoCache[j].token => i = j
    /\ \A i \in DOMAIN infoCache : infoCache[i].ts \in 0..seconds
    /\ \A t \in InfoThreads : look[t].at \in {"idle", "lookup", "keep", "answered"}

\* "5 minutes (success)": a request is answered as an admin's only when its user
\* was in the group less than the lifetime of an entry before it came in, however
\* the lookups of one token overlap and whatever a failed one overwrites.
AdminIsRecent ==
    \A t \in InfoThreads : look[t].at = "answered" /\ look[t].admin =>
        look[t].now - memberAt[look[t].token] < InfoTTL

=============================================================================
