----------------------------- MODULE Limits_proofs -----------------------------
(***************************************************************************)
(* What bounds the age of an answer and the number of requests: the cache  *)
(* of users, the Delta tier, the request limit and the daily limit of the  *)
(* language model, for every number of threads, replicas, tokens and users *)
(* and every lifetime.                                                     *)
(***************************************************************************)
EXTENDS UserInfo, DeltaTier, RateLimit, LlmBudget, SequenceTheorems, FiniteSetTheorems, TLAPS

InfoEntry == [token : Tokens, ts : Nat, known : BOOLEAN, admin : BOOLEAN]

\* No two entries of one token.
OneEach(Q) == \A i, j \in DOMAIN Q : Q[i].token = Q[j].token => i = j

InfoType ==
    /\ seconds \in Nat /\ group \subseteq Tokens
    /\ memberAt \in [Tokens -> Int]
    /\ infoCache \in Seq(InfoEntry) /\ Len(infoCache) <= InfoMax /\ OneEach(infoCache)
    /\ look \in [InfoThreads -> [at : {"idle", "lookup", "keep", "answered"},
                    token : Tokens \union {"none"}, now : Nat, known : BOOLEAN, admin : BOOLEAN]]
    /\ \A t \in InfoThreads : look[t].at # "idle" => look[t].token \in Tokens

\* No time is ahead of the clock, and who is in the group was in it just now.
InfoTimes ==
    /\ \A k \in Tokens : memberAt[k] <= seconds
    /\ \A k \in group : memberAt[k] = seconds
    /\ \A i \in DOMAIN infoCache : infoCache[i].ts <= seconds
    /\ \A t \in InfoThreads : look[t].now <= seconds

\* An admin's entry is no older than the last time its user was in the group, nor is
\* one that is about to be stored; nobody is an admin before the lookup.
AdminsSeen ==
    /\ \A i \in DOMAIN infoCache :
         infoCache[i].admin => infoCache[i].ts <= memberAt[infoCache[i].token]
    /\ \A t \in InfoThreads :
         /\ look[t].at = "lookup" => ~look[t].admin
         /\ look[t].at = "keep" /\ look[t].admin => look[t].now <= memberAt[look[t].token]

InfoInv == InfoType /\ InfoTimes /\ AdminsSeen /\ AdminIsRecent

-----------------------------------------------------------------------------
\* The fields of a stored entry keep their types.
LEMMA EntryFields ==
  ASSUME InfoType, NEW i \in DOMAIN infoCache
  PROVE  infoCache[i].token \in Tokens /\ infoCache[i].ts \in Nat
<1>1. infoCache[i] \in InfoEntry
  BY DEF InfoType
<1> QED
  BY <1>1 DEF InfoEntry

\* The cache after an entry of a token replaced the one it had.
Replaced(Q, e) ==
    /\ Q \in Seq(InfoEntry) /\ Q # << >> /\ OneEach(Q)
    /\ Len(Q) <= Len(infoCache) + 1
    /\ InfoEntries(e.token) # {} => Len(Q) = Len(infoCache)
    /\ \A j \in DOMAIN Q : Q[j] = e \/ \E i \in DOMAIN infoCache : Q[j] = infoCache[i]

LEMMA EntryReplaced ==
  ASSUME InfoType, NEW k \in Tokens, NEW e \in InfoEntry, e.token = k
  PROVE  Replaced(Append(OtherTokens(k), e), e)
<1> DEFINE R == OtherTokens(k)
           Q == Append(R, e)
<1>0. /\ infoCache \in Seq(InfoEntry) /\ OneEach(infoCache)
      /\ DOMAIN infoCache = 1..Len(infoCache) /\ Len(infoCache) \in Nat
  BY DEF InfoType
<1>1. /\ R \in Seq(InfoEntry) /\ OneEach(R)
      /\ Len(R) = IF InfoEntries(k) = {} THEN Len(infoCache) ELSE Len(infoCache) - 1
      /\ \A j \in DOMAIN R : R[j].token # k /\ \E i \in DOMAIN infoCache : R[j] = infoCache[i]
  <2>1. CASE InfoEntries(k) = {}
    BY <1>0, <2>1 DEF OtherTokens, InfoEntries
  <2>2. CASE InfoEntries(k) # {}
    <3> DEFINE i == CHOOSE j \in InfoEntries(k) : TRUE
               n == Len(infoCache) - 1
    <3>1. i \in 1..Len(infoCache) /\ infoCache[i].token = k
      BY <2>2, <1>0 DEF InfoEntries
    <3>2. R = [m \in 1..n |-> infoCache[IF m < i THEN m ELSE m + 1]]
      BY <2>2 DEF OtherTokens
    <3> HIDE DEF i, R
    <3>3. \A m \in 1..n : (IF m < i THEN m ELSE m + 1) \in 1..Len(infoCache) \ {i}
      BY <3>1, <1>0
    <3>4. n \in Nat
      BY <3>1, <1>0
    <3>5. \A m \in 1..n : infoCache[IF m < i THEN m ELSE m + 1] \in InfoEntry
      BY <3>3, <1>0, ElementOfSeq
    <3>6. R \in Seq(InfoEntry) /\ Len(R) = n /\ DOMAIN R = 1..n
      BY <3>2, <3>4, <3>5
    <3>7. \A m \in 1..n : R[m] = infoCache[IF m < i THEN m ELSE m + 1]
      BY <3>2
    <3>8. OneEach(R)
      <4> SUFFICES ASSUME NEW a \in 1..n, NEW b \in 1..n, R[a].token = R[b].token
                   PROVE  a = b
        BY <3>6 DEF OneEach
      <4> DEFINE fa == IF a < i THEN a ELSE a + 1
                 fb == IF b < i THEN b ELSE b + 1
      <4>1. fa \in DOMAIN infoCache /\ fb \in DOMAIN infoCache
        BY <3>3, <1>0
      <4>2. infoCache[fa].token = infoCache[fb].token
        BY <3>7
      <4>3. fa = fb
        BY <4>1, <4>2, <1>0 DEF OneEach
      <4> QED
        BY <4>3, <3>1, <3>4
    <3>9. ASSUME NEW j \in DOMAIN R
          PROVE  R[j].token # k /\ \E m \in DOMAIN infoCache : R[j] = infoCache[m]
      <4> DEFINE f == IF j < i THEN j ELSE j + 1
      <4>1. f \in DOMAIN infoCache /\ f # i /\ R[j] = infoCache[f]
        BY <3>3, <3>6, <3>7, <1>0
      <4>2. i \in DOMAIN infoCache
        BY <3>1, <1>0
      <4>3. infoCache[f].token # infoCache[i].token
        BY <4>1, <4>2, <1>0 DEF OneEach
      <4> QED
        BY <4>1, <4>3, <3>1
    <3> QED
      BY <2>2, <3>6, <3>8, <3>9
  <2> QED
    BY <2>1, <2>2
<1> HIDE DEF R
<1>2. Q = Append(R, e)
  OBVIOUS
<1> HIDE DEF Q
<1>3. /\ Q \in Seq(InfoEntry) /\ Q # << >> /\ Len(Q) = Len(R) + 1
      /\ DOMAIN Q = 1..Len(R) + 1 /\ DOMAIN R = 1..Len(R) /\ Len(R) \in Nat
      /\ \A j \in 1..Len(R) : Q[j] = R[j]
      /\ Q[Len(R) + 1] = e
  BY <1>1, <1>2, AppendProperties, LenProperties
<1>4. OneEach(Q)
  <2> SUFFICES ASSUME NEW a \in DOMAIN Q, NEW b \in DOMAIN Q, Q[a].token = Q[b].token
               PROVE  a = b
    BY DEF OneEach
  <2>1. \A j \in DOMAIN R : R[j].token # k
    BY <1>1
  <2>2. a \in DOMAIN R \/ a = Len(R) + 1
    BY <1>3
  <2>3. b \in DOMAIN R \/ b = Len(R) + 1
    BY <1>3
  <2>4. CASE a \in DOMAIN R /\ b \in DOMAIN R
    <3>1. R[a].token = R[b].token
      BY <2>4, <1>3
    <3> QED
      BY <2>4, <3>1, <1>1 DEF OneEach
  <2>5. CASE a = Len(R) + 1 \/ b = Len(R) + 1
    BY <2>1, <2>2, <2>3, <2>5, <1>3
  <2> QED
    BY <2>2, <2>3, <2>4, <2>5
<1>5. ASSUME NEW j \in DOMAIN Q
      PROVE  Q[j] = e \/ \E i \in DOMAIN infoCache : Q[j] = infoCache[i]
  <2>1. CASE j = Len(R) + 1
    BY <2>1, <1>3
  <2>2. CASE j \in DOMAIN R
    <3>1. Q[j] = R[j]
      BY <2>2, <1>3
    <3> QED
      BY <2>2, <3>1, <1>1
  <2> QED
    BY <1>3, <2>1, <2>2
<1>6. Len(Q) <= Len(infoCache) + 1 /\ (InfoEntries(k) # {} => Len(Q) = Len(infoCache))
  <2>1. Len(Q) = Len(R) + 1 /\ Len(infoCache) \in Nat /\ Len(R) \in Nat
    BY <1>0, <1>3
  <2>2. /\ InfoEntries(k) = {} => Len(R) = Len(infoCache)
        /\ InfoEntries(k) # {} => Len(R) = Len(infoCache) - 1
    BY <1>1
  <2> HIDE DEF R
  <2> QED
    BY <2>1, <2>2
<1>7. Replaced(Q, e)
  BY <1>3, <1>4, <1>5, <1>6 DEF Replaced
<1> QED
  BY <1>7 DEF Q, R

-----------------------------------------------------------------------------
\* The empty cache.
LEMMA UserInfoStart ==
  ASSUME InfoBounds, UserInfoInit
  PROVE  InfoInv
<1>1. InfoType
  BY DEF UserInfoInit, InfoType, OneEach, NoLook, InfoEntry
<1>2. InfoTimes
  BY DEF UserInfoInit, InfoTimes, NoLook
<1>3. AdminsSeen /\ AdminIsRecent
  BY DEF UserInfoInit, AdminsSeen, AdminIsRecent, NoLook
<1> QED
  BY <1>1, <1>2, <1>3 DEF InfoInv

\* A request whose answer comes from a live entry: what the entry says was true less
\* than a lifetime ago.
LEMMA HitStep ==
  ASSUME InfoBounds, InfoInv, NEW t \in InfoThreads, NEW k \in Tokens, InfoHit(t, k)
  PROVE  InfoInv'
<1> USE DEF InfoInv
<1>1. PICK i \in LiveInfo(k) :
        /\ infoCache' = Append(OtherTokens(k), infoCache[i])
        /\ look' = [look EXCEPT ![t] = [at |-> "answered", token |-> k, now |-> seconds,
                         known |-> infoCache[i].known, admin |-> infoCache[i].admin]]
  BY DEF InfoHit
<1>2. UNCHANGED <<seconds, group, memberAt>>
  BY DEF InfoHit
<1>3. /\ i \in DOMAIN infoCache /\ infoCache[i] \in InfoEntry /\ infoCache[i].token = k
      /\ i \in InfoEntries(k)
  BY DEF LiveInfo, InfoEntries, InfoType
<1>4. seconds - infoCache[i].ts < InfoTTL
  BY <1>3 DEF LiveInfo, LifeOf, InfoBounds, InfoEntry, InfoType
<1>5. /\ infoCache' \in Seq(InfoEntry) /\ OneEach(infoCache')
      /\ Len(infoCache') = Len(infoCache)
      /\ \A j \in DOMAIN infoCache' : \E m \in DOMAIN infoCache : infoCache'[j] = infoCache[m]
  <2> DEFINE e == infoCache[i]
             Q == Append(OtherTokens(k), e)
  <2>1. Replaced(Q, e)
    BY <1>3, EntryReplaced DEF InfoInv
  <2>2. infoCache' = Q /\ InfoEntries(k) # {} /\ i \in DOMAIN infoCache /\ e.token = k
    BY <1>1, <1>3
  <2> HIDE DEF Q
  <2> QED
    BY <2>1, <2>2 DEF Replaced
<1>6. InfoType'
  <2>1. look' \in [InfoThreads -> [at : {"idle", "lookup", "keep", "answered"},
           token : Tokens \union {"none"}, now : Nat, known : BOOLEAN, admin : BOOLEAN]]
    BY <1>1, <1>3 DEF InfoType, InfoEntry
  <2>2. \A u \in InfoThreads : look'[u].at # "idle" => look'[u].token \in Tokens
    BY <1>1 DEF InfoType
  <2> QED
    BY <1>2, <1>5, <2>1, <2>2 DEF InfoType
<1>7. InfoTimes'
  <2>1. \A u \in InfoThreads : look'[u].now <= seconds
    BY <1>1 DEF InfoTimes, InfoType
  <2> QED
    BY <1>2, <1>5, <2>1 DEF InfoTimes
<1>8. AdminsSeen'
  BY <1>1, <1>2, <1>5 DEF AdminsSeen, InfoType
<1>9. AdminIsRecent'
  <2>1. infoCache[i].admin => seconds - memberAt[k] < InfoTTL
    <3>1. infoCache[i].admin => infoCache[i].ts <= memberAt[k]
      BY <1>3 DEF AdminsSeen
    <3>2. infoCache[i].ts \in Nat
      BY <1>3, EntryFields
    <3>3. seconds \in Nat /\ memberAt[k] \in Int /\ InfoTTL \in Int
      BY DEF InfoType, InfoBounds
    <3> HIDE DEF InfoInv
    <3> QED
      BY <1>4, <3>1, <3>2, <3>3
  <2> QED
    BY <1>1, <1>2, <2>1 DEF AdminIsRecent, InfoType
<1> QED
  BY <1>6, <1>7, <1>8, <1>9

\* The entry that is stored was true when the request began, and is no older than that.
LEMMA KeepStep ==
  ASSUME InfoBounds, InfoInv, NEW t \in InfoThreads, KeepInfo(t)
  PROVE  InfoInv'
<1> USE DEF InfoInv
<1> DEFINE k == look[t].token
           e == [token |-> look[t].token, ts |-> TimeAsked(t), known |-> look[t].known,
                 admin |-> look[t].admin]
           Q == Append(OtherTokens(k), e)
<1>1. /\ look[t].at = "keep" /\ infoCache' = Bounded(Q)
      /\ look' = [look EXCEPT ![t].at = "answered"]
      /\ UNCHANGED <<seconds, group, memberAt>>
  BY DEF KeepInfo
<1>2. k \in Tokens /\ e \in InfoEntry /\ e.token = k
  BY <1>1 DEF InfoType, InfoEntry, TimeAsked
<1>3. /\ Q \in Seq(InfoEntry) /\ Q # << >> /\ OneEach(Q) /\ Len(Q) <= Len(infoCache) + 1
      /\ \A j \in DOMAIN Q : Q[j] = e \/ \E i \in DOMAIN infoCache : Q[j] = infoCache[i]
  <2> HIDE DEF e, k
  <2>1. Replaced(Q, e)
    BY <1>2, EntryReplaced DEF InfoInv
  <2> HIDE DEF Q
  <2> QED
    BY <2>1 DEF Replaced
<1> HIDE DEF Q
<1>4. /\ infoCache' \in Seq(InfoEntry) /\ OneEach(infoCache') /\ Len(infoCache') <= InfoMax
      /\ \A j \in DOMAIN infoCache' : \E m \in DOMAIN Q : infoCache'[j] = Q[m]
  <2>1. CASE Len(Q) > InfoMax
    <3>1. infoCache' = Tail(Q)
      BY <1>1, <2>1 DEF Bounded
    <3>2. /\ Tail(Q) \in Seq(InfoEntry) /\ Len(Tail(Q)) = Len(Q) - 1
          /\ \A j \in 1..Len(Tail(Q)) : Tail(Q)[j] = Q[j + 1]
          /\ DOMAIN Tail(Q) = 1..Len(Q) - 1 /\ DOMAIN Q = 1..Len(Q) /\ Len(Q) \in Nat
      BY <1>3, HeadTailProperties, LenProperties
    <3>3. \A j \in DOMAIN Tail(Q) : j + 1 \in DOMAIN Q /\ Tail(Q)[j] = Q[j + 1]
      BY <3>2
    <3>4. OneEach(Tail(Q))
      BY <3>2, <3>3, <1>3 DEF OneEach
    <3>5. Len(Tail(Q)) <= InfoMax
      BY <3>2, <1>3 DEF InfoType, InfoBounds
    <3> QED
      BY <3>1, <3>2, <3>3, <3>4, <3>5
  <2>2. CASE ~(Len(Q) > InfoMax)
    <3>1. infoCache' = Q
      BY <1>1, <2>2 DEF Bounded
    <3>2. Len(Q) <= InfoMax
      BY <2>2, <1>3, LenProperties DEF InfoBounds
    <3> QED
      BY <1>3, <3>1, <3>2
  <2> QED
    BY <2>1, <2>2
<1>5. \A j \in DOMAIN infoCache' :
         infoCache'[j] = e \/ \E i \in DOMAIN infoCache : infoCache'[j] = infoCache[i]
  BY <1>3, <1>4
<1>6. InfoType'
  <2>1. look' \in [InfoThreads -> [at : {"idle", "lookup", "keep", "answered"},
           token : Tokens \union {"none"}, now : Nat, known : BOOLEAN, admin : BOOLEAN]]
    <3> DEFINE Looks == [at : {"idle", "lookup", "keep", "answered"},
            token : Tokens \union {"none"}, now : Nat, known : BOOLEAN, admin : BOOLEAN]
    <3>1. look \in [InfoThreads -> Looks]
      BY DEF InfoType
    <3>2. [look[t] EXCEPT !.at = "answered"] \in Looks
      BY <3>1
    <3> HIDE DEF Looks
    <3>3. look' \in [InfoThreads -> Looks]
      BY <1>1, <3>1, <3>2
    <3> QED
      BY <3>3 DEF Looks
  <2>2. \A u \in InfoThreads : look'[u].at # "idle" => look'[u].token \in Tokens
    BY <1>1 DEF InfoType
  <2> QED
    BY <1>1, <1>4, <2>1, <2>2 DEF InfoType
<1>7. e.ts = look[t].now /\ e.admin = look[t].admin
  BY DEF TimeAsked
<1> HIDE DEF e
<1>8. InfoTimes'
  BY <1>1, <1>5, <1>7 DEF InfoTimes, InfoType
<1>9. AdminsSeen'
  <2>1. e.admin => e.ts <= memberAt[e.token]
    BY <1>1, <1>2, <1>7 DEF AdminsSeen
  <2>2. \A j \in DOMAIN infoCache' :
          infoCache'[j].admin => infoCache'[j].ts <= memberAt[infoCache'[j].token]
    BY <1>5, <2>1 DEF AdminsSeen
  <2>3. \A v \in InfoThreads : look'[v].at \in {"lookup", "keep"} => look'[v] = look[v]
    BY <1>1 DEF InfoType
  <2>4. memberAt' = memberAt
    BY <1>1
  <2> HIDE DEF InfoInv
  <2>5. AdminsSeen
    BY DEF InfoInv
  <2> QED
    BY <2>2, <2>3, <2>4, <2>5 DEF AdminsSeen
<1>10. AdminIsRecent'
  <2>1. look[t].admin => look[t].now - memberAt[k] < InfoTTL
    BY <1>1, <1>2 DEF AdminsSeen, InfoType, InfoBounds
  <2> QED
    BY <1>1, <2>1 DEF AdminIsRecent, InfoType
<1> QED
  BY <1>6, <1>8, <1>9, <1>10

\* Every other step of a request, and what happens to the group and the clock.
LEMMA UserInfoStep ==
  ASSUME InfoBounds, InfoInv, [UserInfoNext]_infoVars
  PROVE  InfoInv'
<1> USE DEF InfoInv
<1>1. ASSUME NEW t \in InfoThreads, NEW k \in Tokens, InfoMiss(t, k)
      PROVE  InfoInv'
  <2>1. InfoType'
    BY <1>1 DEF InfoMiss, InfoType, NoLook
  <2>2. InfoTimes'
    BY <1>1 DEF InfoMiss, InfoType, InfoTimes, NoLook
  <2>3. AdminsSeen' /\ AdminIsRecent'
    BY <1>1 DEF InfoMiss, InfoType, AdminsSeen, AdminIsRecent, NoLook
  <2> QED
    BY <2>1, <2>2, <2>3
<1>2. ASSUME NEW t \in InfoThreads, LookUp(t)
      PROVE  InfoInv'
  <2>1. PICK known \in BOOLEAN, admin \in BOOLEAN :
          /\ look' = [look EXCEPT ![t] = [@ EXCEPT !.at = "keep", !.known = known, !.admin = admin]]
          /\ admin => look[t].token \in group
    <3>1. CASE look' = [look EXCEPT ![t].at = "keep", ![t].known = TRUE,
                                    ![t].admin = look[t].token \in group]
      <4>1. look' = [look EXCEPT ![t] = [@ EXCEPT !.at = "keep", !.known = TRUE,
                                                  !.admin = look[t].token \in group]]
        BY <3>1
      <4>2. (look[t].token \in group) \in BOOLEAN
        OBVIOUS
      <4> QED
        BY <4>1, <4>2, Zenon
    <3>2. CASE look' = [look EXCEPT ![t].at = "keep"]
      <4>1. ~look[t].admin /\ look[t].admin \in BOOLEAN /\ look[t].known \in BOOLEAN
        BY <1>2 DEF LookUp, AdminsSeen, InfoType
      <4>2. look' = [look EXCEPT ![t] = [@ EXCEPT !.at = "keep", !.known = look[t].known,
                                                  !.admin = look[t].admin]]
        BY <3>2 DEF InfoType
      <4> QED
        BY <4>1, <4>2
    <3> QED
      BY <1>2, <3>1, <3>2 DEF LookUp
  <2>2. look[t].at = "lookup" /\ UNCHANGED <<seconds, group, memberAt, infoCache>>
    BY <1>2 DEF LookUp
  <2>3. InfoType'
    <3> DEFINE Looks == [at : {"idle", "lookup", "keep", "answered"},
            token : Tokens \union {"none"}, now : Nat, known : BOOLEAN, admin : BOOLEAN]
               to == [look[t] EXCEPT !.at = "keep", !.known = known, !.admin = admin]
    <3>1. look \in [InfoThreads -> Looks]
      BY DEF InfoType
    <3>2. to \in Looks /\ to.token = look[t].token
      BY <3>1
    <3>3. look[t].token \in Tokens
      BY <2>2 DEF InfoType
    <3>4. look' = [look EXCEPT ![t] = to]
      BY <2>1
    <3> HIDE DEF Looks, to
    <3>5. look' \in [InfoThreads -> Looks]
      BY <3>1, <3>2, <3>4
    <3>6. \A u \in InfoThreads : look'[u].at # "idle" => look'[u].token \in Tokens
      BY <3>1, <3>2, <3>3, <3>4 DEF InfoType
    <3> QED
      BY <2>2, <3>5, <3>6 DEF InfoType, Looks
  <2>4. InfoTimes'
    BY <2>1, <2>2 DEF InfoType, InfoTimes
  <2>5. AdminsSeen'
    <3>1. admin => look[t].now <= memberAt[look[t].token]
      BY <2>1, <2>2 DEF InfoType, InfoTimes
    <3> QED
      BY <2>1, <2>2, <3>1 DEF InfoType, AdminsSeen
  <2>6. AdminIsRecent'
    BY <2>1, <2>2 DEF InfoType, AdminIsRecent
  <2> QED
    BY <2>3, <2>4, <2>5, <2>6
<1>3. ASSUME NEW t \in InfoThreads, InfoReturn(t)
      PROVE  InfoInv'
  <2>1. InfoType'
    BY <1>3 DEF InfoReturn, InfoType, NoLook
  <2>2. InfoTimes'
    BY <1>3 DEF InfoReturn, InfoType, InfoTimes, NoLook
  <2>3. AdminsSeen' /\ AdminIsRecent'
    BY <1>3 DEF InfoReturn, InfoType, AdminsSeen, AdminIsRecent, NoLook
  <2> QED
    BY <2>1, <2>2, <2>3
<1>4. ASSUME \A x \in Tokens : memberAt[x] <= memberAt'[x],
             memberAt' \in [Tokens -> Int], UNCHANGED <<infoCache, look>>
      PROVE  AdminsSeen' /\ AdminIsRecent'
  <2>1. AdminsSeen'
    <3>1. ASSUME NEW i \in DOMAIN infoCache, infoCache[i].admin
          PROVE  infoCache[i].ts <= memberAt'[infoCache[i].token]
      <4>1. infoCache[i].token \in Tokens /\ infoCache[i].ts \in Nat
        BY EntryFields
      <4>2. infoCache[i].ts <= memberAt[infoCache[i].token]
        BY <3>1 DEF AdminsSeen
      <4> QED
        BY <1>4, <4>1, <4>2 DEF InfoType
    <3>2. ASSUME NEW t \in InfoThreads, look[t].at = "keep", look[t].admin
          PROVE  look[t].now <= memberAt'[look[t].token]
      BY <1>4, <3>2 DEF InfoType, AdminsSeen
    <3> QED
      BY <1>4, <3>1, <3>2 DEF AdminsSeen
  <2>2. AdminIsRecent'
    BY <1>4 DEF InfoType, AdminIsRecent, InfoBounds
  <2> QED
    BY <2>1, <2>2
<1>5. ASSUME NEW k \in Tokens, ChangeGroup(k)
      PROVE  InfoInv'
  <2>1. InfoType'
    BY <1>5 DEF ChangeGroup, InfoType
  <2>2. InfoTimes'
    BY <1>5 DEF ChangeGroup, InfoType, InfoTimes
  <2>3. \A x \in Tokens : memberAt[x] <= memberAt'[x]
    BY <1>5 DEF ChangeGroup, InfoType, InfoTimes
  <2> QED
    BY <1>4, <1>5, <2>1, <2>2, <2>3 DEF ChangeGroup, InfoType
<1>6. ASSUME InfoTick
      PROVE  InfoInv'
  <2>1. InfoType'
    BY <1>6 DEF InfoTick, InfoType
  <2>2. InfoTimes'
    <3>1. \A i \in DOMAIN infoCache : infoCache[i].ts \in Nat
      BY EntryFields
    <3> QED
      BY <1>6, <3>1 DEF InfoTick, InfoType, InfoTimes
  <2>3. \A x \in Tokens : memberAt[x] <= memberAt'[x]
    BY <1>6 DEF InfoTick, InfoType, InfoTimes
  <2> QED
    BY <1>4, <1>6, <2>1, <2>2, <2>3 DEF InfoTick, InfoType
<1>7. ASSUME UNCHANGED infoVars
      PROVE  InfoInv'
  BY <1>7 DEF infoVars, InfoType, OneEach, InfoTimes, AdminsSeen, AdminIsRecent
<1> QED
  BY <1>1, <1>2, <1>3, <1>5, <1>6, <1>7, HitStep, KeepStep DEF UserInfoNext

-----------------------------------------------------------------------------
\* The cache of users is no longer than its maximum, has one entry of a token, and no
\* entry from a later time than now.
THEOREM UserInfoTypeCorrect == UserInfoSpec => []UserInfoTypeOK
<1>1. InfoBounds /\ UserInfoInit => InfoInv
  BY UserInfoStart
<1>2. InfoBounds /\ InfoInv /\ [UserInfoNext]_infoVars => InfoInv'
  BY UserInfoStep
<1>3. InfoInv => UserInfoTypeOK
  <2> SUFFICES ASSUME InfoInv PROVE UserInfoTypeOK
    OBVIOUS
  <2>1. \A i \in DOMAIN infoCache : infoCache[i].ts \in 0..seconds
    <3>1. \A i \in DOMAIN infoCache : infoCache[i].ts \in Nat
      BY EntryFields DEF InfoInv
    <3> QED
      BY <3>1 DEF InfoInv, InfoType, InfoTimes
  <2>2. \A t \in InfoThreads : look[t].at \in {"idle", "lookup", "keep", "answered"}
    BY DEF InfoInv, InfoType
  <2> QED
    BY <2>1, <2>2 DEF UserInfoTypeOK, InfoInv, InfoType, OneEach
<1> QED
  BY <1>1, <1>2, <1>3, InfoBounds, PTL DEF UserInfoSpec

\* No request is answered as an admin's when its user had left the group a lifetime of
\* an entry ago, for every number of threads and tokens: an entry's time is taken before
\* its lookup, so neither a slow lookup nor a later one that failed makes it younger.
THEOREM AdminIsRecentHolds == UserInfoSpec => []AdminIsRecent
<1>1. InfoBounds /\ UserInfoInit => InfoInv
  BY UserInfoStart
<1>2. InfoBounds /\ InfoInv /\ [UserInfoNext]_infoVars => InfoInv'
  BY UserInfoStep
<1>3. InfoInv => AdminIsRecent
  BY DEF InfoInv
<1> QED
  BY <1>1, <1>2, <1>3, InfoBounds, PTL DEF UserInfoSpec

-----------------------------------------------------------------------------
(***************************************************************************)
(* The Delta tier.                                                         *)
(***************************************************************************)
TierRequest ==
    [at : {"idle", "row", "load", "plain", "fetch", "fetched", "publish", "answered"},
     val : Int, tier : BOOLEAN, cached : BOOLEAN]

TierType ==
    /\ hour \in 0..MaxHours
    /\ home \in [TierThreads -> Replicas]
    /\ lru \in [Replicas -> [val : Int, at : Int]]
    /\ row \in [val : Int, exp : Int]
    /\ request \in [TierThreads -> TierRequest]

\* The system tables are read for one thread of a replica at a time.
OneFetches ==
    \A t, u \in TierThreads :
        home[t] = home[u] /\ request[t].at = "fetch" /\ request[u].at = "fetch" => t = u

\* What a request knows of the age of the value it holds, at hour h: what it loads from
\* the row is less than a lifetime old, what it publishes was read within the hour.
TierRequestSound(q, h, c) ==
    /\ q.val \in NoValue..h
    /\ q.at \in {"row", "plain", "fetch"} => q.val = NoValue /\ ~q.cached
    /\ q.at = "load" => q.val # NoValue /\ (c \/ h < q.val + TierTTL)
    /\ q.at = "fetched" /\ ~q.cached => q.val \in {NoValue, h}
    /\ q.at \in {"fetched", "answered"} => c \/ q.val = NoValue \/ h < q.val + 2 * TierTTL
    /\ q.at = "publish" => q.val # NoValue /\ (c \/ q.val = h)

\* An entry was put less than a lifetime after its value was read.
EntrySound(e, h, c) ==
    /\ e.val \in NoValue..h /\ e.at \in 0..h
    /\ e.val # NoValue => c \/ e.at < e.val + TierTTL

\* A live row has a value, and expires a lifetime after it was read.
RowSound(w, h, c) ==
    /\ w.val \in NoValue..h /\ w.exp \in 0..(h + TierTTL)
    /\ w.exp > h => w.val # NoValue /\ (c \/ w.exp <= w.val + TierTTL)

TierInv ==
    /\ TierType /\ OneFetches
    /\ \A t \in TierThreads : TierRequestSound(request[t], hour, crossed)
    /\ \A r \in Replicas : EntrySound(lru[r], hour, crossed)
    /\ RowSound(row, hour, crossed)

-----------------------------------------------------------------------------
\* Empty entries, an empty row and no request.
LEMMA DeltaTierStart ==
  ASSUME TierBounds, DeltaTierInit
  PROVE  TierInv
<1>1. TierType /\ OneFetches
  BY DEF TierBounds, DeltaTierInit, TierType, TierRequest, OneFetches, NoEntry, NoRequest, NoValue
<1>2. \A t \in TierThreads : TierRequestSound(request[t], hour, crossed)
  BY DEF TierBounds, DeltaTierInit, TierRequestSound, NoRequest, NoValue
<1>3. \A r \in Replicas : EntrySound(lru[r], hour, crossed)
  BY DEF TierBounds, DeltaTierInit, EntrySound, NoEntry, NoValue
<1>4. RowSound(row, hour, crossed)
  BY DEF TierBounds, DeltaTierInit, RowSound, NoValue
<1> QED
  BY <1>1, <1>2, <1>3, <1>4 DEF TierInv

\* A step of one thread within an hour: its own request has to be sound, and to be alone
\* when it reads the system tables.
LEMMA RequestStep ==
  ASSUME TierBounds, TierInv, NEW t \in TierThreads, NEW q \in TierRequest,
         request' = [request EXCEPT ![t] = q], UNCHANGED <<home, hour>>, crossed => crossed',
         TierRequestSound(q, hour, crossed'),
         q.at = "fetch" => KeyFree(t)
  PROVE  /\ request' \in [TierThreads -> TierRequest] /\ OneFetches'
         /\ \A u \in TierThreads : TierRequestSound(request'[u], hour', crossed')
<1>1. request' \in [TierThreads -> TierRequest]
  BY DEF TierInv, TierType
<1>2. OneFetches'
  BY DEF TierInv, TierType, OneFetches, KeyFree
<1>3. ASSUME NEW u \in TierThreads
      PROVE  TierRequestSound(request'[u], hour', crossed')
  <2>1. CASE u = t
    BY <2>1 DEF TierInv, TierType
  <2>2. CASE u # t
    <3>1. request'[u] = request[u]
      BY <2>2 DEF TierInv, TierType
    <3>2. TierRequestSound(request[u], hour, crossed)
      BY DEF TierInv
    <3> QED
      BY <3>1, <3>2 DEF TierRequestSound
  <2> QED
    BY <2>1, <2>2
<1> QED
  BY <1>1, <1>2, <1>3

\* Nothing but a request changes.
LEMMA QuietStep ==
  ASSUME TierBounds, TierInv, NEW t \in TierThreads, NEW q \in TierRequest,
         request' = [request EXCEPT ![t] = q],
         UNCHANGED <<home, hour, lru, row, crossed>>,
         TierRequestSound(q, hour, crossed),
         q.at = "fetch" => KeyFree(t)
  PROVE  TierInv'
<1>1. /\ request' \in [TierThreads -> TierRequest] /\ OneFetches'
      /\ \A u \in TierThreads : TierRequestSound(request'[u], hour', crossed')
  BY RequestStep
<1>2. TierType'
  BY <1>1 DEF TierInv, TierType
<1> QED
  BY <1>1, <1>2 DEF TierInv

\* A live entry's value is less than two lifetimes old.
LEMMA LiveEntry ==
  ASSUME TierBounds, TierInv, NEW t \in TierThreads, InLru(t)
  PROVE  /\ MyEntry(t).val \in 0..hour
         /\ crossed \/ hour < MyEntry(t).val + 2 * TierTTL
<1>1. home[t] \in Replicas /\ lru[home[t]].val \in Int /\ lru[home[t]].at \in Int /\ hour \in Nat
  BY DEF TierInv, TierType
<1>2. EntrySound(lru[home[t]], hour, crossed)
  BY <1>1 DEF TierInv
<1>3. TierTTL \in Nat
  BY DEF TierBounds
<1> QED
  BY <1>1, <1>2, <1>3 DEF EntrySound, InLru, MyEntry, NoValue

\* A request that has not begun, or was cut off.
LEMMA ResetSound ==
  ASSUME TierBounds, TierType
  PROVE  /\ NoRequest \in TierRequest /\ NoRequest.at = "idle"
         /\ NoRequest.val = NoValue /\ ~NoRequest.cached
         /\ \A h \in Nat : \A c : TierRequestSound(NoRequest, h, c)
<1>1. NoValue \in Int /\ \A h \in Nat : NoValue \in NoValue..h
  BY DEF NoValue
<1>2. NoRequest \in TierRequest
  BY <1>1 DEF NoRequest, TierRequest
<1> QED
  BY <1>1, <1>2 DEF NoRequest, TierRequestSound

\* An answer with a value that is young enough, or with none.
LEMMA AnsweredSound ==
  ASSUME TierBounds, TierType, NEW v \in NoValue..hour, NEW c,
         c \/ v = NoValue \/ hour < v + 2 * TierTTL,
         NEW q, q = [NoRequest EXCEPT !.at = "answered", !.val = v]
  PROVE  q \in TierRequest /\ q.at = "answered" /\ TierRequestSound(q, hour, c)
<1>1. q = [at |-> "answered", val |-> v, tier |-> FALSE, cached |-> FALSE]
  BY DEF NoRequest
<1>2. q \in TierRequest
  <2>1. v \in Int
    BY DEF TierType, NoValue
  <2>2. NoRequest \in TierRequest
    BY ResetSound
  <2> QED
    BY <2>1, <2>2 DEF TierRequest
<1>3. TierRequestSound(q, hour, c)
  BY <1>1 DEF TierRequestSound
<1> QED
  BY <1>1, <1>2, <1>3

\* An answer keeps the entries sound and the request that gave it.
LEMMA TierAnswers ==
  ASSUME TierBounds, TierInv, NEW t \in TierThreads, NEW v \in NoValue..hour,
         crossed \/ v = NoValue \/ hour < v + 2 * TierTTL,
         AnswerWith(t, v), UNCHANGED <<home, hour, crossed>>
  PROVE  /\ request' \in [TierThreads -> TierRequest] /\ OneFetches'
         /\ \A u \in TierThreads : TierRequestSound(request'[u], hour', crossed')
<1> DEFINE q == [NoRequest EXCEPT !.at = "answered", !.val = v]
<1>1. request' = [request EXCEPT ![t] = q] /\ UNCHANGED <<home, hour>>
  BY DEF AnswerWith
<1>2. q \in TierRequest /\ q.at = "answered" /\ TierRequestSound(q, hour, crossed)
  BY AnsweredSound DEF TierInv
<1> HIDE DEF q
<1>3. crossed' = crossed /\ (crossed => crossed') /\ (q.at = "fetch" => KeyFree(t))
  BY <1>2
<1>4. TierRequestSound(q, hour, crossed')
  BY <1>2, <1>3
<1> QED
  BY <1>1, <1>2, <1>3, <1>4, RequestStep

-----------------------------------------------------------------------------
\* The steps of a request.
LEMMA AskSteps ==
  ASSUME TierBounds, TierInv, NEW t \in TierThreads,
         \/ AskWarm(t) \/ AskRefresh(t)
         \/ \E tier \in BOOLEAN : AskCold(t, tier)
  PROVE  TierInv'
<1>0. hour \in Nat /\ TierType
  BY DEF TierInv, TierType
<1>1. CASE AskWarm(t)
  <2>1. /\ MyEntry(t).val \in NoValue..hour
        /\ crossed \/ hour < MyEntry(t).val + 2 * TierTTL
    BY <1>0, <1>1, LiveEntry DEF AskWarm, NoValue
  <2>2. UNCHANGED <<home, hour, lru, row, crossed>> /\ AnswerWith(t, MyEntry(t).val)
    BY <1>1 DEF AskWarm
  <2>3. /\ request' \in [TierThreads -> TierRequest] /\ OneFetches'
        /\ \A u \in TierThreads : TierRequestSound(request'[u], hour', crossed')
    BY <2>1, <2>2, TierAnswers
  <2> QED
    BY <2>2, <2>3 DEF TierInv, TierType
<1>2. CASE AskRefresh(t)
  <2> DEFINE q == [NoRequest EXCEPT !.at = "fetch"]
  <2>1. q \in TierRequest /\ q.at = "fetch" /\ q.val = NoValue /\ ~q.cached
    BY ResetSound DEF TierInv, TierRequest
  <2>2. /\ request' = [request EXCEPT ![t] = q] /\ KeyFree(t)
        /\ UNCHANGED <<home, hour, lru, row, crossed>>
    BY <1>2 DEF AskRefresh
  <2> HIDE DEF q
  <2>3. TierRequestSound(q, hour, crossed)
    BY <1>0, <2>1 DEF TierRequestSound, NoValue
  <2> QED
    BY <2>1, <2>2, <2>3, QuietStep
<1>3. ASSUME NEW tier \in BOOLEAN, AskCold(t, tier)
      PROVE  TierInv'
  <2> DEFINE q == [NoRequest EXCEPT !.at = IF tier THEN "row" ELSE "plain", !.tier = tier]
  <2>1. q \in TierRequest /\ q.at \in {"row", "plain"} /\ q.val = NoValue /\ ~q.cached
    <3>1. CASE tier
      BY <3>1, ResetSound DEF TierInv, TierRequest
    <3>2. CASE ~tier
      BY <3>2, ResetSound DEF TierInv, TierRequest
    <3> QED
      BY <3>1, <3>2
  <2>2. /\ request' = [request EXCEPT ![t] = q]
        /\ UNCHANGED <<home, hour, lru, row, crossed>>
    BY <1>3 DEF AskCold
  <2> HIDE DEF q
  <2>3. TierRequestSound(q, hour, crossed) /\ q.at # "fetch"
    BY <1>0, <2>1 DEF TierRequestSound, NoValue
  <2> QED
    BY <2>1, <2>2, <2>3, QuietStep
<1> QED
  BY <1>1, <1>2, <1>3

\* The steps of a request that read the row of the Delta tier.
LEMMA RowSteps ==
  ASSUME TierBounds, TierInv, NEW t \in TierThreads, ReadRow(t) \/ LoadRow(t)
  PROVE  TierInv'
<1>0. /\ hour \in Nat /\ TierTTL \in Nat \ {0} /\ request[t] \in TierRequest
      /\ TierRequestSound(request[t], hour, crossed) /\ RowSound(row, hour, crossed)
      /\ row.val \in Int /\ row.exp \in Int /\ home[t] \in Replicas
  BY DEF TierInv, TierType, TierBounds
<1>1. CASE ReadRow(t) /\ RowLive /\ request' = [request EXCEPT ![t].at = "load", ![t].val = row.val]
  <2> DEFINE q == [request[t] EXCEPT !.at = "load", !.val = row.val]
  <2>1. q \in TierRequest /\ q.at = "load" /\ q.val = row.val
    BY <1>0 DEF TierRequest
  <2>2. request' = [request EXCEPT ![t] = q] /\ UNCHANGED <<home, hour, lru, row, crossed>>
    BY <1>1 DEF ReadRow
  <2> HIDE DEF q
  <2>3. TierRequestSound(q, hour, crossed)
    BY <1>0, <1>1, <2>1 DEF TierRequestSound, RowSound, RowLive, NoValue
  <2> QED
    BY <2>1, <2>2, <2>3, QuietStep
<1>2. CASE ReadRow(t) /\ At(t, "plain")
  <2> DEFINE q == [request[t] EXCEPT !.at = "plain"]
  <2>1. q \in TierRequest /\ q.at = "plain" /\ q.val = request[t].val /\ q.cached = request[t].cached
    BY <1>0 DEF TierRequest
  <2>2. request' = [request EXCEPT ![t] = q] /\ UNCHANGED <<home, hour, lru, row, crossed>>
    BY <1>2 DEF ReadRow, At
  <2> HIDE DEF q
  <2>3. TierRequestSound(q, hour, crossed)
    BY <1>0, <1>2, <2>1 DEF TierRequestSound, ReadRow
  <2> QED
    BY <2>1, <2>2, <2>3, QuietStep
<1>3. CASE LoadRow(t)
  <2> DEFINE v == request[t].val
             e == [val |-> v, at |-> hour]
  <2>1. v \in NoValue..hour /\ (crossed \/ v = NoValue \/ hour < v + TierTTL)
    BY <1>0, <1>3 DEF TierRequestSound, LoadRow
  <2>2. /\ lru' = [lru EXCEPT ![home[t]] = e] /\ AnswerWith(t, v)
        /\ UNCHANGED <<home, hour, row, crossed>>
    BY <1>3 DEF LoadRow
  <2>3. crossed \/ v = NoValue \/ hour < v + 2 * TierTTL
    BY <1>0, <2>1 DEF NoValue
  <2>4. EntrySound(e, hour, crossed) /\ e \in [val : Int, at : Int]
    BY <1>0, <2>1 DEF EntrySound, NoValue
  <2> HIDE DEF v, e
  <2>5. /\ request' \in [TierThreads -> TierRequest] /\ OneFetches'
        /\ \A u \in TierThreads : TierRequestSound(request'[u], hour', crossed')
    BY <2>1, <2>2, <2>3, TierAnswers
  <2>6. TierType'
    BY <2>2, <2>4, <2>5 DEF TierInv, TierType
  <2>7. \A r \in Replicas : EntrySound(lru'[r], hour', crossed')
    BY <2>2, <2>4 DEF TierInv, TierType
  <2> QED
    BY <2>2, <2>5, <2>6, <2>7 DEF TierInv
<1> QED
  BY <1>1, <1>2, <1>3 DEF ReadRow

\* The steps of a request that read the system tables.
LEMMA FetchSteps ==
  ASSUME TierBounds, TierInv, NEW t \in TierThreads, AskOriginal(t) \/ FetchTier(t)
  PROVE  TierInv'
<1>0. /\ hour \in Nat /\ hour \in Int /\ TierTTL \in Nat \ {0} /\ request[t] \in TierRequest
      /\ TierRequestSound(request[t], hour, crossed) /\ home[t] \in Replicas
  BY DEF TierInv, TierType, TierBounds
<1>1. CASE AskOriginal(t) /\ InLru(t) /\ request' = [request EXCEPT ![t] = [@ EXCEPT
              !.val = MyEntry(t).val, !.cached = TRUE, !.at = "fetched"]]
  <2> DEFINE q == [request[t] EXCEPT !.val = MyEntry(t).val, !.cached = TRUE, !.at = "fetched"]
  <2>1. /\ MyEntry(t).val \in 0..hour /\ MyEntry(t).val \in Int
        /\ crossed \/ hour < MyEntry(t).val + 2 * TierTTL
    BY <1>1, LiveEntry
  <2>2. q \in TierRequest /\ q.at = "fetched" /\ q.cached /\ q.val = MyEntry(t).val
    BY <1>0, <2>1 DEF TierRequest
  <2>3. request' = [request EXCEPT ![t] = q] /\ UNCHANGED <<home, hour, lru, row, crossed>>
    BY <1>1 DEF AskOriginal
  <2> HIDE DEF q
  <2>4. TierRequestSound(q, hour, crossed)
    BY <1>0, <2>1, <2>2 DEF TierRequestSound, NoValue
  <2> QED
    BY <2>2, <2>3, <2>4, QuietStep
<1>2. CASE AskOriginal(t) /\ ~InLru(t) /\ KeyFree(t) /\ At(t, "fetch")
  <2> DEFINE q == [request[t] EXCEPT !.at = "fetch"]
  <2>1. q \in TierRequest /\ q.at = "fetch" /\ q.val = request[t].val /\ q.cached = request[t].cached
    BY <1>0 DEF TierRequest
  <2>2. request' = [request EXCEPT ![t] = q] /\ UNCHANGED <<home, hour, lru, row, crossed>>
    BY <1>2 DEF AskOriginal, At
  <2> HIDE DEF q
  <2>3. TierRequestSound(q, hour, crossed)
    BY <1>0, <1>2, <2>1 DEF TierRequestSound, AskOriginal
  <2> QED
    BY <1>2, <2>1, <2>2, <2>3, QuietStep
<1>3. CASE /\ FetchTier(t)
           /\ lru' = [lru EXCEPT ![home[t]] = [val |-> hour, at |-> hour]]
           /\ request' = [request EXCEPT ![t].val = hour, ![t].at = "fetched"]
  <2> DEFINE q == [request[t] EXCEPT !.val = hour, !.at = "fetched"]
             e == [val |-> hour, at |-> hour]
  <2>1. q \in TierRequest /\ q.at = "fetched" /\ q.val = hour
    BY <1>0 DEF TierRequest
  <2>2. /\ request' = [request EXCEPT ![t] = q] /\ lru' = [lru EXCEPT ![home[t]] = e]
        /\ UNCHANGED <<home, hour, row, crossed>>
    BY <1>3 DEF FetchTier
  <2>3. EntrySound(e, hour, crossed) /\ e \in [val : Int, at : Int]
    BY <1>0 DEF EntrySound, NoValue
  <2> HIDE DEF q, e
  <2>4. TierRequestSound(q, hour, crossed) /\ TierRequestSound(q, hour, crossed')
    BY <1>0, <2>1, <2>2 DEF TierRequestSound, NoValue
  <2>5. /\ request' \in [TierThreads -> TierRequest] /\ OneFetches'
        /\ \A u \in TierThreads : TierRequestSound(request'[u], hour', crossed')
    BY <2>1, <2>2, <2>4, RequestStep
  <2>6. TierType'
    BY <2>2, <2>3, <2>5 DEF TierInv, TierType
  <2>7. \A r \in Replicas : EntrySound(lru'[r], hour', crossed')
    BY <2>2, <2>3 DEF TierInv, TierType
  <2> QED
    BY <2>2, <2>5, <2>6, <2>7 DEF TierInv
<1>4. CASE FetchTier(t) /\ At(t, "fetched") /\ UNCHANGED lru
  <2> DEFINE q == [request[t] EXCEPT !.at = "fetched"]
  <2>1. q \in TierRequest /\ q.at = "fetched" /\ q.val = request[t].val
    BY <1>0 DEF TierRequest
  <2>2. request' = [request EXCEPT ![t] = q] /\ UNCHANGED <<home, hour, lru, row, crossed>>
    BY <1>4 DEF FetchTier, At
  <2> HIDE DEF q
  <2>3. TierRequestSound(q, hour, crossed)
    BY <1>0, <1>4, <2>1 DEF TierRequestSound, FetchTier
  <2> QED
    BY <2>1, <2>2, <2>3, QuietStep
<1> QED
  BY <1>1, <1>2, <1>3, <1>4 DEF AskOriginal, FetchTier

\* What is published is what the thread has just read, or the exception is recorded.
LEMMA PublishSteps ==
  ASSUME TierBounds, TierInv, NEW t \in TierThreads, ReadBack(t) \/ PublishRow(t)
  PROVE  TierInv'
<1>0. /\ hour \in Nat /\ hour \in Int /\ TierTTL \in Nat \ {0} /\ request[t] \in TierRequest
      /\ TierRequestSound(request[t], hour, crossed) /\ home[t] \in Replicas
  BY DEF TierInv, TierType, TierBounds
<1>1. CASE ReadBack(t) /\ Publishes(t) /\ InLru(t)
  <2> DEFINE v == MyEntry(t).val
             q == [request[t] EXCEPT !.at = "publish", !.val = v]
  <2>1. v \in 0..hour /\ v \in Int
    BY <1>1, LiveEntry
  <2>2. q \in TierRequest /\ q.at = "publish" /\ q.val = v
    BY <1>0, <2>1 DEF TierRequest
  <2>3. /\ request' = [request EXCEPT ![t] = q]
        /\ UNCHANGED <<home, hour, lru, row>>
        /\ crossed => crossed'
        /\ crossed' \/ v = request[t].val
    BY <1>1 DEF ReadBack, Publishes
  <2> HIDE DEF q, v
  <2>4. request[t].val \in {NoValue, hour}
    BY <1>0, <1>1 DEF TierRequestSound, ReadBack, Publishes
  <2>5. TierRequestSound(q, hour, crossed')
    BY <1>0, <2>1, <2>2, <2>3, <2>4 DEF TierRequestSound, NoValue
  <2>6. /\ request' \in [TierThreads -> TierRequest] /\ OneFetches'
        /\ \A u \in TierThreads : TierRequestSound(request'[u], hour', crossed')
    BY <2>2, <2>3, <2>5, RequestStep
  <2>7. TierType'
    BY <2>3, <2>6 DEF TierInv, TierType
  <2>8. \A r \in Replicas : EntrySound(lru'[r], hour', crossed')
    <3> SUFFICES ASSUME NEW r \in Replicas PROVE EntrySound(lru[r], hour, crossed')
      BY <2>3
    <3>1. EntrySound(lru[r], hour, crossed)
      BY DEF TierInv
    <3> QED
      BY <2>3, <3>1 DEF EntrySound
  <2>9. RowSound(row', hour', crossed')
    BY <2>3 DEF TierInv, RowSound
  <2> QED
    BY <2>6, <2>7, <2>8, <2>9 DEF TierInv
<1>2. CASE ReadBack(t) /\ ~(Publishes(t) /\ InLru(t))
  <2> DEFINE v == request[t].val
  <2>1. v \in NoValue..hour /\ (crossed \/ v = NoValue \/ hour < v + 2 * TierTTL)
    BY <1>0, <1>2 DEF TierRequestSound, ReadBack
  <2>2. AnswerWith(t, v) /\ UNCHANGED <<home, hour, lru, row, crossed>>
    BY <1>2 DEF ReadBack
  <2> HIDE DEF v
  <2>3. /\ request' \in [TierThreads -> TierRequest] /\ OneFetches'
        /\ \A u \in TierThreads : TierRequestSound(request'[u], hour', crossed')
    BY <2>1, <2>2, TierAnswers
  <2> QED
    BY <2>2, <2>3 DEF TierInv, TierType
<1>3. CASE PublishRow(t)
  <2> DEFINE v == request[t].val
             w == [val |-> v, exp |-> hour + TierTTL]
  <2>1. v \in NoValue..hour /\ v # NoValue /\ (crossed \/ v = hour)
    BY <1>0, <1>3 DEF TierRequestSound, PublishRow
  <2>2. /\ row' = w \/ row' = row
        /\ AnswerWith(t, v) /\ UNCHANGED <<home, hour, lru, crossed>>
    BY <1>3 DEF PublishRow
  <2>3. crossed \/ v = NoValue \/ hour < v + 2 * TierTTL
    BY <1>0, <2>1 DEF NoValue
  <2>4. RowSound(w, hour, crossed) /\ w \in [val : Int, exp : Int]
    BY <1>0, <2>1 DEF RowSound, NoValue
  <2> HIDE DEF v, w
  <2>5. /\ request' \in [TierThreads -> TierRequest] /\ OneFetches'
        /\ \A u \in TierThreads : TierRequestSound(request'[u], hour', crossed')
    BY <2>1, <2>2, <2>3, TierAnswers
  <2>6. TierType' /\ RowSound(row', hour', crossed')
    BY <2>2, <2>4, <2>5 DEF TierInv, TierType
  <2> QED
    BY <2>2, <2>5, <2>6 DEF TierInv
<1> QED
  BY <1>1, <1>2, <1>3

-----------------------------------------------------------------------------
\* The admin calls, a replica's restart and the clock.
LEMMA OtherSteps ==
  ASSUME TierBounds, TierInv,
         \/ \E what \in {"expire", "vacuum"} : CountRows(what)
         \/ ExpireRows \/ VacuumRows \/ HourPasses
         \/ \E r \in Replicas : RestartReplica(r)
  PROVE  TierInv'
<1>0. hour \in Nat /\ TierTTL \in Nat \ {0}
  BY DEF TierInv, TierType, TierBounds
<1>1. ASSUME UNCHANGED <<home, hour, lru, request, crossed>>, row' \in [val : Int, exp : Int],
             RowSound(row', hour, crossed)
      PROVE  TierInv'
  <2>1. TierType' /\ OneFetches'
    BY <1>1 DEF TierInv, TierType, OneFetches
  <2> QED
    BY <1>1, <2>1 DEF TierInv
<1>2. ASSUME NEW what \in {"expire", "vacuum"}, CountRows(what)
      PROVE  TierInv'
  BY <1>1, <1>2 DEF CountRows, TierInv, TierType
<1>3. CASE ExpireRows
  <2>1. row' \in [val : Int, exp : Int] /\ RowSound(row', hour, crossed)
    BY <1>0, <1>3 DEF ExpireRows, TierInv, TierType, RowSound
  <2> QED
    BY <1>1, <1>3, <2>1 DEF ExpireRows
<1>4. CASE VacuumRows
  <2>1. row' \in [val : Int, exp : Int] /\ RowSound(row', hour, crossed)
    BY <1>0, <1>4 DEF VacuumRows, NullExpired, RowLive, TierInv, TierType, RowSound, NoValue
  <2> QED
    BY <1>1, <1>4, <2>1 DEF VacuumRows
<1>5. CASE HourPasses
  <2>1. /\ request' = [t \in TierThreads |-> NoRequest] /\ hour' = hour + 1
        /\ hour' \in 0..MaxHours /\ UNCHANGED <<home, lru, row, crossed>>
    BY <1>0, <1>5 DEF HourPasses, TierInv, TierType, TierBounds
  <2>2. TierType' /\ OneFetches'
    BY <2>1, ResetSound DEF TierInv, TierType, OneFetches
  <2>3. \A t \in TierThreads : TierRequestSound(request'[t], hour', crossed')
    BY <1>0, <2>1, ResetSound DEF TierInv
  <2>4. ASSUME NEW r \in Replicas PROVE EntrySound(lru'[r], hour', crossed')
    <3>1. EntrySound(lru[r], hour, crossed) /\ lru[r].val \in Int /\ lru[r].at \in Int
      BY DEF TierInv, TierType
    <3> QED
      BY <1>0, <2>1, <3>1 DEF EntrySound, NoValue
  <2>5. RowSound(row', hour', crossed')
    BY <1>0, <2>1 DEF TierInv, TierType, RowSound, NoValue
  <2> QED
    BY <2>2, <2>3, <2>4, <2>5 DEF TierInv
<1>6. ASSUME NEW r \in Replicas, RestartReplica(r)
      PROVE  TierInv'
  <2>1. /\ lru' = [lru EXCEPT ![r] = NoEntry]
        /\ request' = [t \in TierThreads |-> IF home[t] = r THEN NoRequest ELSE request[t]]
        /\ UNCHANGED <<home, hour, row, crossed>>
    BY <1>6 DEF RestartReplica
  <2>2. NoEntry \in [val : Int, at : Int] /\ EntrySound(NoEntry, hour, crossed)
    BY <1>0 DEF NoEntry, NoValue, EntrySound
  <2>3. TierType'
    BY <2>1, <2>2, ResetSound DEF TierInv, TierType
  <2>4. OneFetches'
    BY <2>1, ResetSound DEF TierInv, TierType, OneFetches
  <2>5. \A t \in TierThreads : TierRequestSound(request'[t], hour', crossed')
    BY <1>0, <2>1, ResetSound DEF TierInv
  <2>6. \A q \in Replicas : EntrySound(lru'[q], hour', crossed')
    BY <2>1, <2>2 DEF TierInv, TierType
  <2> QED
    BY <2>1, <2>3, <2>4, <2>5, <2>6 DEF TierInv
<1> QED
  BY <1>2, <1>3, <1>4, <1>5, <1>6

\* Every step of the two tiers keeps the invariant.
LEMMA DeltaTierStep ==
  ASSUME TierBounds, TierInv, [DeltaTierNext]_tierVars
  PROVE  TierInv'
<1>1. CASE UNCHANGED tierVars
  BY <1>1 DEF tierVars, TierInv, TierType, OneFetches
<1>2. CASE DeltaTierNext
  BY <1>2, AskSteps, RowSteps, FetchSteps, PublishSteps, OtherSteps DEF DeltaTierNext
<1> QED
  BY <1>1, <1>2

-----------------------------------------------------------------------------
\* The clock, the entries and the row stay in their ranges, and the system tables are
\* read for one thread of a replica at a time.
THEOREM DeltaTierTypeCorrect == DeltaTierSpec => []DeltaTierTypeOK
<1>1. TierBounds /\ DeltaTierInit => TierInv
  BY DeltaTierStart
<1>2. TierBounds /\ TierInv /\ [DeltaTierNext]_tierVars => TierInv'
  BY DeltaTierStep
<1>3. TierInv => DeltaTierTypeOK
  <2> SUFFICES ASSUME TierInv PROVE DeltaTierTypeOK
    OBVIOUS
  <2>1. hour \in 0..MaxHours /\ row.val \in NoValue..hour /\ row.exp \in 0..(hour + TierTTL)
    BY DEF TierInv, TierType, RowSound
  <2>2. \A r \in Replicas : lru[r].val \in NoValue..hour /\ lru[r].at \in 0..hour
    BY DEF TierInv, EntrySound
  <2>3. ASSUME NEW r \in Replicas
        PROVE  Cardinality({t \in TierThreads : home[t] = r /\ request[t].at = "fetch"}) <= 1
    <3> DEFINE F == {t \in TierThreads : home[t] = r /\ request[t].at = "fetch"}
    <3>1. CASE F = {}
      BY <3>1, FS_EmptySet
    <3>2. ASSUME NEW t \in F PROVE F = {t}
      BY <3>2 DEF TierInv, OneFetches
    <3>3. CASE F # {}
      <4>1. PICK t \in F : F = {t}
        BY <3>2, <3>3
      <4>2. Cardinality(F) = 1
        BY <4>1, FS_Singleton
      <4> QED
        BY <4>2
    <3> QED
      BY <3>1, <3>3
  <2> QED
    BY <2>1, <2>2, <2>3 DEF DeltaTierTypeOK
<1> QED
  BY <1>1, <1>2, <1>3, TierBounds, PTL DEF DeltaTierSpec

\* For every number of replicas and threads and every lifetime, no answer is two
\* lifetimes old and no live row is empty: a value ages once in the row and once in a
\* replica's entry, because what a replica loaded from the row it never publishes.
THEOREM TierBoundsAgeHolds == DeltaTierSpec => []TierBoundsAge
<1>1. TierBounds /\ DeltaTierInit => TierInv
  BY DeltaTierStart
<1>2. TierBounds /\ TierInv /\ [DeltaTierNext]_tierVars => TierInv'
  BY DeltaTierStep
<1>3. TierBounds /\ TierInv => TierBoundsAge
  <2> SUFFICES ASSUME TierBounds, TierInv PROVE TierBoundsAge
    OBVIOUS
  <2>1. hour \in Nat /\ TierTTL \in Nat
    BY DEF TierInv, TierType, TierBounds
  <2>2. TwoLifetimes
    <3> SUFFICES ASSUME ~crossed, NEW t \in TierThreads,
                        request[t].at = "answered", request[t].val # NoValue
                 PROVE  hour - request[t].val < 2 * TierTTL
      BY DEF TwoLifetimes
    <3>1. TierRequestSound(request[t], hour, crossed)
      BY DEF TierInv
    <3> QED
      BY <2>1, <3>1 DEF TierRequestSound, NoValue
  <2>3. LiveRowIsWhole
    BY DEF TierInv, RowSound, LiveRowIsWhole, RowLive
  <2> QED
    BY <2>2, <2>3 DEF TierBoundsAge
<1> QED
  BY <1>1, <1>2, <1>3, TierBounds, PTL DEF DeltaTierSpec

-----------------------------------------------------------------------------
(***************************************************************************)
(* The request limit.                                                      *)
(***************************************************************************)
Times == [nth : Nat, at : Nat]
Entries == LimitUsers \X SUBSET Times

\* No two places of one user.
OnePlace(Q) == \A i, j \in DOMAIN Q : Q[i][1] = Q[j][1] => i = j

LimitType ==
    /\ time \in 0..MaxTime
    /\ passed \in [LimitUsers -> Seq(Nat)]
    /\ \A u \in LimitUsers : \A n \in DOMAIN passed[u] : passed[u][n] <= time
    /\ requests \in Seq(Entries) /\ OnePlace(requests)
    /\ \A i \in DOMAIN requests :
         IsFiniteSet(requests[i][2]) /\ Len(passed[requests[i][1]]) > 0

LastPass(u) == passed[u][Len(passed[u])]

\* The users are in the order in which they were let through last.
InOrder(Q) == \A i, j \in DOMAIN Q : i < j => LastPass(Q[i][1]) <= LastPass(Q[j][1])

\* What Q remembers of a user: every time within the window.
Remembers(Q, u) ==
    \A n \in DOMAIN passed[u] : time - passed[u][n] < RateWindow =>
        \E i \in DOMAIN Q : Q[i][1] = u /\ [nth |-> n, at |-> passed[u][n]] \in Q[i][2]

LimitInv ==
    /\ LimitType /\ InOrder(requests)
    /\ \A u \in LimitUsers \ shortened : Remembers(requests, u)
    /\ RateHolds

-----------------------------------------------------------------------------
\* The place of a user in a list of entries, and what is remembered there.
LEMMA PlaceFound ==
  ASSUME NEW Q \in Seq(Entries), OnePlace(Q), NEW i \in DOMAIN Q
  PROVE  /\ Q[i][1] \in Tracked(Q) /\ PlaceOf(Q, Q[i][1]) = i
         /\ EntryOf(Q, Q[i][1]) = Recent(Q[i][2])
<1>1. Q[i][1] \in Tracked(Q)
  BY DEF Tracked
<1>2. PlaceOf(Q, Q[i][1]) = i
  BY DEF PlaceOf, OnePlace
<1> QED
  BY <1>1, <1>2 DEF EntryOf

\* A user who is tracked has one place, the one found.
LEMMA PlaceIs ==
  ASSUME NEW Q \in Seq(Entries), OnePlace(Q), NEW u \in Tracked(Q)
  PROVE  PlaceOf(Q, u) \in DOMAIN Q /\ Q[PlaceOf(Q, u)][1] = u /\ u \in LimitUsers
<1>1. PICK i \in DOMAIN Q : Q[i][1] = u
  BY DEF Tracked
<1>2. Q[i] \in Entries
  OBVIOUS
<1> QED
  BY <1>1, <1>2, PlaceFound DEF Entries

\* A list without its i-th entry: the others, in their order.
Skip1(i, j) == IF j < i THEN j ELSE j + 1

LEMMA Skipping ==
  ASSUME NEW L \in Nat, NEW i \in 1..L
  PROVE  /\ L - 1 \in Nat
         /\ \A j \in 1..L - 1 : Skip1(i, j) \in 1..L /\ Skip1(i, j) # i
         /\ \A j, k \in 1..L - 1 : j < k => Skip1(i, j) < Skip1(i, k)
         /\ \A m \in 1..L : m # i => \E j \in 1..L - 1 : Skip1(i, j) = m
<1>1. ASSUME NEW m \in 1..L, m # i
      PROVE  \E j \in 1..L - 1 : Skip1(i, j) = m
  <2>1. CASE m < i
    BY <2>1 DEF Skip1
  <2>2. CASE m > i
    <3>1. m - 1 \in 1..L - 1 /\ Skip1(i, m - 1) = m
      BY <2>2 DEF Skip1
    <3> QED
      BY <3>1
  <2> QED
    BY <1>1, <2>1, <2>2
<1> QED
  BY <1>1 DEF Skip1

\* The entries of a list that are not u's, in their order.
OthersOf(R, Q, u) ==
    /\ R \in Seq(Entries)
    /\ \A j \in DOMAIN R : R[j][1] # u /\ \E m \in DOMAIN Q : R[j] = Q[m]
    /\ \A m \in DOMAIN Q : Q[m][1] # u => \E j \in DOMAIN R : R[j] = Q[m]
    /\ \A j, k \in DOMAIN R : j < k => \E m, n \in DOMAIN Q : m < n /\ R[j] = Q[m] /\ R[k] = Q[n]

\* The list without a user keeps everyone else, in order.
LEMMA WithoutUser ==
  ASSUME NEW Q \in Seq(Entries), OnePlace(Q), NEW u
  PROVE  OthersOf(Without(Q, u), Q, u)
<1> DEFINE R == Without(Q, u)
<1>0. DOMAIN Q = 1..Len(Q) /\ Len(Q) \in Nat
  OBVIOUS
<1>1. CASE u \notin Tracked(Q)
  BY <1>1 DEF Without, Tracked, OthersOf
<1>2. CASE u \in Tracked(Q)
  <2> DEFINE i == PlaceOf(Q, u)
             n == Len(Q) - 1
  <2>1. i \in 1..Len(Q) /\ Q[i][1] = u
    BY <1>0, <1>2, PlaceIs
  <2>2. R = [j \in 1..n |-> Q[IF j < i THEN j ELSE j + 1]]
    BY <1>2 DEF Without
  <2> HIDE DEF i, R
  <2>3. /\ n \in Nat
        /\ \A j \in 1..n : Skip1(i, j) \in 1..Len(Q) /\ Skip1(i, j) # i
        /\ \A j, k \in 1..n : j < k => Skip1(i, j) < Skip1(i, k)
        /\ \A m \in 1..Len(Q) : m # i => \E j \in 1..n : Skip1(i, j) = m
    BY <1>0, <2>1, Skipping
  <2> HIDE DEF n
  <2>4. \A j \in 1..n : R[j] = Q[Skip1(i, j)]
    BY <2>2 DEF Skip1
  <2>5. DOMAIN R = 1..n
    BY <2>2
  <2>6. R \in Seq(Entries)
    <3>1. \A j \in 1..n : Q[Skip1(i, j)] \in Entries
      BY <1>0, <2>3
    <3>2. \A j \in 1..n : Q[IF j < i THEN j ELSE j + 1] \in Entries
      BY <3>1 DEF Skip1
    <3> QED
      BY <2>2, <2>3, <3>2
  <2>7. \A m \in DOMAIN Q : Q[m][1] = u => m = i
    BY <1>0, <2>1 DEF OnePlace
  <2>8. \A j \in DOMAIN R : R[j][1] # u /\ \E m \in DOMAIN Q : R[j] = Q[m]
    BY <1>0, <2>3, <2>4, <2>5, <2>7
  <2>9. ASSUME NEW m \in DOMAIN Q, Q[m][1] # u
        PROVE  \E j \in DOMAIN R : R[j] = Q[m]
    <3>1. PICK j \in 1..n : Skip1(i, j) = m
      BY <1>0, <2>1, <2>3, <2>9
    <3> QED
      BY <2>4, <2>5, <3>1
  <2>10. ASSUME NEW j \in DOMAIN R, NEW k \in DOMAIN R, j < k
         PROVE  \E m, l \in DOMAIN Q : m < l /\ R[j] = Q[m] /\ R[k] = Q[l]
    <3>1. Skip1(i, j) < Skip1(i, k)
      BY <2>3, <2>5, <2>10
    <3>2. Skip1(i, j) \in DOMAIN Q /\ Skip1(i, k) \in DOMAIN Q
      BY <1>0, <2>3, <2>5
    <3> QED
      BY <2>4, <2>5, <3>1, <3>2
  <2> QED
    BY <2>6, <2>8, <2>9, <2>10 DEF OthersOf, R
<1> QED
  BY <1>1, <1>2

-----------------------------------------------------------------------------
\* Nobody is tracked at first.
LEMMA RateLimitStart ==
  ASSUME LimitBounds, RateLimitInit
  PROVE  LimitInv
<1>1. LimitType
  BY DEF LimitBounds, RateLimitInit, LimitType, OnePlace
<1>2. InOrder(requests) /\ \A u \in LimitUsers : Remembers(requests, u)
  BY DEF RateLimitInit, InOrder, Remembers
<1>3. RateHolds
  <2> SUFFICES ASSUME NEW u \in LimitUsers
               PROVE  Cardinality({i \in DOMAIN passed[u] : time - passed[u][i] < RateWindow}) <= RateMax
    BY DEF RateHolds
  <2>1. {i \in DOMAIN passed[u] : time - passed[u][i] < RateWindow} = {}
    BY DEF RateLimitInit
  <2> QED
    BY <2>1, FS_EmptySet DEF LimitBounds
<1> QED
  BY <1>1, <1>2, <1>3 DEF LimitInv

\* The eviction that begins a request: who is dropped was let through before all others,
\* and who is not on record as shortened still has its times.
LEMMA Eviction ==
  ASSUME LimitBounds, LimitInv, Forget
  PROVE  /\ Evicted \in Seq(Entries) /\ OnePlace(Evicted) /\ InOrder(Evicted)
         /\ \A j \in DOMAIN Evicted : \E m \in DOMAIN requests : Evicted[j] = requests[m]
         /\ \A u \in LimitUsers \ shortened' : u \notin shortened /\ Remembers(Evicted, u)
         /\ \A u \in Tracked(requests) \ Tracked(Evicted) :
              \A v \in Tracked(requests) : LastPass(u) <= LastPass(v)
<1>0. /\ requests \in Seq(Entries) /\ OnePlace(requests) /\ InOrder(requests)
      /\ DOMAIN requests = 1..Len(requests) /\ Len(requests) \in Nat
      /\ MaxTracked \in Nat \ {0}
      /\ time \in Int /\ RateWindow \in Int
  BY DEF LimitInv, LimitType, LimitBounds
<1>1. CASE Evicted = requests
  <2>1. \A u \in LimitUsers \ shortened' : u \notin shortened
    BY DEF Forget
  <2> QED
    BY <1>0, <1>1, <2>1 DEF LimitInv
<1>2. CASE Len(requests) > MaxTracked /\ Evicted = Tail(requests)
  <2> DEFINE Q == Tail(requests)
  <2>1. requests # << >>
    BY <1>0, <1>2
  <2>2. /\ Q \in Seq(Entries) /\ Len(Q) = Len(requests) - 1
        /\ \A j \in 1..Len(Q) : Q[j] = requests[j + 1]
    BY <1>0, <2>1, HeadTailProperties
  <2> HIDE DEF Q
  <2>3. DOMAIN Q = 1..Len(requests) - 1
    BY <2>2
  <2>4. /\ \A j \in DOMAIN Q : j + 1 \in DOMAIN requests /\ Q[j] = requests[j + 1]
        /\ \A m \in DOMAIN requests : m # 1 => m - 1 \in DOMAIN Q /\ requests[m] = Q[m - 1]
    BY <1>0, <2>2, <2>3
  <2>5. OnePlace(Q)
    <3> SUFFICES ASSUME NEW j \in DOMAIN Q, NEW k \in DOMAIN Q, Q[j][1] = Q[k][1]
                 PROVE  j = k
      BY DEF OnePlace
    <3>1. j + 1 = k + 1
      BY <1>0, <2>4 DEF OnePlace
    <3> QED
      BY <2>3, <3>1
  <2>6. InOrder(Q)
    <3> SUFFICES ASSUME NEW j \in DOMAIN Q, NEW k \in DOMAIN Q, j < k
                 PROVE  LastPass(Q[j][1]) <= LastPass(Q[k][1])
      BY DEF InOrder
    <3>1. j + 1 < k + 1
      BY <2>3
    <3> QED
      BY <1>0, <2>4, <3>1 DEF InOrder
  <2> DEFINE w == requests[1][1]
  <2>7. 1 \in DOMAIN requests /\ w \in Tracked(requests) /\ EntryOf(requests, w) = Recent(requests[1][2])
    BY <1>0, <1>2, PlaceFound
  <2>8. Tracked(requests) \ Tracked(Q) = {w}
    <3>1. \A m \in DOMAIN requests : m # 1 => requests[m][1] \in Tracked(Q)
      BY <2>4 DEF Tracked
    <3>2. w \notin Tracked(Q)
      <4> SUFFICES ASSUME NEW j \in DOMAIN Q, Q[j][1] = w
                   PROVE  FALSE
        BY DEF Tracked
      <4>1. j + 1 = 1
        BY <1>0, <2>4, <2>7 DEF OnePlace
      <4> QED
        BY <2>3, <4>1
    <3> QED
      BY <2>7, <3>1, <3>2 DEF Tracked
  <2>9. ASSUME NEW u \in LimitUsers \ shortened'
        PROVE  u \notin shortened /\ Remembers(Q, u)
    <3>1. u \notin shortened /\ (u = w => EntryOf(requests, u) = {})
      BY <1>2, <2>8 DEF Forget, Q
    <3>2. Remembers(requests, u)
      BY <3>1 DEF LimitInv
    <3> SUFFICES ASSUME NEW n \in DOMAIN passed[u], time - passed[u][n] < RateWindow
                 PROVE  \E j \in DOMAIN Q : Q[j][1] = u /\ [nth |-> n, at |-> passed[u][n]] \in Q[j][2]
      BY <3>1 DEF Remembers
    <3> DEFINE p == [nth |-> n, at |-> passed[u][n]]
    <3>3. PICK m \in DOMAIN requests : requests[m][1] = u /\ p \in requests[m][2]
      BY <3>2 DEF Remembers
    <3>4. m # 1
      <4>1. ASSUME m = 1 PROVE FALSE
        <5>1. u = w /\ p \in requests[1][2] /\ p.at = passed[u][n]
          BY <3>3, <4>1
        <5>2. p \in Recent(requests[1][2])
          BY <5>1 DEF Recent
        <5> QED
          BY <2>7, <3>1, <5>1, <5>2
      <4> QED
        BY <4>1
    <3>5. m - 1 \in DOMAIN Q /\ Q[m - 1] = requests[m]
      BY <2>4, <3>4
    <3> QED
      BY <3>3, <3>5
  <2>10. \A v \in Tracked(requests) : LastPass(w) <= LastPass(v)
    <3> SUFFICES ASSUME NEW m \in DOMAIN requests
                 PROVE  LastPass(w) <= LastPass(requests[m][1])
      BY DEF Tracked
    <3>1. CASE m = 1
      <4>1. requests[1] \in Entries /\ Len(passed[w]) > 0
        BY <1>0, <2>7 DEF LimitInv, LimitType
      <4>2. LastPass(w) \in Int
        <5>1. w \in LimitUsers
          BY <2>7, <4>1 DEF Entries
        <5>2. passed[w] \in Seq(Nat)
          BY <5>1 DEF LimitInv, LimitType
        <5> QED
          BY <4>1, <5>2, LenProperties DEF LastPass
      <4> QED
        BY <3>1, <4>2
    <3>2. CASE m # 1
      <4>1. 1 < m
        BY <1>0, <3>2
      <4> QED
        BY <1>0, <2>7, <4>1 DEF InOrder
    <3> QED
      BY <3>1, <3>2
  <2>11. \A j \in DOMAIN Q : \E m \in DOMAIN requests : Q[j] = requests[m]
    BY <2>4
  <2>12. \A u \in Tracked(requests) \ Tracked(Q) : u = w
    BY <2>8
  <2>13. Evicted = Q
    BY <1>2 DEF Q
  <2> HIDE DEF w
  <2> QED
    BY <2>2, <2>5, <2>6, <2>9, <2>10, <2>11, <2>12, <2>13
<1> QED
  BY <1>1, <1>2 DEF Evicted

\* What a request finds of its user's list: finitely many times, every recent one of a
\* user that was not shortened among them.
LEMMA ListFound ==
  ASSUME LimitBounds, LimitInv, Forget, NEW u \in LimitUsers, NEW E, E = EntryOf(Evicted, u)
  PROVE  /\ IsFiniteSet(E) /\ E \in SUBSET Times
         /\ u \notin shortened' => \A n \in DOMAIN passed[u] :
              time - passed[u][n] < RateWindow => [nth |-> n, at |-> passed[u][n]] \in E
<1>0. /\ Evicted \in Seq(Entries) /\ OnePlace(Evicted)
      /\ \A j \in DOMAIN Evicted : \E m \in DOMAIN requests : Evicted[j] = requests[m]
      /\ u \notin shortened' => Remembers(Evicted, u)
  BY Eviction
<1>1. IsFiniteSet(E) /\ E \in SUBSET Times
  <2>1. CASE u \notin Tracked(Evicted)
    BY <2>1, FS_EmptySet DEF EntryOf
  <2>2. CASE u \in Tracked(Evicted)
    <3>1. PICK j \in DOMAIN Evicted : Evicted[j][1] = u
      BY <2>2 DEF Tracked
    <3>2. E = Recent(Evicted[j][2])
      BY <1>0, <3>1, PlaceFound
    <3>3. PICK m \in DOMAIN requests : Evicted[j] = requests[m]
      BY <1>0
    <3>4. IsFiniteSet(Evicted[j][2]) /\ Evicted[j][2] \in SUBSET Times
      <4>1. Evicted[j] \in Entries
        BY <1>0
      <4> QED
        BY <3>3, <4>1 DEF LimitInv, LimitType, Entries
    <3>5. E \in SUBSET Evicted[j][2]
      BY <3>2 DEF Recent
    <3> QED
      BY <3>4, <3>5, FS_Subset
  <2> QED
    BY <2>1, <2>2
<1>2. ASSUME u \notin shortened', NEW n \in DOMAIN passed[u], time - passed[u][n] < RateWindow
      PROVE  [nth |-> n, at |-> passed[u][n]] \in E
  <2> DEFINE p == [nth |-> n, at |-> passed[u][n]]
  <2>1. PICK j \in DOMAIN Evicted : Evicted[j][1] = u /\ p \in Evicted[j][2]
    BY <1>0, <1>2 DEF Remembers
  <2>2. E = Recent(Evicted[j][2])
    BY <1>0, <2>1, PlaceFound
  <2>3. p.at = passed[u][n]
    OBVIOUS
  <2> QED
    BY <1>2, <2>1, <2>2, <2>3 DEF Recent
<1> QED
  BY <1>1, <1>2

\* The times of a user within the window, by their numbers.
InWindow(u) == {n \in DOMAIN passed[u] : time - passed[u][n] < RateWindow}

\* Finitely many requests are within the window.
LEMMA WithinFinite ==
  ASSUME LimitInv, NEW u \in LimitUsers
  PROVE  IsFiniteSet(InWindow(u)) /\ Cardinality(InWindow(u)) \in Nat
<1>1. DOMAIN passed[u] = 1..Len(passed[u]) /\ Len(passed[u]) \in Nat
  BY DEF LimitInv, LimitType
<1>2. IsFiniteSet(DOMAIN passed[u])
  BY <1>1, FS_Interval
<1>3. InWindow(u) \in SUBSET DOMAIN passed[u]
  BY DEF InWindow
<1> QED
  BY <1>2, <1>3, FS_Subset, FS_CardinalityType

\* No more times are within the window than the list of the user holds.
LEMMA WithinTheList ==
  ASSUME LimitInv, NEW u \in LimitUsers, NEW E, IsFiniteSet(E),
         \A n \in InWindow(u) : [nth |-> n, at |-> passed[u][n]] \in E
  PROVE  Cardinality(InWindow(u)) <= Cardinality(E)
<1> DEFINE f == [n \in InWindow(u) |-> [nth |-> n, at |-> passed[u][n]]]
<1>1. f \in [InWindow(u) -> E]
  OBVIOUS
<1>2. \A m, n \in InWindow(u) : f[m] = f[n] => m = n
  <2> SUFFICES ASSUME NEW m \in InWindow(u), NEW n \in InWindow(u), f[m] = f[n] PROVE m = n
    OBVIOUS
  <2>1. f[m].nth = m /\ f[n].nth = n
    OBVIOUS
  <2> QED
    BY <2>1
<1>3. f \in Injection(InWindow(u), E)
  BY <1>1, <1>2 DEF Injection, IsInjective
<1> QED
  BY <1>3, FS_Injection

\* A request that is let through is remembered at the end of the list.
LEMMA LetThroughStep ==
  ASSUME LimitBounds, LimitInv, NEW u \in LimitUsers, LetThrough(u)
  PROVE  LimitInv'
<1> DEFINE E == EntryOf(Evicted, u)
           p == ThisTime(u)
           e == <<u, E \union {p}>>
           R == Without(Evicted, u)
           L == Len(passed[u])
<1>0. /\ requests' = Append(R, e) /\ passed' = [passed EXCEPT ![u] = Append(@, time)]
      /\ time' = time /\ Forget /\ ~AtLimit(u)
  BY DEF LetThrough, ToEnd
<1>1. /\ time \in Nat /\ time \in 0..MaxTime /\ passed \in [LimitUsers -> Seq(Nat)]
      /\ L \in Nat /\ DOMAIN passed[u] = 1..L
      /\ RateMax \in Nat \ {0} /\ RateWindow \in Nat \ {0}
  BY DEF LimitInv, LimitType, LimitBounds
<1>2. /\ p = [nth |-> L + 1, at |-> time]
      /\ p \in Times
  BY <1>1 DEF ThisTime, Times
<1>3. /\ Evicted \in Seq(Entries) /\ OnePlace(Evicted) /\ InOrder(Evicted)
      /\ \A j \in DOMAIN Evicted : \E m \in DOMAIN requests : Evicted[j] = requests[m]
      /\ \A v \in LimitUsers \ shortened' : v \notin shortened /\ Remembers(Evicted, v)
  BY <1>0, Eviction
<1>4. /\ IsFiniteSet(E) /\ E \in SUBSET Times
      /\ u \notin shortened' => \A n \in DOMAIN passed[u] :
           time - passed[u][n] < RateWindow => [nth |-> n, at |-> passed[u][n]] \in E
  BY <1>0, ListFound
<1>5. OthersOf(R, Evicted, u)
  BY <1>3, WithoutUser
<1>6. /\ \A v \in LimitUsers : v # u => passed'[v] = passed[v]
      /\ passed'[u] = Append(passed[u], time)
      /\ Len(passed'[u]) = L + 1 /\ DOMAIN passed'[u] = 1..L + 1
      /\ \A n \in 1..L : passed'[u][n] = passed[u][n]
      /\ passed'[u][L + 1] = time
      /\ passed' \in [LimitUsers -> Seq(Nat)]
  BY <1>0, <1>1
<1>7. e \in Entries /\ e[1] = u /\ e[2] = E \union {p} /\ IsFiniteSet(e[2])
  BY <1>2, <1>4, FS_AddElement DEF Entries
<1>8. ~(Cardinality(E) >= RateMax)
  BY <1>0 DEF AtLimit
<1> HIDE DEF E, p, e, R, L
<1>9. /\ requests' \in Seq(Entries) /\ DOMAIN requests' = 1..Len(R) + 1
      /\ DOMAIN R = 1..Len(R) /\ Len(R) \in Nat
      /\ \A j \in 1..Len(R) : requests'[j] = R[j]
      /\ requests'[Len(R) + 1] = e
  BY <1>0, <1>5, <1>7, AppendProperties, LenProperties DEF OthersOf
<1>10. \A j \in DOMAIN R : /\ R[j][1] # u /\ R[j] \in Entries /\ R[j][1] \in LimitUsers
                           /\ \E m \in DOMAIN requests : R[j] = requests[m]
  BY <1>3, <1>5 DEF OthersOf, Entries
<1>11. OnePlace(requests')
  <2>1. ASSUME NEW j \in DOMAIN R, NEW k \in DOMAIN R, j < k
        PROVE  R[j][1] # R[k][1]
    <3>1. PICK m, n \in DOMAIN Evicted : m < n /\ R[j] = Evicted[m] /\ R[k] = Evicted[n]
      BY <1>5, <2>1 DEF OthersOf
    <3>2. m # n
      BY <1>3, <3>1
    <3> QED
      BY <1>3, <3>1, <3>2 DEF OnePlace
  <2> SUFFICES ASSUME NEW j \in DOMAIN requests', NEW k \in DOMAIN requests', j < k
               PROVE  requests'[j][1] # requests'[k][1]
    BY <1>9 DEF OnePlace
  <2>2. j \in DOMAIN R /\ requests'[j] = R[j]
    BY <1>9
  <2>3. CASE k \in DOMAIN R
    BY <1>9, <2>1, <2>2, <2>3
  <2>4. CASE k = Len(R) + 1
    BY <1>7, <1>9, <1>10, <2>2, <2>4
  <2> QED
    BY <1>9, <2>3, <2>4
<1>12. ASSUME NEW j \in DOMAIN requests'
       PROVE  IsFiniteSet(requests'[j][2]) /\ Len(passed'[requests'[j][1]]) > 0
  <2>1. CASE j = Len(R) + 1
    <3>1. requests'[j] = e /\ L \in Nat
      BY <1>1, <1>9, <2>1
    <3>2. requests'[j][1] = u /\ IsFiniteSet(requests'[j][2])
      BY <1>7, <3>1
    <3>3. Len(passed'[u]) = L + 1
      BY <1>6
    <3> QED
      BY <3>1, <3>2, <3>3
  <2>2. CASE j \in DOMAIN R
    <3>1. /\ requests'[j] = R[j] /\ R[j][1] # u /\ R[j][1] \in LimitUsers
          /\ \E m \in DOMAIN requests : R[j] = requests[m]
      BY <1>9, <1>10, <2>2
    <3>2. IsFiniteSet(R[j][2]) /\ Len(passed[R[j][1]]) > 0
      BY <3>1 DEF LimitInv, LimitType
    <3>3. passed'[R[j][1]] = passed[R[j][1]]
      BY <1>6, <3>1
    <3> QED
      BY <3>1, <3>2, <3>3
  <2> QED
    BY <1>9, <2>1, <2>2
<1>13. ASSUME NEW v \in LimitUsers, NEW n \in DOMAIN passed'[v]
       PROVE  passed'[v][n] <= time
  <2>1. CASE v # u
    BY <1>6, <2>1 DEF LimitInv, LimitType
  <2>2. CASE v = u /\ n \in 1..L
    BY <1>1, <1>6, <2>2 DEF LimitInv, LimitType
  <2>3. CASE v = u /\ n = L + 1
    BY <1>1, <1>6, <2>3
  <2> QED
    BY <1>1, <1>6, <2>1, <2>2, <2>3
<1>14. LimitType'
  BY <1>0, <1>1, <1>6, <1>9, <1>11, <1>12, <1>13 DEF LimitType
<1> DEFINE Last2(v) == passed'[v][Len(passed'[v])]
<1>15. InOrder(requests)'
  <2>1. ASSUME NEW v \in LimitUsers, v # u
        PROVE  Last2(v) = LastPass(v)
    BY <1>6, <2>1 DEF LastPass
  <2>2. Last2(u) = time
    BY <1>6
  <2>3. ASSUME NEW j \in DOMAIN R
        PROVE  LastPass(R[j][1]) <= time
    <3>1. PICK m \in DOMAIN requests : R[j] = requests[m]
      BY <1>10
    <3>2. R[j][1] \in LimitUsers /\ Len(passed[R[j][1]]) > 0
      BY <1>10, <3>1 DEF LimitInv, LimitType
    <3>3. Len(passed[R[j][1]]) \in DOMAIN passed[R[j][1]]
      BY <1>1, <3>2
    <3> QED
      BY <3>2, <3>3 DEF LimitInv, LimitType, LastPass
  <2>4. ASSUME NEW j \in DOMAIN R, NEW k \in DOMAIN R, j < k
        PROVE  LastPass(R[j][1]) <= LastPass(R[k][1])
    <3>1. PICK m, n \in DOMAIN Evicted : m < n /\ R[j] = Evicted[m] /\ R[k] = Evicted[n]
      BY <1>5, <2>4 DEF OthersOf
    <3> QED
      BY <1>3, <3>1 DEF InOrder
  <2>5. ASSUME NEW j \in DOMAIN requests', NEW k \in DOMAIN requests', j < k
        PROVE  Last2(requests'[j][1]) <= Last2(requests'[k][1])
    <3> HIDE DEF Last2
    <3>1. j \in DOMAIN R /\ requests'[j] = R[j]
      BY <1>9, <2>5
    <3>2. Last2(R[j][1]) = LastPass(R[j][1])
      BY <1>10, <2>1, <3>1
    <3>3. CASE k \in DOMAIN R
      <4>1. requests'[k] = R[k] /\ Last2(R[k][1]) = LastPass(R[k][1])
        BY <1>9, <1>10, <2>1, <3>3
      <4> QED
        BY <2>4, <2>5, <3>1, <3>2, <3>3, <4>1
    <3>4. CASE k = Len(R) + 1
      <4>1. requests'[k][1] = u
        BY <1>7, <1>9, <3>4
      <4> QED
        BY <2>2, <2>3, <3>1, <3>2, <4>1
    <3> QED
      BY <1>9, <3>3, <3>4
  <2> QED
    BY <2>5 DEF InOrder, LastPass
<1>16. ASSUME NEW v \in LimitUsers \ shortened', NEW n \in DOMAIN passed'[v],
              time - passed'[v][n] < RateWindow
       PROVE  \E i \in DOMAIN requests' :
                requests'[i][1] = v /\ [nth |-> n, at |-> passed'[v][n]] \in requests'[i][2]
  <2>1. CASE v # u
    <3> DEFINE q == [nth |-> n, at |-> passed[v][n]]
    <3>1. n \in DOMAIN passed[v] /\ passed'[v][n] = passed[v][n]
      BY <1>6, <2>1
    <3>2. PICK m \in DOMAIN Evicted : Evicted[m][1] = v /\ q \in Evicted[m][2]
      BY <1>3, <1>16, <3>1 DEF Remembers
    <3>3. PICK j \in DOMAIN R : R[j] = Evicted[m]
      BY <1>5, <2>1, <3>2 DEF OthersOf
    <3>4. j \in DOMAIN requests' /\ requests'[j] = R[j]
      BY <1>9
    <3> QED
      BY <3>1, <3>2, <3>3, <3>4
  <2>2. CASE v = u
    <3> DEFINE q == [nth |-> n, at |-> passed'[u][n]]
    <3>1. q \in E \union {p}
      <4>1. CASE n = L + 1
        BY <1>2, <1>6, <4>1
      <4>2. CASE n \in 1..L
        <5>1. passed'[u][n] = passed[u][n] /\ n \in DOMAIN passed[u]
          BY <1>1, <1>6, <4>2
        <5> QED
          BY <1>4, <1>16, <2>2, <5>1
      <4> QED
        BY <1>1, <1>6, <2>2, <4>1, <4>2
    <3>2. Len(R) + 1 \in DOMAIN requests' /\ requests'[Len(R) + 1] = e
      BY <1>9
    <3> QED
      BY <1>7, <2>2, <3>1, <3>2
  <2> QED
    BY <2>1, <2>2
<1>17. \A v \in LimitUsers \ shortened' : Remembers(requests, v)'
  BY <1>0, <1>16 DEF Remembers
<1>18. ASSUME NEW v \in LimitUsers \ shortened'
       PROVE  Cardinality({n \in DOMAIN passed'[v] : time' - passed'[v][n] < RateWindow}) <= RateMax
  <2> DEFINE S == {n \in DOMAIN passed'[v] : time' - passed'[v][n] < RateWindow}
  <2>1. CASE v # u
    <3>1. S = InWindow(v)
      BY <1>0, <1>6, <2>1 DEF InWindow
    <3>2. v \notin shortened
      BY <1>3
    <3> QED
      BY <3>1, <3>2 DEF LimitInv, RateHolds, InWindow
  <2>2. CASE v = u
    <3>1. S \subseteq InWindow(u) \union {L + 1}
      BY <1>0, <1>1, <1>6, <2>2 DEF InWindow
    <3>2. \A n \in InWindow(u) : [nth |-> n, at |-> passed[u][n]] \in E
      BY <1>4, <2>2 DEF InWindow
    <3>3. IsFiniteSet(InWindow(u)) /\ Cardinality(InWindow(u)) \in Nat
          /\ Cardinality(InWindow(u)) <= Cardinality(E)
      BY <1>4, <3>2, WithinFinite, WithinTheList
    <3>4. Cardinality(E) \in Nat
      BY <1>4, FS_CardinalityType
    <3>5. /\ IsFiniteSet(InWindow(u) \union {L + 1})
          /\ Cardinality(InWindow(u) \union {L + 1}) =
                IF L + 1 \in InWindow(u) THEN Cardinality(InWindow(u)) ELSE Cardinality(InWindow(u)) + 1
      BY <3>3, FS_AddElement
    <3>6. Cardinality(InWindow(u) \union {L + 1}) <= RateMax
          /\ Cardinality(InWindow(u) \union {L + 1}) \in Nat
      <4> HIDE DEF S
      <4>1. CASE L + 1 \in InWindow(u)
        BY <1>1, <1>8, <3>3, <3>4, <3>5, <4>1
      <4>2. CASE L + 1 \notin InWindow(u)
        BY <1>1, <1>8, <3>3, <3>4, <3>5, <4>2
      <4> QED
        BY <4>1, <4>2
    <3>7. Cardinality(S) <= Cardinality(InWindow(u) \union {L + 1}) /\ IsFiniteSet(S)
      BY <3>1, <3>5, FS_Subset
    <3>8. Cardinality(S) \in Nat
      BY <3>7, FS_CardinalityType
    <3> HIDE DEF S
    <3>9. Cardinality(S) <= RateMax
      BY <1>1, <3>6, <3>7, <3>8
    <3> QED
      BY <3>9 DEF S
  <2> QED
    BY <2>1, <2>2
<1>19. RateHolds'
  BY <1>18 DEF RateHolds
<1> QED
  BY <1>14, <1>15, <1>17, <1>19 DEF LimitInv

\* A refusal drops what is out of the window, and no one's place.
LEMMA RefuseStep ==
  ASSUME LimitBounds, LimitInv, NEW u \in LimitUsers, Refuse(u)
  PROVE  LimitInv' /\ Tracked(Evicted) \subseteq Tracked(requests')
<1> DEFINE E == EntryOf(Evicted, u)
           Q == Evicted
<1>0. /\ requests' = InPlace(Q, u, E) /\ UNCHANGED <<time, passed>>
      /\ Forget /\ AtLimit(u) /\ RateMax \in Nat \ {0}
  BY DEF Refuse, LimitBounds
<1>1. /\ Q \in Seq(Entries) /\ OnePlace(Q) /\ InOrder(Q)
      /\ \A j \in DOMAIN Q : \E m \in DOMAIN requests : Q[j] = requests[m]
      /\ \A v \in LimitUsers \ shortened' : v \notin shortened /\ Remembers(Q, v)
  BY <1>0, Eviction
<1>2. /\ IsFiniteSet(E) /\ E \in SUBSET Times
      /\ u \notin shortened' => \A n \in DOMAIN passed[u] :
           time - passed[u][n] < RateWindow => [nth |-> n, at |-> passed[u][n]] \in E
  BY <1>0, ListFound
<1>3. u \in Tracked(Q)
  <2>1. E # {}
    BY <1>0, FS_EmptySet DEF AtLimit
  <2> QED
    BY <2>1 DEF EntryOf
<1> HIDE DEF E, Q
<1>4. requests' = [i \in DOMAIN Q |-> IF Q[i][1] = u THEN <<u, E>> ELSE Q[i]]
  BY <1>0, <1>3 DEF InPlace
<1>5. /\ DOMAIN requests' = DOMAIN Q /\ DOMAIN Q = 1..Len(Q) /\ Len(Q) \in Nat
      /\ \A i \in DOMAIN Q : Q[i] \in Entries /\ requests'[i][1] = Q[i][1]
      /\ \A i \in DOMAIN Q : IF Q[i][1] = u THEN requests'[i][2] = E ELSE requests'[i] = Q[i]
  BY <1>1, <1>4
<1>6. requests' \in Seq(Entries)
  <2>1. <<u, E>> \in Entries
    BY <1>2 DEF Entries
  <2>2. \A i \in 1..Len(Q) : (IF Q[i][1] = u THEN <<u, E>> ELSE Q[i]) \in Entries
    BY <1>5, <2>1
  <2>3. requests' = [i \in 1..Len(Q) |-> IF Q[i][1] = u THEN <<u, E>> ELSE Q[i]]
    BY <1>4, <1>5
  <2>4. requests' \in [1..Len(Q) -> Entries]
    BY <2>2, <2>3
  <2> QED
    BY <1>5, <2>4, SeqDef
<1>7. OnePlace(requests')
  BY <1>1, <1>5 DEF OnePlace
<1>8. ASSUME NEW i \in DOMAIN requests'
      PROVE  IsFiniteSet(requests'[i][2]) /\ Len(passed[requests'[i][1]]) > 0
  <2>1. PICK m \in DOMAIN requests : Q[i] = requests[m]
    BY <1>1, <1>5
  <2>2. IsFiniteSet(Q[i][2]) /\ Len(passed[Q[i][1]]) > 0
    BY <2>1 DEF LimitInv, LimitType
  <2> QED
    BY <1>2, <1>5, <2>2
<1>9. LimitType'
  BY <1>0, <1>6, <1>7, <1>8 DEF LimitInv, LimitType
<1>10. InOrder(requests)'
  <2> DEFINE Last2(v) == passed'[v][Len(passed'[v])]
  <2>1. \A v : Last2(v) = LastPass(v)
    BY <1>0 DEF LastPass
  <2> HIDE DEF Last2
  <2>2. ASSUME NEW i \in DOMAIN requests', NEW j \in DOMAIN requests', i < j
        PROVE  Last2(requests'[i][1]) <= Last2(requests'[j][1])
    <3>1. i \in DOMAIN Q /\ j \in DOMAIN Q /\ requests'[i][1] = Q[i][1] /\ requests'[j][1] = Q[j][1]
      BY <1>5
    <3>2. LastPass(Q[i][1]) <= LastPass(Q[j][1])
      BY <1>1, <2>2, <3>1 DEF InOrder
    <3> QED
      BY <2>1, <3>1, <3>2
  <2> QED
    BY <2>2 DEF InOrder, LastPass, Last2
<1>11. ASSUME NEW v \in LimitUsers \ shortened', NEW n \in DOMAIN passed[v],
              time - passed[v][n] < RateWindow
       PROVE  \E i \in DOMAIN requests' :
                requests'[i][1] = v /\ [nth |-> n, at |-> passed[v][n]] \in requests'[i][2]
  <2> DEFINE q == [nth |-> n, at |-> passed[v][n]]
  <2>1. PICK i \in DOMAIN Q : Q[i][1] = v /\ q \in Q[i][2]
    BY <1>1, <1>11 DEF Remembers
  <2>2. v = u => q \in E
    BY <1>2, <1>11
  <2> HIDE DEF q
  <2>3. requests'[i][1] = v /\ q \in requests'[i][2]
    BY <1>5, <2>1, <2>2
  <2> QED
    BY <1>5, <2>3 DEF q
<1>12. \A v \in LimitUsers \ shortened' : Remembers(requests, v)'
  BY <1>0, <1>11 DEF Remembers
<1>13. RateHolds'
  BY <1>0, <1>1 DEF LimitInv, RateHolds
<1>14. Tracked(Q) \subseteq Tracked(requests')
  BY <1>5 DEF Tracked
<1> QED
  BY <1>9, <1>10, <1>12, <1>13, <1>14 DEF LimitInv, Q

\* As time passes fewer requests are within the window.
LEMMA LimitTickStep ==
  ASSUME LimitBounds, LimitInv, LimitTick
  PROVE  LimitInv'
<1>0. /\ time' = time + 1 /\ UNCHANGED <<requests, passed, shortened>>
      /\ time \in Nat /\ time' \in 0..MaxTime /\ RateWindow \in Nat /\ RateMax \in Nat
      /\ \A u \in LimitUsers : \A n \in DOMAIN passed[u] : passed[u][n] \in Nat
  BY DEF LimitTick, LimitInv, LimitType, LimitBounds
<1>1. LimitType'
  BY <1>0 DEF LimitInv, LimitType
<1>2. InOrder(requests)'
  BY <1>0 DEF LimitInv, InOrder, LastPass
<1>3. \A u \in LimitUsers \ shortened' : Remembers(requests, u)'
  <2> SUFFICES ASSUME NEW u \in LimitUsers \ shortened PROVE Remembers(requests, u)'
    BY <1>0
  <2>1. Remembers(requests, u)
    BY DEF LimitInv
  <2> QED
    BY <1>0, <2>1 DEF Remembers
<1>4. RateHolds'
  <2> SUFFICES ASSUME NEW u \in LimitUsers \ shortened
               PROVE  Cardinality({n \in DOMAIN passed[u] : time' - passed[u][n] < RateWindow}) <= RateMax
    BY <1>0 DEF RateHolds
  <2> DEFINE S == {n \in DOMAIN passed[u] : time' - passed[u][n] < RateWindow}
  <2>1. S \in SUBSET InWindow(u)
    BY <1>0 DEF InWindow
  <2>2. Cardinality(S) <= Cardinality(InWindow(u)) /\ IsFiniteSet(S) /\ Cardinality(InWindow(u)) \in Nat
    BY <2>1, WithinFinite, FS_Subset
  <2>3. Cardinality(InWindow(u)) <= RateMax
    BY DEF LimitInv, RateHolds, InWindow
  <2>4. Cardinality(S) \in Nat
    BY <2>2, FS_CardinalityType
  <2> HIDE DEF S
  <2>5. Cardinality(S) <= RateMax
    BY <1>0, <2>2, <2>3, <2>4
  <2> QED
    BY <2>5 DEF S
<1> QED
  BY <1>1, <1>2, <1>3, <1>4 DEF LimitInv

\* Every step of the limiter keeps the invariant.
LEMMA RateLimitStep ==
  ASSUME LimitBounds, LimitInv, [RateLimitNext]_limitVars
  PROVE  LimitInv'
<1>1. CASE UNCHANGED limitVars
  BY <1>1 DEF limitVars, LimitInv, LimitType, InOrder, LastPass, Remembers, RateHolds
<1> QED
  BY <1>1, LetThroughStep, RefuseStep, LimitTickStep DEF RateLimitNext

\* Who is tracked no longer was let through before all others.
LEMMA QuietestStep ==
  ASSUME LimitBounds, LimitInv, [RateLimitNext]_limitVars,
         NEW u \in Tracked(requests) \ Tracked(requests'), NEW v \in Tracked(requests) \ {u}
  PROVE  LastPass(u) <= LastPass(v)
<1>1. CASE u \notin Tracked(Evicted) /\ Forget
  BY <1>1, Eviction
<1>2. ASSUME NEW w \in LimitUsers, LetThrough(w)
      PROVE  Forget /\ Tracked(Evicted) \subseteq Tracked(requests')
  <2> DEFINE R == Without(Evicted, w)
             e == <<w, EntryOf(Evicted, w) \union {ThisTime(w)}>>
  <2>1. Forget /\ requests' = Append(R, e)
    BY <1>2 DEF LetThrough, ToEnd
  <2>2. Evicted \in Seq(Entries) /\ OnePlace(Evicted)
    BY <2>1, Eviction
  <2>3. OthersOf(R, Evicted, w)
    BY <2>2, WithoutUser
  <2>4. e \in Entries /\ e[1] = w
    <3>1. EntryOf(Evicted, w) \in SUBSET Times
      BY <2>1, ListFound
    <3>2. ThisTime(w) \in Times
      BY DEF ThisTime, Times, LimitInv, LimitType
    <3> QED
      BY <3>1, <3>2 DEF Entries
  <2> HIDE DEF R, e
  <2>5. /\ DOMAIN requests' = 1..Len(R) + 1 /\ DOMAIN R = 1..Len(R) /\ Len(R) \in Nat
        /\ \A j \in 1..Len(R) : requests'[j] = R[j]
        /\ requests'[Len(R) + 1] = e
    BY <2>1, <2>3, <2>4, AppendProperties, LenProperties DEF OthersOf
  <2>6. ASSUME NEW m \in DOMAIN Evicted
        PROVE  \E j \in DOMAIN requests' : requests'[j][1] = Evicted[m][1]
    <3>1. CASE Evicted[m][1] = w
      <4>1. Len(R) + 1 \in DOMAIN requests' /\ requests'[Len(R) + 1][1] = w
        BY <2>4, <2>5
      <4> QED
        BY <3>1, <4>1
    <3>2. CASE Evicted[m][1] # w
      <4>1. PICK j \in DOMAIN R : R[j] = Evicted[m]
        BY <2>3, <3>2 DEF OthersOf
      <4>2. j \in DOMAIN requests' /\ requests'[j] = R[j]
        BY <2>5
      <4> QED
        BY <4>1, <4>2
    <3> QED
      BY <3>1, <3>2
  <2> QED
    BY <2>1, <2>6 DEF Tracked
<1>3. ASSUME NEW w \in LimitUsers, Refuse(w)
      PROVE  Forget /\ Tracked(Evicted) \subseteq Tracked(requests')
  BY <1>3, RefuseStep DEF Refuse
<1>4. ASSUME UNCHANGED requests
      PROVE  FALSE
  BY <1>4
<1> QED
  BY <1>1, <1>2, <1>3, <1>4 DEF RateLimitNext, LimitTick, limitVars

-----------------------------------------------------------------------------
\* The request log keeps its form: one place per user, of users let through only.
THEOREM RateLimitTypeCorrect == RateLimitSpec => []RateLimitTypeOK
<1>1. LimitBounds /\ RateLimitInit => LimitInv
  BY RateLimitStart
<1>2. LimitBounds /\ LimitInv /\ [RateLimitNext]_limitVars => LimitInv'
  BY RateLimitStep
<1>3. LimitInv => RateLimitTypeOK
  <2> SUFFICES ASSUME LimitInv PROVE RateLimitTypeOK
    OBVIOUS
  <2>1. ASSUME NEW i \in DOMAIN requests
        PROVE  requests[i][1] \in LimitUsers /\ Len(passed[requests[i][1]]) > 0
    <3>1. requests[i] \in Entries
      BY DEF LimitInv, LimitType
    <3> QED
      BY <3>1 DEF LimitInv, LimitType, Entries
  <2> QED
    BY <2>1 DEF RateLimitTypeOK, LimitInv, LimitType, OnePlace, Tracked
<1> QED
  BY <1>1, <1>2, <1>3, LimitBounds, PTL DEF RateLimitSpec

\* For any number of users and any limits: no user who was not forgotten in its window is
\* let through more often than max_requests within one, and the user who is forgotten
\* was let through before all others that are tracked, however often they are refused.
THEOREM FairLimitHolds == RateLimitSpec => FairLimit
<1>1. LimitBounds /\ RateLimitInit => LimitInv
  BY RateLimitStart
<1>2. LimitBounds /\ LimitInv /\ [RateLimitNext]_limitVars => LimitInv'
  BY RateLimitStep
<1>3. LimitInv => RateHolds
  BY DEF LimitInv
<1>4. LimitBounds /\ LimitInv /\ [RateLimitNext]_limitVars =>
        [\A u \in Tracked(requests) \ Tracked(requests') :
            \A v \in Tracked(requests) \ {u} :
                passed[u][Len(passed[u])] <= passed[v][Len(passed[v])]]_limitVars
  BY QuietestStep DEF LastPass
<1> QED
  BY <1>1, <1>2, <1>3, <1>4, LimitBounds, PTL DEF RateLimitSpec, FairLimit, ForgetsTheQuietest

-----------------------------------------------------------------------------
(***************************************************************************)
(* The daily limit of the language model.                                  *)
(***************************************************************************)
LlmPlaces == {"idle", "charge", "model", "again", "refused"}

\* What holds of the types: a thread that is not idle knows its user and a day that
\* has come.
LlmTyped ==
    /\ day \in 1..MaxDays
    /\ llmDay \in 0..day
    /\ llmCalls \in [LlmUsers -> Nat]
    /\ llmCall \in [LlmThreads ->
           [at : LlmPlaces, user : LlmUsers \union {"nobody"}, today : 0..MaxDays]]
    /\ charged \in [LlmUsers -> [1..MaxDays -> Nat]]
    /\ late \in BOOLEAN
    /\ \A t \in LlmThreads : llmCall[t].at # "idle" =>
           llmCall[t].user \in LlmUsers /\ llmCall[t].today \in 1..day

\* The counters never say more than was charged on their day; a reset loses charges
\* and invents none.
CountersCovered ==
    llmDay # 0 => \A u \in LlmUsers : llmCalls[u] <= charged[u][llmDay]

\* As long as no charge came late the counters are the charges of their day, and the
\* days after it have none.
CountersExact ==
    ~late => \A u \in LlmUsers, d \in 1..MaxDays :
        /\ charged[u][d] <= LlmMax
        /\ d = llmDay => charged[u][d] = llmCalls[u]
        /\ d > llmDay => charged[u][d] = 0

\* The inductive invariant.
LlmInv == LlmTyped /\ CountersCovered /\ CountersExact /\ RefusedWhenSpent

-----------------------------------------------------------------------------
LEMMA LlmBudgetStart == LlmBudgetInit => LlmInv
<1> SUFFICES ASSUME LlmBudgetInit
             PROVE  LlmInv
  OBVIOUS
<1>1. \A t \in LlmThreads : /\ llmCall[t].at = "idle" /\ llmCall[t].user = "nobody"
                            /\ llmCall[t].today = 0
  BY DEF LlmBudgetInit, NoLlmCall
<1>2. llmCall \in [LlmThreads ->
          [at : LlmPlaces, user : LlmUsers \union {"nobody"}, today : 0..MaxDays]]
  BY LlmBounds DEF LlmBudgetInit, NoLlmCall, LlmPlaces
<1>3. LlmTyped
  <2>1. day \in 1..MaxDays /\ llmDay \in 0..day /\ llmCalls \in [LlmUsers -> Nat]
    BY LlmBounds DEF LlmBudgetInit
  <2>2. charged \in [LlmUsers -> [1..MaxDays -> Nat]]
    BY DEF LlmBudgetInit
  <2>3. late \in BOOLEAN
    BY DEF LlmBudgetInit
  <2> QED
    BY <1>1, <1>2, <2>1, <2>2, <2>3 DEF LlmTyped
<1>4. CountersCovered /\ CountersExact
  BY LlmBounds DEF LlmBudgetInit, CountersCovered, CountersExact
<1>5. RefusedWhenSpent
  BY <1>1 DEF RefusedWhenSpent
<1> QED
  BY <1>3, <1>4, <1>5 DEF LlmInv

\* The counters of the day a thread read: none above what was charged on that day, and
\* without a late charge exactly that.
LEMMA CountersOfTheDay ==
    ASSUME LlmInv, NEW n \in 1..day
    PROVE  /\ CallsOn(n) \in [LlmUsers -> Nat]
           /\ \A u \in LlmUsers : CallsOn(n)[u] <= charged[u][n]
           /\ ~late /\ n = day => \A u \in LlmUsers : CallsOn(n)[u] = charged[u][n]
<1> USE LlmBounds DEF LlmInv, LlmTyped
<1>1. CASE llmDay = n
  BY <1>1 DEF CallsOn, CountersCovered, CountersExact
<1>2. CASE llmDay # n
  BY <1>2 DEF CallsOn, CountersExact
<1> QED
  BY <1>1, <1>2

\* A step of a thread that charges nothing, and midnight.
LEMMA LlmQuietStep ==
    ASSUME LlmInv, UNCHANGED <<llmDay, llmCalls, charged, late>>,
           Midnight \/ \E t \in LlmThreads : \/ RefuseParameter(t) \/ LlmReturn(t)
                                             \/ \E u \in LlmUsers : AskModel(t, u)
    PROVE  LlmInv'
<1> USE LlmBounds DEF LlmInv, LlmTyped, LlmPlaces
<1>1. (CountersCovered /\ CountersExact)'
  BY DEF CountersCovered, CountersExact
<1>2. CASE Midnight
  BY <1>1, <1>2 DEF Midnight, RefusedWhenSpent
<1>3. ASSUME NEW t \in LlmThreads, RefuseParameter(t)
      PROVE  LlmTyped' /\ RefusedWhenSpent'
  BY <1>3 DEF RefuseParameter, RefusedWhenSpent
<1>4. ASSUME NEW t \in LlmThreads, LlmReturn(t)
      PROVE  LlmTyped' /\ RefusedWhenSpent'
  BY <1>4 DEF LlmReturn, NoLlmCall, RefusedWhenSpent
<1>5. ASSUME NEW t \in LlmThreads, NEW u \in LlmUsers, AskModel(t, u)
      PROVE  LlmTyped' /\ RefusedWhenSpent'
  <2> DEFINE to == [at |-> "charge", user |-> u, today |-> day]
  <2>1. /\ llmCall' = [llmCall EXCEPT ![t] = to]
        /\ UNCHANGED <<day, llmDay, llmCalls, charged, late>>
    BY <1>5 DEF AskModel
  <2>2. /\ to \in [at : LlmPlaces, user : LlmUsers \union {"nobody"}, today : 0..MaxDays]
        /\ to.at = "charge" /\ to.user \in LlmUsers /\ to.today \in 1..day
    OBVIOUS
  <2> HIDE DEF to
  <2>3. \A s \in LlmThreads : llmCall'[s] = IF s = t THEN to ELSE llmCall[s]
    BY <2>1
  <2>4. LlmTyped'
    BY <2>1, <2>2, <2>3
  <2>5. RefusedWhenSpent'
    BY <2>1, <2>2, <2>3 DEF RefusedWhenSpent
  <2> QED
    BY <2>4, <2>5
<1> QED
  BY <1>1, <1>2, <1>3, <1>4, <1>5

\* A thread that moves to another place keeps its user and its day.
LEMMA LlmCallMoves ==
    ASSUME LlmTyped, NEW t \in LlmThreads, NEW p \in LlmPlaces,
           llmCall' = [llmCall EXCEPT ![t].at = p]
    PROVE  /\ llmCall' \in [LlmThreads ->
                  [at : LlmPlaces, user : LlmUsers \union {"nobody"}, today : 0..MaxDays]]
           /\ \A s \in LlmThreads :
                  /\ llmCall'[s].at = IF s = t THEN p ELSE llmCall[s].at
                  /\ llmCall'[s].user = llmCall[s].user
                  /\ llmCall'[s].today = llmCall[s].today
  BY DEF LlmTyped

\* It stays within the types when the counters do.
LEMMA LlmTypedMoves ==
    ASSUME LlmTyped, NEW t \in LlmThreads, NEW p \in LlmPlaces \ {"idle"},
           llmCall[t].at # "idle", llmCall' = [llmCall EXCEPT ![t].at = p],
           day' = day, llmDay' \in 0..day, llmCalls' \in [LlmUsers -> Nat],
           charged' \in [LlmUsers -> [1..MaxDays -> Nat]], late' \in BOOLEAN
    PROVE  LlmTyped'
<1>1. llmCall' \in [LlmThreads ->
          [at : LlmPlaces, user : LlmUsers \union {"nobody"}, today : 0..MaxDays]]
  BY LlmCallMoves
<1>2. \A s \in LlmThreads : llmCall'[s].at # "idle" =>
          llmCall'[s].user \in LlmUsers /\ llmCall'[s].today \in 1..day'
  BY LlmCallMoves DEF LlmTyped
<1>3. day' \in 1..MaxDays
  BY DEF LlmTyped
<1> QED
  BY <1>1, <1>2, <1>3 DEF LlmTyped

\* One more call on one day.
LEMMA ChargedOneMore ==
    ASSUME NEW c \in [LlmUsers -> [1..MaxDays -> Nat]], NEW u \in LlmUsers,
           NEW n \in 1..MaxDays
    PROVE  [c EXCEPT ![u][n] = @ + 1] \in [LlmUsers -> [1..MaxDays -> Nat]]
<1>1. ASSUME NEW f \in [1..MaxDays -> Nat]
      PROVE  [f EXCEPT ![n] = @ + 1] \in [1..MaxDays -> Nat]
  OBVIOUS
<1>2. c[u] \in [1..MaxDays -> Nat]
  OBVIOUS
<1>3. [c[u] EXCEPT ![n] = @ + 1] \in [1..MaxDays -> Nat]
  BY <1>1, <1>2
<1> QED
  BY <1>3

\* The critical section of _charge_llm_budget.
LEMMA ChargeStep ==
    ASSUME LlmInv, NEW t \in LlmThreads, Charge(t)
    PROVE  LlmInv'
<1> DEFINE u == llmCall[t].user
           n == llmCall[t].today
           calls == CallsOn(n)
<1>1. u \in LlmUsers /\ n \in 1..day /\ n \in 1..MaxDays /\ day \in 1..MaxDays
  BY LlmBounds DEF Charge, LlmInv, LlmTyped
<1>2. /\ calls \in [LlmUsers -> Nat]
      /\ \A v \in LlmUsers : calls[v] <= charged[v][n]
      /\ ~late /\ n = day => \A v \in LlmUsers : calls[v] = charged[v][n]
  BY <1>1, CountersOfTheDay
<1>3. llmDay' = n /\ day' = day
  BY DEF Charge
<1>4. llmCall[t].at # "idle"
  BY DEF Charge
<1>5. day' = day /\ llmDay' \in 0..day
  BY <1>1, <1>3
<1>6. late' \in BOOLEAN
  BY DEF Charge
<1>7. ~late' => ~late /\ ~(n < day)
  BY DEF Charge
<1>8. ~late' => ~late /\ n = day
  BY <1>1, <1>7, LlmBounds
<1>9. CASE Spent(calls[u])
  <2>1. /\ llmCalls' = calls /\ charged' = charged
        /\ llmCall' = [llmCall EXCEPT ![t].at = "refused"]
    BY <1>9 DEF Charge
  <2>2. LlmTyped'
    <3>1. charged' \in [LlmUsers -> [1..MaxDays -> Nat]] /\ llmCalls' \in [LlmUsers -> Nat]
      BY <1>2, <2>1 DEF LlmInv, LlmTyped
    <3> QED
      BY <1>6, <1>4, <1>5, <2>1, <3>1, LlmTypedMoves DEF LlmInv, LlmPlaces
  <2>3. CountersCovered'
    BY <1>1, <1>2, <1>3, <2>1 DEF CountersCovered
  <2>4. CountersExact'
    <3> SUFFICES ASSUME ~late', NEW v \in LlmUsers, NEW d \in 1..MaxDays
                 PROVE  /\ charged[v][d] <= LlmMax
                        /\ d = n => charged[v][d] = calls[v]
                        /\ d > n => charged[v][d] = 0
      BY <1>3, <2>1 DEF CountersExact
    <3>1. charged[v][d] <= LlmMax /\ (d > llmDay => charged[v][d] = 0) /\ llmDay \in 0..n
      BY <1>8 DEF LlmInv, LlmTyped, CountersExact
    <3> QED
      BY <1>1, <1>2, <1>8, <3>1
  <2>5. RefusedWhenSpent'
    <3>1. charged[u][n] >= LlmMax
      BY <1>1, <1>2, <1>9, LlmBounds DEF Spent, LlmInv, LlmTyped
    <3> QED
      BY <2>1, <3>1, LlmCallMoves DEF LlmInv, RefusedWhenSpent, LlmPlaces
  <2> QED
    BY <2>2, <2>3, <2>4, <2>5 DEF LlmInv
<1>10. CASE ~Spent(calls[u])
  <2>1. /\ llmCalls' = [calls EXCEPT ![u] = @ + 1]
        /\ charged' = [charged EXCEPT ![u][n] = @ + 1]
        /\ llmCall' = [llmCall EXCEPT ![t].at = "model"]
    BY <1>10 DEF Charge
  <2>2. calls[u] < LlmMax
    BY <1>1, <1>2, <1>10, LlmBounds DEF Spent
  <2>3. \A v \in LlmUsers, d \in 1..MaxDays :
          /\ charged[v][d] \in Nat
          /\ charged'[v][d] = IF v = u /\ d = n THEN charged[v][d] + 1 ELSE charged[v][d]
    BY <1>1, <2>1 DEF LlmInv, LlmTyped
  <2>4. LlmTyped'
    <3>1. charged' \in [LlmUsers -> [1..MaxDays -> Nat]]
      BY <1>1, <2>1, ChargedOneMore DEF LlmInv, LlmTyped
    <3>2. llmCalls' \in [LlmUsers -> Nat]
      BY <1>1, <1>2, <2>1
    <3> QED
      BY <1>6, <1>4, <1>5, <2>1, <3>1, <3>2, LlmTypedMoves DEF LlmInv, LlmPlaces
  <2>5. CountersCovered'
    BY <1>1, <1>2, <1>3, <2>1, <2>3 DEF CountersCovered
  <2>6. CountersExact'
    <3> SUFFICES ASSUME ~late', NEW v \in LlmUsers, NEW d \in 1..MaxDays
                 PROVE  /\ charged'[v][d] <= LlmMax
                        /\ d = n => charged'[v][d] = llmCalls'[v]
                        /\ d > n => charged'[v][d] = 0
      BY <1>3 DEF CountersExact
    <3>1. ~late /\ n = day
      BY <1>8
    <3>2. charged[v][d] <= LlmMax /\ (d > llmDay => charged[v][d] = 0) /\ llmDay \in 0..n
      BY <3>1 DEF LlmInv, LlmTyped, CountersExact
    <3>3. charged[v][n] = calls[v] /\ calls[v] \in Nat
      BY <1>2, <3>1
    <3>4. llmCalls'[v] = IF v = u THEN calls[v] + 1 ELSE calls[v]
      BY <1>2, <2>1
    <3> QED
      BY <1>1, <2>2, <2>3, <3>2, <3>3, <3>4, LlmBounds
  <2>7. RefusedWhenSpent'
    <3> SUFFICES ASSUME NEW s \in LlmThreads, llmCall'[s].at = "refused"
                 PROVE  charged'[llmCall'[s].user][llmCall'[s].today] >= LlmMax
      BY DEF RefusedWhenSpent
    <3>1. /\ llmCall[s].at = "refused" /\ llmCall'[s].user = llmCall[s].user
          /\ llmCall'[s].today = llmCall[s].today
      BY <2>1, LlmCallMoves DEF LlmInv, LlmPlaces
    <3>2. /\ llmCall[s].user \in LlmUsers /\ llmCall[s].today \in 1..MaxDays
          /\ charged[llmCall[s].user][llmCall[s].today] >= LlmMax
      BY <1>1, <3>1 DEF LlmInv, LlmTyped, RefusedWhenSpent
    <3> QED
      BY <2>3, <3>1, <3>2, LlmBounds
  <2> QED
    BY <2>4, <2>5, <2>6, <2>7 DEF LlmInv
<1> QED
  BY <1>9, <1>10

LEMMA LlmBudgetStep == LlmInv /\ [LlmBudgetNext]_llmVars => LlmInv'
<1> SUFFICES ASSUME LlmInv, [LlmBudgetNext]_llmVars
             PROVE  LlmInv'
  OBVIOUS
<1>1. CASE UNCHANGED llmVars
  BY <1>1 DEF llmVars, LlmInv, LlmTyped, CountersCovered, CountersExact, RefusedWhenSpent
<1>2. CASE Midnight
  BY <1>2, LlmQuietStep DEF Midnight
<1>3. ASSUME NEW t \in LlmThreads, Charge(t)
      PROVE  LlmInv'
  BY <1>3, ChargeStep
<1>4. ASSUME NEW t \in LlmThreads,
             RefuseParameter(t) \/ LlmReturn(t) \/ \E u \in LlmUsers : AskModel(t, u)
      PROVE  LlmInv'
  <2>1. UNCHANGED <<llmDay, llmCalls, charged, late>>
    BY <1>4 DEF RefuseParameter, LlmReturn, AskModel
  <2> QED
    BY <1>4, <2>1, LlmQuietStep
<1> QED
  BY <1>1, <1>2, <1>3, <1>4 DEF LlmBudgetNext

\* _charge_llm_budget counts exactly, whichever threads of whichever users call and
\* however many days pass: nobody is let through beyond the limit unless a charge came
\* with the date of a day that was over, and nobody is refused who was not charged the
\* limit on that day.
THEOREM LimitIsExact == LlmBudgetSpec => []DailyLimitExact
<1>1. LlmInv => DailyLimitExact
  BY DEF LlmInv, DailyLimitExact, LlmLimitHolds, CountersExact
<1> QED
  BY LlmBudgetStart, LlmBudgetStep, <1>1, PTL DEF LlmBudgetSpec

\* The types: a thread knows a day that has come, and an idle one none.
THEOREM LlmTypeCorrect == LlmBudgetSpec => []LlmBudgetTypeOK
<1> DEFINE DayKnown == \A t \in LlmThreads : llmCall[t].today \in 0..day
<1>1. LlmInv /\ DayKnown => LlmBudgetTypeOK
  BY DEF LlmInv, LlmTyped, LlmBudgetTypeOK
<1>2. LlmBudgetInit => DayKnown
  BY LlmBounds DEF LlmBudgetInit, NoLlmCall
<1>3. ASSUME LlmInv, DayKnown, [LlmBudgetNext]_llmVars PROVE DayKnown'
  <2>1. day \in Nat /\ 0 \in 0..day /\ day \in 0..day /\ DOMAIN llmCall = LlmThreads
    BY <1>3, LlmBounds DEF LlmInv, LlmTyped
  <2>2. CASE UNCHANGED llmVars
    BY <1>3, <2>2 DEF llmVars
  <2>3. CASE Midnight
    BY <1>3, <2>1, <2>3 DEF Midnight
  <2>4. ASSUME NEW t \in LlmThreads, NEW u \in LlmUsers, AskModel(t, u) PROVE DayKnown'
    BY <1>3, <2>1, <2>4 DEF AskModel
  <2>5. ASSUME NEW t \in LlmThreads, LlmReturn(t) PROVE DayKnown'
    BY <1>3, <2>1, <2>5 DEF LlmReturn, NoLlmCall
  <2>6. ASSUME NEW t \in LlmThreads, Charge(t) \/ RefuseParameter(t) PROVE DayKnown'
    <3>1. day' = day /\ \E p \in LlmPlaces : llmCall' = [llmCall EXCEPT ![t].at = p]
      BY <2>6 DEF Charge, RefuseParameter, LlmPlaces
    <3> QED BY <1>3, <3>1, LlmCallMoves DEF LlmInv
  <2> QED BY <1>3, <2>2, <2>3, <2>4, <2>5, <2>6 DEF LlmBudgetNext
<1> HIDE DEF DayKnown
<1> QED BY LlmBudgetStart, LlmBudgetStep, <1>1, <1>2, <1>3, PTL DEF LlmBudgetSpec

=============================================================================
