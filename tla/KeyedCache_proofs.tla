-------------------------- MODULE KeyedCache_proofs --------------------------
(***************************************************************************)
(* What the keyed locks of lineage_service.py guarantee, for any threads,     *)
(* keys and registry size.  The inductive invariant says where locks are:     *)
(* a call past "waiting" owns the lock object it was handed (LocksOwned), that  *)
(* object is still the registry's for its key unless the key is in lost        *)
(* (LocksCurrent), no object serves two keys (LocksApart), and a call that      *)
(* waits for its nested call has one (NestedCalls).  For invalidate_cache()    *)
(* it says that what a call has in hand was read after its barrier, and for the *)
(* order of answers that what is cached, in hand or on its way under one lock   *)
(* is at least as new as what anyone was given (the parts on flushes and ages). *)
(* transform_service.py's copy of the cache, wipes included, implements it and  *)
(* has all of this; a wipe of the stored lineage is one more barrier.           *)
(***************************************************************************)
EXTENDS TransformCache, FiniteSetTheorems, TLAPS

Holding == {"checking", "fetching", "nested", "storing", "releasing"}
Handed(f) == pc[f] = "waiting" \/ pc[f] \in Holding

CallsHaveKeys ==
    \A f \in Frames :
        /\ key[f] # None <=> pc[f] # "idle"
        /\ columns[f] # None => pc[f] \in {"fetching", "storing"} /\ Side[key[f]] # None
        /\ pc[f] \in {"row", "loading"} => key[f] \in Tier /\ ~ live[f]

LocksOwned ==
    /\ \A f \in Frames : lock[f] # None <=> Handed(f)
    /\ \A f \in Frames : pc[f] \in Holding => owner[lock[f]] = f
    /\ \A l \in Locks : owner[l] # None => lock[owner[l]] = l /\ pc[owner[l]] \in Holding

LocksCurrent ==
    \A f \in Frames : Handed(f) /\ key[f] \notin lost => lockOf[key[f]] = lock[f]

LocksApart ==
    /\ \A j, k \in Keys : lockOf[j] # None /\ lockOf[j] = lockOf[k] => j = k
    /\ \A f \in Frames, k \in Keys : Handed(f) /\ lockOf[k] = lock[f] => key[f] = k
    /\ \A f, g \in Frames : Handed(f) /\ Handed(g) /\ lock[f] = lock[g] => key[f] = key[g]

NestedCalls ==
    \A f \in Frames : pc[f] = "nested" =>
        /\ f \in Requests
        /\ key[Nested[f]] = Needs[key[f]] /\ pc[Nested[f]] # "idle"

LocksInv == LocksOwned /\ LocksCurrent /\ LocksApart

IInv == VarsOK /\ CallsHaveKeys /\ NestedCalls /\ LocksInv

-----------------------------------------------------------------------------
\* A frame's key, when it has one; and a request's nested frame is nobody's request.
LEMMA FrameFacts ==
    ASSUME NEW f \in Requests
    PROVE  f \in Frames /\ Nested[f] \in Frames /\ Nested[f] # f /\ Nested[f] \notin Requests
BY CacheAssumption DEF Frames

\* A call under way has a key, and columns in hand have theirs.
LEMMA CallKeys ==
    ASSUME VarsOK, CallsHaveKeys, NEW f \in Frames
    PROVE  /\ pc[f] # "idle" => key[f] \in Keys
           /\ columns[f] # None => key[f] \in Keys /\ Side[key[f]] \in Keys
<1>1. key[f] \in Keys \union {None} /\ Side \in [Keys -> Keys \union {None}]
  BY CacheAssumption DEF VarsOK
<1>2. pc[f] # "idle" => key[f] \in Keys
  BY <1>1 DEF CallsHaveKeys
<1>3. columns[f] # None => pc[f] # "idle" /\ Side[key[f]] # None
  BY DEF CallsHaveKeys
<1> QED BY <1>1, <1>2, <1>3

\* The eviction loop of _get_keyed_lock pops at most what is there.
LEMMA PoppedType ==
    ASSUME NEW s \in Seq(Keys), NEW locks
    PROVE  Popped(s, locks) \in 0..Len(s)
<1> DEFINE gone == {i \in 1..(Len(s) - LocksMax) : \A j \in 1..i : owner[locks[s[j]]] = None}
<1>1. IsFiniteSet(1..Len(s)) /\ Cardinality(1..Len(s)) = Len(s)
  <2>1. Len(s) \in Nat
    OBVIOUS
  <2>2. IsFiniteSet(1..Len(s))
    BY <2>1, FS_Interval
  <2>3. Cardinality(1..Len(s)) = IF 1 > Len(s) THEN 0 ELSE Len(s) - 1 + 1
    BY <2>1, FS_Interval
  <2> QED BY <2>1, <2>2, <2>3
<1>2. gone \in SUBSET (1..Len(s))
  BY CacheAssumption
<1>3. IsFiniteSet(gone) /\ Cardinality(gone) <= Cardinality(1..Len(s))
  BY <1>1, <1>2, FS_Subset
<1>4. Cardinality(gone) \in Nat
  BY <1>3, FS_CardinalityType
<1> QED BY <1>1, <1>3, <1>4 DEF Popped

\* Moving a key to the new end keeps the registry's order a sequence of keys.
LEMMA TouchedType ==
    ASSUME order \in Seq(Keys), NEW k \in Keys
    PROVE  Touched(k) \in Seq(Keys)
<1>1. CASE \E i \in 1..Len(order) : order[i] = k
  <2> DEFINE p == CHOOSE i \in 1..Len(order) : order[i] = k
  <2>1. p \in 1..Len(order)
    BY <1>1
  <2> HIDE DEF p
  <2>2. SubSeq(order, 1, p - 1) \in Seq(Keys)
    BY <2>1
  <2>3. SubSeq(order, p + 1, Len(order)) \in Seq(Keys)
    BY <2>1
  <2>4. SubSeq(order, 1, p - 1) \o SubSeq(order, p + 1, Len(order)) \o <<k>> \in Seq(Keys)
    BY <2>2, <2>3
  <2> QED BY <1>1, <2>4 DEF Touched, p
<1>2. CASE ~ \E i \in 1..Len(order) : order[i] = k
  BY <1>2 DEF Touched
<1> QED BY <1>1, <1>2

\* The lock a call is handed is the registry's, or one nobody uses.
LEMMA HandedLock ==
    ASSUME VarsOK, CallsHaveKeys, NEW f \in Frames, GetLock(f)
    PROVE  /\ key[f] \in Keys
           /\ lockOf[key[f]] = None => Fresh \in Locks /\ Fresh \notin InUse
           /\ (IF lockOf[key[f]] = None THEN Fresh ELSE lockOf[key[f]]) \in Locks
<1>1. key[f] \in Keys
  BY DEF GetLock, Goto, CallsHaveKeys, VarsOK
<1>2. ASSUME lockOf[key[f]] = None PROVE Fresh \in Locks /\ Fresh \notin InUse
  <2>1. Locks \ InUse # {}
    BY <1>2 DEF GetLock
  <2> QED BY <2>1 DEF Fresh
<1>3. lockOf[key[f]] # None => lockOf[key[f]] \in Locks
  BY <1>1 DEF VarsOK
<1> QED BY <1>1, <1>2, <1>3

\* The registry's order stays a sequence of keys.
LEMMA OrderType ==
    ASSUME VarsOK, CallsHaveKeys, NEW f \in Frames, GetLock(f)
    PROVE  order' \in Seq(Keys)
<1> DEFINE k == key[f]
           l == IF lockOf[k] = None THEN Fresh ELSE lockOf[k]
           locks == [lockOf EXCEPT ![k] = l]
           s == Touched(k)
           n == Popped(s, locks)
           rest == SubSeq(s, n + 1, Len(s))
<1>1. s \in Seq(Keys)
  BY HandedLock, TouchedType DEF VarsOK
<1>2. n \in 0..Len(s)
  BY <1>1, PoppedType
<1>3. order' = IF Len(rest) > LocksMax THEN Rotated(rest) ELSE rest
  BY DEF GetLock
<1> HIDE DEF s, n
<1>4. rest \in Seq(Keys)
  BY <1>1, <1>2
<1> HIDE DEF rest
<1>5. Len(rest) > LocksMax => Rotated(rest) \in Seq(Keys)
  <2> SUFFICES ASSUME Len(rest) > LocksMax PROVE Rotated(rest) \in Seq(Keys)
    OBVIOUS
  <2>1. Len(rest) > 0
    BY <1>4, CacheAssumption
  <2>2. Head(rest) \in Keys /\ Tail(rest) \in Seq(Keys)
    BY <1>4, <2>1
  <2> QED BY <2>2 DEF Rotated
<1> QED BY <1>3, <1>4, <1>5

-----------------------------------------------------------------------------
\* Every action keeps every variable in its type.
LEMMA TypeStep ==
    ASSUME VarsOK, CallsHaveKeys, NestedCalls, [Next]_vars
    PROVE  VarsOK'
<1> USE CacheAssumption DEF VarsOK, Times, Locations, registry, flushVars, callVars, sideVars
<1>1. ASSUME NEW f \in Requests, NEW k \in Keys, NEW lv \in BOOLEAN, Ask(f, k, lv)
      PROVE  VarsOK'
  <2>1. f \in Frames
    BY FrameFacts
  <2>2. /\ key' \in [Frames -> Keys \union {None}] /\ live' \in [Frames -> BOOLEAN]
        /\ floor' \in [Frames -> Times] /\ fresh' \in [Frames -> BOOLEAN]
    BY <1>1, <2>1 DEF Ask, Called
  <2>3. \/ pc' = [pc EXCEPT ![f] = "returned"]
        \/ pc' = [pc EXCEPT ![f] = "locking"]
    BY <1>1 DEF Ask, Goto
  <2>4. result' \in [Frames -> Times \union {None}]
    BY <1>1, <2>1 DEF Ask
  <2>5. pc' \in [Frames -> Locations]
    BY <2>1, <2>3
  <2> QED BY <1>1, <2>2, <2>4, <2>5 DEF Ask
<1>2. ASSUME NEW f \in Frames, GetLock(f) PROVE VarsOK'
  <2>1. order' \in Seq(Keys)
    BY <1>2, OrderType
  <2>2. lock' \in [Frames -> Locks \union {None}]
    BY <1>2, HandedLock DEF GetLock
  <2>3. lockOf' \in [Keys -> Locks \union {None}]
    BY <1>2, HandedLock DEF GetLock
  <2>4. lost' \in SUBSET Keys
    BY <1>2 DEF GetLock
  <2>5. pc' \in [Frames -> Locations]
    BY <1>2 DEF GetLock, Goto
  <2> QED BY <1>2, <2>1, <2>2, <2>3, <2>4, <2>5 DEF GetLock
<1>3. ASSUME NEW f \in Frames, Acquire(f) PROVE VarsOK'
  BY <1>3 DEF Acquire, Goto
<1>4. ASSUME NEW f \in Frames, Recheck(f) PROVE VarsOK'
  <2>1. key[f] \in Keys
    BY <1>4 DEF Recheck, Goto, CallsHaveKeys
  <2>2. CASE pc' = [pc EXCEPT ![f] = "releasing"] /\ result' = [result EXCEPT ![f] = cache[key[f]]]
    BY <1>4, <2>1, <2>2 DEF Recheck
  <2>3. CASE pc' = [pc EXCEPT ![f] = "fetching"] /\ result' = result
    BY <1>4, <2>3 DEF Recheck
  <2> QED BY <1>4, <2>2, <2>3 DEF Recheck, Goto
<1>5. ASSUME NEW f \in Frames, ReadColumns(f) PROVE VarsOK'
  BY <1>5 DEF ReadColumns
<1>6. ASSUME NEW f \in Frames, StoreColumns(f) PROVE VarsOK'
  <2>1. key[f] \in Keys /\ Side[key[f]] \in Keys
    BY <1>6, CallKeys DEF StoreColumns
  <2> QED BY <1>6, <2>1 DEF StoreColumns
<1>7. ASSUME NEW f \in Frames, Read(f) PROVE VarsOK'
  BY <1>7 DEF Read, Goto
<1>8. ASSUME NEW f \in Frames, Nest(f) PROVE VarsOK'
  <2> DEFINE g == Nested[f]
             k == Needs[key[f]]
  <2>1. f \in Requests /\ g \in Frames /\ g # f
    BY <1>8, FrameFacts DEF Nest
  <2>2. k \in Keys
    BY <1>8, <2>1 DEF Nest, CallsHaveKeys
  <2>3. /\ key' \in [Frames -> Keys \union {None}] /\ live' \in [Frames -> BOOLEAN]
        /\ floor' \in [Frames -> Times] /\ fresh' \in [Frames -> BOOLEAN]
    BY <1>8, <2>1, <2>2 DEF Nest, Called
  <2>4. result' \in [Frames -> Times \union {None}]
    BY <1>8, <2>1, <2>2 DEF Nest
  <2>5. pc' \in [Frames -> Locations]
    BY <1>8, <2>1 DEF Nest
  <2> QED BY <1>8, <2>3, <2>4, <2>5 DEF Nest
<1>9. ASSUME NEW f \in Frames, Collect(f) PROVE VarsOK'
  <2> DEFINE g == Nested[f]
  <2>1. f \in Requests /\ g \in Frames
    BY <1>9, FrameFacts DEF Collect, NestedCalls
  <2>2. key[g] \in Keys
    BY <1>9, <2>1 DEF Collect, CallsHaveKeys
  <2>3. Newer(seen[key[g]], result[g]) \in Times
    BY <2>1, <2>2 DEF Newer
  <2>4. seen' \in [Keys -> Times]
    BY <1>9, <2>2, <2>3 DEF Collect, Delivered
  <2>5. pc' \in [Frames -> Locations] /\ result' \in [Frames -> Times \union {None}]
    BY <1>9, <2>1 DEF Collect
  <2>6. /\ key' \in [Frames -> Keys \union {None}] /\ live' \in [Frames -> BOOLEAN]
        /\ floor' \in [Frames -> Times] /\ fresh' \in [Frames -> BOOLEAN]
    BY <1>9, <2>1 DEF Collect, Forget
  <2> QED BY <1>9, <2>4, <2>5, <2>6 DEF Collect
<1>10. ASSUME NEW f \in Frames, Store(f) PROVE VarsOK'
  BY <1>10 DEF Store, Goto
<1>11. ASSUME NEW f \in Frames, Release(f) PROVE VarsOK'
  BY <1>11 DEF Release, Goto
<1>12. ASSUME NEW f \in Frames, Finish(f) PROVE VarsOK'
  BY <1>12 DEF Finish, Goto, Forget, Delivered, Newer, CallsHaveKeys
<1>13. ASSUME NEW k \in Keys, Drop(k) PROVE VarsOK'
  BY <1>13 DEF Drop
<1>14. CASE Flush
  <2>1. \A f \in Frames : pc[f] # "idle" => key[f] \in Keys
    BY CallKeys
  <2>2. \A f \in Frames : columns[f] # None => Side[key[f]] \in Keys
    BY CallKeys
  <2>3. {key[f] : f \in {g \in Frames : pc[g] = "storing"}} \in SUBSET Keys
    BY <2>1
  <2>4. {Side[key[f]] : f \in {g \in Frames : columns[g] # None}} \in SUBSET Keys
    BY <2>2
  <2>5. {key[f] : f \in {g \in Requests : pc[g] = "nested"
             /\ pc[Nested[g]] \in {"storing", "releasing", "returned"}}} \in SUBSET Keys
    BY <2>1, FrameFacts
  <2>6. InHand \in SUBSET Keys
    BY <2>3, <2>4, <2>5 DEF InHand
  <2> QED BY <1>14, <2>6 DEF Flush
<1>15. CASE Tick
  BY <1>15 DEF Tick
<1>16. CASE UNCHANGED vars
  BY <1>16 DEF vars
<1>17. ASSUME NEW f \in Requests, NEW k \in Keys, AskTier(f, k) PROVE VarsOK'
  <2>1. f \in Frames
    BY FrameFacts
  <2>2. /\ key' \in [Frames -> Keys \union {None}] /\ live' \in [Frames -> BOOLEAN]
        /\ floor' \in [Frames -> Times] /\ fresh' \in [Frames -> BOOLEAN]
    <3>1. floor' = [floor EXCEPT ![f] = seen[k]] /\ seen[k] \in Times
      BY <1>17 DEF AskTier, Called
    <3>2. /\ key' = [key EXCEPT ![f] = k] /\ live' = [live EXCEPT ![f] = FALSE]
          /\ fresh' = [fresh EXCEPT ![f] = TRUE]
      BY <1>17 DEF AskTier, Called
    <3>3. floor' \in [Frames -> Times]
      BY <2>1, <3>1
    <3>4. fresh' \in [Frames -> BOOLEAN] /\ live' \in [Frames -> BOOLEAN]
      BY <2>1, <3>2
    <3>5. key' \in [Frames -> Keys \union {None}]
      BY <2>1, <3>2
    <3> QED BY <3>3, <3>4, <3>5
  <2>3. pc' = [pc EXCEPT ![f] = "returned"] \/ pc' = [pc EXCEPT ![f] = "row"]
    BY <1>17 DEF AskTier, Goto
  <2>4. result' \in [Frames -> Times \union {None}]
    <3>1. result' = [result EXCEPT ![f] = cache[k]] \/ result' = result
      BY <1>17 DEF AskTier
    <3>2. cache[k] \in Times \union {None}
      OBVIOUS
    <3> QED BY <2>1, <3>1, <3>2
  <2>5. pc' \in [Frames -> Locations]
    BY <2>1, <2>3
  <2> QED BY <1>17, <2>2, <2>4, <2>5 DEF AskTier
<1>18. ASSUME NEW f \in Frames, ReadRow(f) PROVE VarsOK'
  <2>1. PICK v \in 0..now : result' = [result EXCEPT ![f] = v]
    BY <1>18 DEF ReadRow
  <2>2. v \in Times
    BY <2>1
  <2> QED BY <1>18, <2>1, <2>2 DEF ReadRow, Goto
<1>19. ASSUME NEW f \in Frames, MissRow(f) PROVE VarsOK'
  <2>1. key[f] \in Keys
    BY <1>19 DEF MissRow, Goto, CallsHaveKeys
  <2>2. CASE pc' = [pc EXCEPT ![f] = "returned"] /\ result' = [result EXCEPT ![f] = cache[key[f]]]
    BY <1>19, <2>1, <2>2 DEF MissRow
  <2>3. CASE pc' = [pc EXCEPT ![f] = "locking"] /\ result' = result
    BY <1>19, <2>3 DEF MissRow
  <2> QED BY <1>19, <2>2, <2>3 DEF MissRow, Goto
<1>20. ASSUME NEW f \in Frames, LoadRow(f) PROVE VarsOK'
  <2>1. key[f] \in Keys
    BY <1>20 DEF LoadRow, Goto, CallsHaveKeys
  <2>2. straddled' \in SUBSET Keys
    BY <1>20, <2>1 DEF LoadRow
  <2> QED BY <1>20, <2>1, <2>2 DEF LoadRow, Goto
<1>21. ASSUME NEW f \in Frames, FetchFails(f) PROVE VarsOK'
  BY <1>21 DEF FetchFails
<1> HIDE DEF VarsOK, vars
<1> QED BY <1>1, <1>2, <1>3, <1>4, <1>5, <1>6, <1>7, <1>8, <1>9, <1>10, <1>11, <1>12,
           <1>13, <1>14, <1>15, <1>16, <1>17, <1>18, <1>19, <1>20, <1>21 DEF Next, Step

-----------------------------------------------------------------------------
\* Calls keep their keys, and a nested call stays under way until it is collected.
LEMMA CallsStep ==
    ASSUME VarsOK, CallsHaveKeys, NestedCalls, [Next]_vars
    PROVE  CallsHaveKeys' /\ NestedCalls'
<1> USE CacheAssumption DEF CallsHaveKeys, NestedCalls
<1>1. ASSUME NEW f \in Requests, NEW k \in Keys, NEW lv \in BOOLEAN, Ask(f, k, lv)
      PROVE  CallsHaveKeys' /\ NestedCalls'
  <2>1. f \in Frames /\ pc[f] = "idle" /\ columns[f] = None /\ columns' = columns
    BY <1>1, FrameFacts DEF Ask, Goto, sideVars
  <2>2. key' = [key EXCEPT ![f] = k] /\ live' = [live EXCEPT ![f] = lv]
    BY <1>1 DEF Ask, Called
  <2>3. pc' = [pc EXCEPT ![f] = "returned"] \/ pc' = [pc EXCEPT ![f] = "locking"]
    BY <1>1 DEF Ask, Goto
  <2>4. CallsHaveKeys'
    BY <2>1, <2>2, <2>3 DEF VarsOK
  <2>5. NestedCalls'
    BY <2>1, <2>2, <2>3, FrameFacts DEF VarsOK
  <2> QED BY <2>4, <2>5
<1>2. ASSUME NEW f \in Frames, NEW to \in Locations \ {"idle", "nested", "row", "loading"},
             pc[f] # "idle", pc' = [pc EXCEPT ![f] = to], UNCHANGED <<key, live>>,
             \A g \in Frames : columns'[g] # None =>
                 columns[g] # None /\ (g = f => to = "storing")
      PROVE  CallsHaveKeys' /\ NestedCalls'
  <2>1. \A g \in Frames : pc'[g] = IF g = f THEN to ELSE pc[g]
    BY <1>2 DEF VarsOK
  <2>2. CallsHaveKeys'
    BY <1>2, <2>1
  <2>3. NestedCalls'
    BY <1>2, FrameFacts DEF VarsOK
  <2> QED BY <2>2, <2>3
<1>3. ASSUME NEW f \in Frames,
             \/ GetLock(f) \/ Acquire(f) \/ Recheck(f) \/ Read(f) \/ Store(f) \/ Release(f)
             \/ MissRow(f) \/ LoadRow(f) \/ FetchFails(f)
      PROVE  CallsHaveKeys' /\ NestedCalls'
  <2>1. /\ pc[f] # "idle" /\ key' = key /\ live' = live
        /\ \E to \in Locations \ {"idle", "nested", "row", "loading"} :
               /\ pc' = [pc EXCEPT ![f] = to]
               /\ \A g \in Frames : columns'[g] # None =>
                      columns[g] # None /\ (g = f => to = "storing")
    <3>1. CASE GetLock(f) \/ Acquire(f) \/ Recheck(f) \/ MissRow(f) \/ LoadRow(f) \/ Release(f)
      <4>1. columns' = columns /\ key' = key /\ live' = live /\ pc[f] # "idle"
        BY <3>1 DEF GetLock, Acquire, Recheck, MissRow, LoadRow, Release, Goto, callVars, sideVars
      <4>2. columns[f] = None
        BY <3>1 DEF GetLock, Acquire, Recheck, MissRow, LoadRow, Release, Goto
      <4>3. \E to \in Locations \ {"idle", "nested", "row", "loading"} : pc' = [pc EXCEPT ![f] = to]
        BY <3>1 DEF GetLock, Acquire, Recheck, MissRow, LoadRow, Release, Goto, Locations
      <4> QED BY <4>1, <4>2, <4>3
    <3>2. CASE Read(f)
      BY <3>2 DEF Read, Goto, callVars, sideVars, Locations
    <3>3. CASE Store(f)
      BY <3>3 DEF Store, Goto, callVars, sideVars, Locations
    <3>4. CASE FetchFails(f)
      <4>1. \A g \in Frames : columns'[g] = IF g = f THEN None ELSE columns[g]
        BY <3>4 DEF FetchFails, VarsOK
      <4>2. /\ pc[f] # "idle" /\ key' = key /\ live' = live
            /\ pc' = [pc EXCEPT ![f] = "releasing"]
        BY <3>4 DEF FetchFails, callVars
      <4>3. "releasing" \in Locations \ {"idle", "nested", "row", "loading"}
        BY DEF Locations
      <4> QED BY <4>1, <4>2, <4>3
    <3> QED BY <1>3, <3>1, <3>2, <3>3, <3>4
  <2> QED BY <2>1, <1>2
<1>4. ASSUME NEW f \in Frames, ReadColumns(f) \/ StoreColumns(f)
      PROVE  CallsHaveKeys' /\ NestedCalls'
  <2>1. /\ pc' = pc /\ key' = key /\ live' = live
        /\ pc[f] \in {"fetching", "storing"} /\ Side[key[f]] # None
    BY <1>4 DEF ReadColumns, StoreColumns, callVars
  <2>2. \A g \in Frames : g # f => columns'[g] = columns[g]
    BY <1>4 DEF ReadColumns, StoreColumns, VarsOK
  <2> QED BY <2>1, <2>2
<1>10. ASSUME NEW f \in Requests, NEW k \in Keys, AskTier(f, k)
       PROVE  CallsHaveKeys' /\ NestedCalls'
  <2>1. f \in Frames /\ pc[f] = "idle" /\ columns[f] = None /\ k \in Tier /\ columns' = columns
    BY <1>10, FrameFacts DEF AskTier, Goto, sideVars
  <2>2. key' = [key EXCEPT ![f] = k] /\ live' = [live EXCEPT ![f] = FALSE]
    BY <1>10 DEF AskTier, Called
  <2>3. pc' = [pc EXCEPT ![f] = "returned"] \/ pc' = [pc EXCEPT ![f] = "row"]
    BY <1>10 DEF AskTier, Goto
  <2>4. CallsHaveKeys'
    BY <2>1, <2>2, <2>3 DEF VarsOK
  <2>5. NestedCalls'
    BY <2>1, <2>2, <2>3, FrameFacts DEF VarsOK
  <2> QED BY <2>4, <2>5
<1>11. ASSUME NEW f \in Frames, ReadRow(f) PROVE CallsHaveKeys' /\ NestedCalls'
  <2>1. /\ pc[f] = "row" /\ pc' = [pc EXCEPT ![f] = "loading"]
        /\ UNCHANGED <<key, live, columns>>
    BY <1>11 DEF ReadRow, Goto, callVars, sideVars
  <2>2. CallsHaveKeys'
    BY <2>1 DEF VarsOK
  <2>3. NestedCalls'
    BY <2>1, FrameFacts DEF VarsOK
  <2> QED BY <2>2, <2>3
<1>5. ASSUME NEW f \in Frames, Nest(f) PROVE CallsHaveKeys' /\ NestedCalls'
  <2> DEFINE g == Nested[f]
  <2>1. /\ f \in Requests /\ f \in Frames /\ g \in Frames /\ g # f
        /\ pc[f] = "fetching" /\ pc[g] = "idle"
        /\ columns[g] = None /\ columns' = columns
    BY <1>5, FrameFacts DEF Nest, sideVars
  <2>2. /\ key' = [key EXCEPT ![g] = Needs[key[f]]] /\ Needs[key[f]] # None
        /\ live' = [live EXCEPT ![g] = FALSE]
    BY <1>5 DEF Nest, Called
  <2>6. columns[f] = None
    BY <2>1, <2>2 DEF VarsOK
  <2>3. \/ pc' = [pc EXCEPT ![f] = "nested", ![g] = "returned"]
        \/ pc' = [pc EXCEPT ![f] = "nested", ![g] = "locking"]
    BY <1>5 DEF Nest
  <2>4. CallsHaveKeys'
    BY <2>1, <2>2, <2>3, <2>6 DEF VarsOK
  <2>5. NestedCalls'
    BY <2>1, <2>2, <2>3, FrameFacts DEF VarsOK
  <2> QED BY <2>4, <2>5
<1>6. ASSUME NEW f \in Frames, Collect(f) PROVE CallsHaveKeys' /\ NestedCalls'
  <2> DEFINE g == Nested[f]
  <2>1. /\ f \in Requests /\ g \in Frames /\ g # f /\ pc[f] = "nested" /\ pc[g] = "returned"
        /\ columns[g] = None /\ columns[f] = None /\ columns' = columns
    BY <1>6, FrameFacts DEF Collect, sideVars
  <2>2. /\ key' = [key EXCEPT ![g] = None] /\ live' = [live EXCEPT ![g] = FALSE]
        /\ pc' = [pc EXCEPT ![f] = "storing", ![g] = "idle"]
    BY <1>6 DEF Collect, Forget
  <2>3. CallsHaveKeys'
    BY <2>1, <2>2 DEF VarsOK
  <2>4. \A h \in Requests : h # f => Nested[h] # g
    BY <2>1
  <2>5. NestedCalls'
    BY <2>1, <2>2, <2>4, FrameFacts DEF VarsOK
  <2> QED BY <2>3, <2>5
<1>7. ASSUME NEW f \in Frames, Finish(f) PROVE CallsHaveKeys' /\ NestedCalls'
  <2>1. /\ f \in Requests /\ pc[f] = "returned"
        /\ columns[f] = None /\ columns' = columns
    BY <1>7 DEF Finish, Goto, sideVars
  <2>2. /\ key' = [key EXCEPT ![f] = None] /\ live' = [live EXCEPT ![f] = FALSE]
        /\ pc' = [pc EXCEPT ![f] = "idle"]
    BY <1>7 DEF Finish, Goto, Forget
  <2>3. CallsHaveKeys'
    BY <2>1, <2>2 DEF VarsOK
  <2>4. NestedCalls'
    BY <2>1, <2>2, FrameFacts DEF VarsOK
  <2> QED BY <2>3, <2>4
<1>8. CASE UNCHANGED <<pc, key, live, columns>>
  BY <1>8
<1>9. ASSUME \/ \E k \in Keys : Drop(k)
             \/ Flush \/ Tick \/ UNCHANGED vars
      PROVE  UNCHANGED <<pc, key, live, columns>>
  BY <1>9 DEF Drop, Flush, Tick, vars, callVars, sideVars
<1> HIDE DEF CallsHaveKeys, NestedCalls
<1> QED BY <1>1, <1>3, <1>4, <1>5, <1>6, <1>7, <1>8, <1>9, <1>10, <1>11 DEF Next, Step

-----------------------------------------------------------------------------
\* A step that moves no lock, hands none out and takes none back.
LEMMA LocksKept ==
    ASSUME LocksInv, UNCHANGED <<lock, owner, lockOf, lost>>,
           \A f \in Frames : /\ Handed(f)' <=> Handed(f)
                             /\ pc'[f] \in Holding <=> pc[f] \in Holding
                             /\ Handed(f) => key'[f] = key[f],
           VarsOK
    PROVE  LocksInv'
<1>1. \A l \in Locks : owner[l] # None => owner[l] \in Frames
  BY DEF VarsOK
<1>2. LocksOwned'
  BY <1>1 DEF LocksInv, LocksOwned
<1>3. LocksCurrent'
  BY DEF LocksInv, LocksCurrent
<1>4. LocksApart'
  BY DEF LocksInv, LocksApart
<1> QED BY <1>2, <1>3, <1>4 DEF LocksInv

\* _get_keyed_lock: the lock handed out is the registry's for the key, or new; a key
\* whose lock leaves the registry while somebody has it is in lost.
LEMMA LocksHandedOut ==
    ASSUME VarsOK, CallsHaveKeys, LocksInv, NEW f \in Frames, GetLock(f)
    PROVE  LocksInv'
<1> DEFINE k == key[f]
           l == IF lockOf[k] = None THEN Fresh ELSE lockOf[k]
           locks == [lockOf EXCEPT ![k] = l]
           n == Popped(Touched(k), locks)
           gone == {x \in Keys : \E i \in 1..n : Touched(k)[i] = x}
<1>1. k \in Keys /\ l \in Locks /\ l # None
  BY HandedLock, CacheAssumption
<1>2. /\ pc[f] = "locking" /\ pc' = [pc EXCEPT ![f] = "waiting"]
      /\ lock' = [lock EXCEPT ![f] = l]
      /\ lockOf' = [x \in Keys |-> IF x \in gone THEN None ELSE locks[x]]
      /\ lost' = lost \union {x \in gone : \E g \in Frames : lock'[g] = locks[x]}
      /\ owner' = owner /\ key' = key
  BY DEF GetLock, Goto, callVars
<1>3. lockOf[k] = None => /\ \A x \in Keys : lockOf[x] # l
                          /\ \A g \in Frames : lock[g] # l
  BY HandedLock DEF InUse
<1>4. gone \subseteq Keys
  OBVIOUS
<1> HIDE DEF gone, l
<1>5. ~ Handed(f) /\ Handed(f)' /\ pc'[f] \notin Holding /\ lock[f] = None
  BY <1>2 DEF Handed, Holding, LocksInv, LocksOwned, VarsOK
<1>6. \A g \in Frames : g # f => /\ Handed(g)' <=> Handed(g)
                                 /\ pc'[g] = pc[g] /\ lock'[g] = lock[g]
  BY <1>2 DEF Handed, VarsOK
<1>7. lock'[f] = l /\ locks[k] = l /\ \A x \in Keys : x # k => locks[x] = lockOf[x]
  BY <1>1, <1>2 DEF VarsOK
<1> HIDE DEF locks
<1>8. \A x \in Keys : lockOf'[x] = IF x \in gone THEN None ELSE locks[x]
  BY <1>2
<1>9. \A g \in Frames : Handed(g) => lock[g] # None /\ key[g] \in Keys
  BY DEF LocksInv, LocksOwned, CallsHaveKeys, VarsOK, Handed, Holding
<1>10. LocksOwned'
  <2>1. \A g \in Frames : lock'[g] # None <=> Handed(g)'
    BY <1>1, <1>5, <1>6, <1>7 DEF LocksInv, LocksOwned
  <2>2. \A g \in Frames : pc'[g] \in Holding => owner'[lock'[g]] = g
    BY <1>2, <1>5, <1>6 DEF LocksInv, LocksOwned
  <2>3. \A m \in Locks : owner'[m] # None => lock'[owner'[m]] = m /\ pc'[owner'[m]] \in Holding
    <3> SUFFICES ASSUME NEW m \in Locks, owner[m] # None
                 PROVE  lock'[owner[m]] = m /\ pc'[owner[m]] \in Holding
      BY <1>2
    <3>1. owner[m] \in Frames /\ lock[owner[m]] = m /\ pc[owner[m]] \in Holding
      BY DEF LocksInv, LocksOwned, VarsOK
    <3>2. owner[m] # f
      BY <1>5, <3>1 DEF Handed
    <3> QED BY <1>6, <3>1, <3>2
  <2> QED BY <2>1, <2>2, <2>3 DEF LocksOwned
<1>11. LocksCurrent'
  <2> SUFFICES ASSUME NEW g \in Frames, Handed(g)', key[g] \notin lost'
               PROVE  lockOf'[key[g]] = lock'[g]
    BY <1>2 DEF LocksCurrent
  <2>1. key[g] \in Keys /\ key[g] \notin lost
    BY <1>1, <1>2, <1>6, <1>9
  <2>2. locks[key[g]] = lock'[g]
    <3>1. CASE g = f
      BY <1>7, <3>1
    <3>2. CASE g # f
      <4>1. Handed(g) /\ lockOf[key[g]] = lock[g] /\ lock[g] # None
        BY <1>6, <1>9, <2>1, <3>2 DEF LocksInv, LocksCurrent
      <4>2. key[g] = k => l = lockOf[k]
        BY <4>1 DEF l
      <4> QED BY <1>6, <1>7, <2>1, <3>2, <4>1, <4>2
    <3> QED BY <3>1, <3>2
  <2>3. key[g] \notin gone
    BY <1>2, <2>2
  <2> QED BY <1>8, <2>1, <2>2, <2>3
<1>12. LocksApart'
  <2>1. \A x, y \in Keys : locks[x] # None /\ locks[x] = locks[y] => x = y
    BY <1>1, <1>3, <1>7 DEF LocksInv, LocksApart, l
  <2>2. \A g \in Frames, x \in Keys : Handed(g)' /\ locks[x] = lock'[g] => key[g] = x
    <3> SUFFICES ASSUME NEW g \in Frames, NEW x \in Keys, Handed(g)', locks[x] = lock'[g]
                 PROVE  key[g] = x
      OBVIOUS
    <3>1. CASE g = f
      BY <1>1, <1>7, <2>1, <3>1
    <3>2. CASE g # f
      <4>1. Handed(g) /\ lock'[g] = lock[g]
        BY <1>6, <3>2
      <4>2. CASE lockOf[x] = lock[g]
        BY <4>1, <4>2 DEF LocksInv, LocksApart
      <4>3. CASE lockOf[x] # lock[g]
        <5>1. x = k /\ lock[g] = l
          BY <1>7, <4>1, <4>3
        <5>2. lockOf[k] # None
          BY <1>3, <5>1
        <5> QED BY <4>3, <5>1, <5>2 DEF l
      <4> QED BY <4>2, <4>3
    <3> QED BY <3>1, <3>2
  <2>3. \A g \in Frames : Handed(g)' /\ lock'[g] = l => key[g] = k
    BY <1>1, <1>7, <2>2
  <2>4. \A g, h \in Frames : Handed(g)' /\ Handed(h)' /\ lock'[g] = lock'[h] => key[g] = key[h]
    BY <1>6, <1>7, <2>3 DEF LocksInv, LocksApart
  <2>5. \A g \in Frames : Handed(g)' => lock'[g] # None
    BY <1>1, <1>6, <1>7, <1>9
  <2> QED BY <1>2, <1>8, <2>1, <2>2, <2>4, <2>5 DEF LocksApart
<1> QED BY <1>10, <1>11, <1>12 DEF LocksInv

\* Every action keeps the locks where they belong.
LEMMA LocksStep ==
    ASSUME IInv, [Next]_vars
    PROVE  LocksInv'
<1> USE DEF IInv
<1>1. ASSUME NEW f \in Frames, GetLock(f) PROVE LocksInv'
  BY <1>1, LocksHandedOut
<1>2. ASSUME NEW f \in Frames, Acquire(f) PROVE LocksInv'
  <2> DEFINE l == lock[f]
  <2>1. /\ pc[f] = "waiting" /\ pc' = [pc EXCEPT ![f] = "checking"]
        /\ owner[l] = None /\ owner' = [owner EXCEPT ![l] = f]
        /\ lock' = lock /\ key' = key /\ lockOf' = lockOf /\ lost' = lost
    BY <1>2 DEF Acquire, Goto, callVars, registry
  <2>2. l \in Locks /\ l # None /\ f # None
    BY <2>1, CacheAssumption DEF LocksInv, LocksOwned, Handed, VarsOK
  <2>3. \A g \in Frames : Handed(g)' <=> Handed(g)
    BY <2>1 DEF Handed, Holding, VarsOK
  <2>4. \A g \in Frames : pc'[g] \in Holding <=> pc[g] \in Holding \/ g = f
    BY <2>1 DEF Holding, VarsOK
  <2>5. \A g \in Frames : pc[g] \in Holding => lock[g] # l
    BY <2>1, CacheAssumption DEF LocksInv, LocksOwned
  <2>6. \A g \in Frames : pc[g] \in Holding => lock[g] \in Locks /\ owner[lock[g]] = g
    BY DEF LocksInv, LocksOwned, Handed, VarsOK
  <2>7. LocksOwned'
    <3>1. \A g \in Frames : lock'[g] # None <=> Handed(g)'
      BY <2>1, <2>3 DEF LocksInv, LocksOwned
    <3>2. \A g \in Frames : pc'[g] \in Holding => owner'[lock'[g]] = g
      BY <2>1, <2>2, <2>4, <2>5, <2>6 DEF VarsOK
    <3>3. \A m \in Locks : owner'[m] # None => lock'[owner'[m]] = m /\ pc'[owner'[m]] \in Holding
      <4> SUFFICES ASSUME NEW m \in Locks, owner'[m] # None
                   PROVE  lock[owner'[m]] = m /\ pc'[owner'[m]] \in Holding
        BY <2>1
      <4>1. CASE m = l
        BY <2>1, <2>2, <2>4, <4>1 DEF VarsOK
      <4>2. CASE m # l
        BY <2>1, <2>4, <4>2 DEF LocksInv, LocksOwned, VarsOK
      <4> QED BY <4>1, <4>2
    <3> QED BY <3>1, <3>2, <3>3 DEF LocksOwned
  <2>8. LocksCurrent' /\ LocksApart'
    BY <2>1, <2>3 DEF LocksInv, LocksCurrent, LocksApart
  <2> QED BY <2>7, <2>8 DEF LocksInv
<1>3. ASSUME NEW f \in Frames, Release(f) PROVE LocksInv'
  <2> DEFINE l == lock[f]
  <2>1. /\ pc[f] = "releasing" /\ pc' = [pc EXCEPT ![f] = "returned"]
        /\ owner' = [owner EXCEPT ![l] = None] /\ lock' = [lock EXCEPT ![f] = None]
        /\ key' = key /\ lockOf' = lockOf /\ lost' = lost
    BY <1>3 DEF Release, Goto, callVars, registry
  <2>2. l \in Locks /\ owner[l] = f
    BY <2>1 DEF LocksInv, LocksOwned, Handed, Holding, VarsOK
  <2>3. ~ Handed(f)' /\ pc'[f] \notin Holding /\ lock'[f] = None
    BY <2>1 DEF Handed, Holding, VarsOK
  <2>4. \A g \in Frames : g # f => /\ Handed(g)' <=> Handed(g)
                                   /\ pc'[g] = pc[g] /\ lock'[g] = lock[g]
    BY <2>1 DEF Handed, VarsOK
  <2>5. LocksOwned'
    <3>1. \A g \in Frames : lock'[g] # None <=> Handed(g)'
      BY <2>3, <2>4 DEF LocksInv, LocksOwned
    <3>2. \A g \in Frames : pc'[g] \in Holding => owner'[lock'[g]] = g
      <4> SUFFICES ASSUME NEW g \in Frames, pc'[g] \in Holding PROVE owner'[lock'[g]] = g
        OBVIOUS
      <4>1. g # f /\ pc[g] \in Holding /\ lock'[g] = lock[g]
        BY <2>3, <2>4
      <4>2. owner[lock[g]] = g /\ lock[g] \in Locks
        BY <4>1 DEF LocksInv, LocksOwned, Handed, VarsOK
      <4>3. lock[g] # l
        BY <2>2, <4>1, <4>2
      <4> QED BY <2>1, <4>1, <4>2, <4>3 DEF VarsOK
    <3>3. \A m \in Locks : owner'[m] # None => lock'[owner'[m]] = m /\ pc'[owner'[m]] \in Holding
      <4> SUFFICES ASSUME NEW m \in Locks, owner'[m] # None
                   PROVE  lock'[owner'[m]] = m /\ pc'[owner'[m]] \in Holding
        OBVIOUS
      <4>1. m # l /\ owner'[m] = owner[m]
        BY <2>1 DEF VarsOK
      <4>2. owner[m] \in Frames /\ lock[owner[m]] = m /\ pc[owner[m]] \in Holding
        BY <4>1 DEF LocksInv, LocksOwned, VarsOK
      <4> QED BY <2>4, <4>1, <4>2
    <3> QED BY <3>1, <3>2, <3>3 DEF LocksOwned
  <2>6. LocksCurrent'
    BY <2>1, <2>3, <2>4 DEF LocksInv, LocksCurrent
  <2>7. LocksApart'
    BY <2>1, <2>3, <2>4 DEF LocksInv, LocksApart
  <2> QED BY <2>5, <2>6, <2>7 DEF LocksInv
<1>4. ASSUME \A f \in Frames : /\ Handed(f)' <=> Handed(f)
                               /\ pc'[f] \in Holding <=> pc[f] \in Holding
                               /\ Handed(f) => key'[f] = key[f],
             UNCHANGED <<lock, owner, lockOf, lost>>
      PROVE  LocksInv'
  BY <1>4, LocksKept
<1>5. ASSUME NEW f \in Requests, NEW k \in Keys, NEW lv \in BOOLEAN, Ask(f, k, lv)
      PROVE  LocksInv'
  <2>1. f \in Frames /\ pc[f] = "idle" /\ UNCHANGED <<lock, owner, lockOf, lost>>
    BY <1>5, FrameFacts DEF Ask, Goto, registry
  <2>2. key' = [key EXCEPT ![f] = k]
    BY <1>5 DEF Ask, Called
  <2>3. pc' = [pc EXCEPT ![f] = "returned"] \/ pc' = [pc EXCEPT ![f] = "locking"]
    BY <1>5 DEF Ask, Goto
  <2> QED BY <1>4, <2>1, <2>2, <2>3 DEF Handed, Holding, VarsOK
<1>6. ASSUME NEW f \in Frames,
             Recheck(f) \/ Read(f) \/ FetchFails(f) \/ Store(f)
      PROVE  LocksInv'
  <2>1. UNCHANGED <<lock, owner, lockOf, lost, key>>
    BY <1>6 DEF Recheck, Read, FetchFails, Store, callVars, registry
  <2>2. pc[f] \in Holding /\ \E to \in Holding : pc' = [pc EXCEPT ![f] = to]
    BY <1>6 DEF Recheck, Read, FetchFails, Store, Goto, Holding
  <2> QED BY <1>4, <2>1, <2>2 DEF Handed, Holding, VarsOK
<1>7. ASSUME NEW f \in Frames, Nest(f) PROVE LocksInv'
  <2> DEFINE g == Nested[f]
  <2>1. /\ f \in Requests /\ g \in Frames /\ g # f /\ pc[f] = "fetching" /\ pc[g] = "idle"
        /\ UNCHANGED <<lock, owner, lockOf, lost>>
    BY <1>7, FrameFacts DEF Nest, registry
  <2>2. key' = [key EXCEPT ![g] = Needs[key[f]]]
    BY <1>7 DEF Nest, Called
  <2>3. \/ pc' = [pc EXCEPT ![f] = "nested", ![g] = "returned"]
        \/ pc' = [pc EXCEPT ![f] = "nested", ![g] = "locking"]
    BY <1>7 DEF Nest
  <2> QED BY <1>4, <2>1, <2>2, <2>3 DEF Handed, Holding, VarsOK
<1>8. ASSUME NEW f \in Frames, Collect(f) PROVE LocksInv'
  <2> DEFINE g == Nested[f]
  <2>1. /\ f \in Requests /\ g \in Frames /\ g # f /\ pc[f] = "nested" /\ pc[g] = "returned"
        /\ UNCHANGED <<lock, owner, lockOf, lost>>
    BY <1>8, FrameFacts DEF Collect, NestedCalls, registry
  <2>2. key' = [key EXCEPT ![g] = None] /\ pc' = [pc EXCEPT ![f] = "storing", ![g] = "idle"]
    BY <1>8 DEF Collect, Forget
  <2> QED BY <1>4, <2>1, <2>2 DEF Handed, Holding, VarsOK
<1>9. ASSUME NEW f \in Frames, Finish(f) PROVE LocksInv'
  <2>1. /\ pc[f] = "returned" /\ pc' = [pc EXCEPT ![f] = "idle"]
        /\ key' = [key EXCEPT ![f] = None] /\ UNCHANGED <<lock, owner, lockOf, lost>>
    BY <1>9 DEF Finish, Goto, Forget, registry
  <2> QED BY <1>4, <2>1 DEF Handed, Holding, VarsOK
<1>10. ASSUME \/ \E k \in Keys : Drop(k)
              \/ \E f \in Frames : ReadColumns(f) \/ StoreColumns(f)
              \/ Flush \/ Tick \/ UNCHANGED vars
       PROVE  LocksInv'
  <2>1. UNCHANGED <<pc, key, lock, owner, lockOf, lost>>
    BY <1>10 DEF Drop, ReadColumns, StoreColumns, Flush, Tick, vars, callVars, registry
  <2> QED BY <1>4, <2>1 DEF Handed
<1>11. ASSUME NEW f \in Requests, NEW k \in Keys, AskTier(f, k) PROVE LocksInv'
  <2>1. f \in Frames /\ pc[f] = "idle" /\ UNCHANGED <<lock, owner, lockOf, lost>>
    BY <1>11, FrameFacts DEF AskTier, Goto, registry
  <2>2. key' = [key EXCEPT ![f] = k]
    BY <1>11 DEF AskTier, Called
  <2>3. pc' = [pc EXCEPT ![f] = "returned"] \/ pc' = [pc EXCEPT ![f] = "row"]
    BY <1>11 DEF AskTier, Goto
  <2> QED BY <1>4, <2>1, <2>2, <2>3 DEF Handed, Holding, VarsOK
<1>12. ASSUME NEW f \in Frames, ReadRow(f) \/ MissRow(f) \/ LoadRow(f) PROVE LocksInv'
  <2>1. UNCHANGED <<lock, owner, lockOf, lost, key>>
    BY <1>12 DEF ReadRow, MissRow, LoadRow, callVars, registry
  <2>2. /\ pc[f] \in {"row", "loading"}
        /\ \E to \in {"loading", "locking", "returned"} : pc' = [pc EXCEPT ![f] = to]
    BY <1>12 DEF ReadRow, MissRow, LoadRow, Goto
  <2> QED BY <1>4, <2>1, <2>2 DEF Handed, Holding, VarsOK
<1> HIDE DEF IInv
<1> QED BY <1>1, <1>2, <1>3, <1>5, <1>6, <1>7, <1>8, <1>9, <1>10, <1>11, <1>12 DEF Next, Step

-----------------------------------------------------------------------------
\* The inductive invariant holds in every reachable state.
THEOREM LocksInvariant == Spec => []IInv
<1>1. Init => IInv
  <2> SUFFICES ASSUME Init PROVE IInv
    OBVIOUS
  <2> USE CacheAssumption DEF Init
  <2>1. VarsOK
    BY DEF VarsOK, Times, Locations
  <2>2. CallsHaveKeys /\ NestedCalls
    BY DEF CallsHaveKeys, NestedCalls
  <2>3. LocksInv
    BY DEF LocksInv, LocksOwned, LocksCurrent, LocksApart, Handed, Holding
  <2> QED BY <2>1, <2>2, <2>3 DEF IInv
<1>2. IInv /\ [Next]_vars => IInv'
  BY TypeStep, CallsStep, LocksStep DEF IInv
<1> QED BY <1>1, <1>2, PTL DEF Spec

\* Type correctness of the cache, the lock registry and the calls; and no lock is held
\* by a call that has left its `with` block, however its fetch ended.
THEOREM TypeCorrect == Spec => []TypeOK
<1>1. IInv => TypeOK
  BY DEF IInv, TypeOK, LocksInv, LocksOwned
<1> QED BY <1>1, LocksInvariant, PTL

\* Two calls fetch one key together only if the key's lock left the bounded registry
\* (_get_keyed_lock) between being handed to a call and being acquired by it.
THEOREM SingleFlightHolds == Spec => []SingleFlight
<1>1. IInv => SingleFlight
  <2> SUFFICES ASSUME IInv, NEW f \in Frames, NEW g \in Frames, f # g,
                      Fetching(f), Fetching(g), key[f] = key[g], key[f] \notin lost
               PROVE  FALSE
    BY DEF SingleFlight
  <2>1. pc[f] \in Holding /\ pc[g] \in Holding
    BY DEF Fetching, Holding
  <2>2. owner[lock[f]] = f /\ owner[lock[g]] = g
    BY <2>1 DEF IInv, LocksInv, LocksOwned
  <2>3. lock[f] = lock[g]
    BY <2>1 DEF IInv, LocksInv, LocksCurrent, Handed
  <2> QED BY <2>2, <2>3
<1> QED BY <1>1, LocksInvariant, PTL

\* Keyed locks are held across nested keyed calls (list_all_tables, load_edges), yet
\* whenever a call is under way some call can go on.
THEOREM NoCircularWaitHolds == Spec => []NoCircularWait
<1>1. IInv => NoCircularWait
  <2> SUFFICES ASSUME IInv, NEW f \in Frames, pc[f] # "idle"
               PROVE  \E h \in Frames : pc[h] # "idle" /\ ~ Blocked(h)
    BY DEF NoCircularWait
  <2>1. \A h \in Frames : pc[h] \in Holding \ {"nested"} => pc[h] # "idle" /\ ~ Blocked(h)
    BY DEF Holding, Blocked
  <2>2. \A h \in Frames : pc[h] = "waiting" /\ owner[lock[h]] # None =>
            LET o == owner[lock[h]] IN o \in Frames /\ pc[o] \in Holding /\ key[o] = key[h]
    <3> SUFFICES ASSUME NEW h \in Frames, pc[h] = "waiting", owner[lock[h]] # None
                 PROVE  /\ owner[lock[h]] \in Frames /\ pc[owner[lock[h]]] \in Holding
                        /\ key[owner[lock[h]]] = key[h]
      OBVIOUS
    <3>1. Handed(h) /\ lock[h] \in Locks
      BY DEF IInv, LocksInv, LocksOwned, Handed, VarsOK
    <3>2. owner[lock[h]] \in Frames /\ lock[owner[lock[h]]] = lock[h] /\ pc[owner[lock[h]]] \in Holding
      BY <3>1 DEF IInv, LocksInv, LocksOwned, VarsOK
    <3> QED BY <3>1, <3>2 DEF IInv, LocksInv, LocksApart, Handed
  <2>3. \A h \in Frames : pc[h] = "nested" =>
            \E x \in Frames : pc[x] # "idle" /\ ~ Blocked(x)
    <3> SUFFICES ASSUME NEW h \in Frames, pc[h] = "nested"
                 PROVE  \E x \in Frames : pc[x] # "idle" /\ ~ Blocked(x)
      OBVIOUS
    <3> DEFINE g == Nested[h]
    <3>1. /\ h \in Requests /\ g \in Frames /\ g \notin Requests
          /\ key[g] = Needs[key[h]] /\ pc[g] # "idle" /\ key[g] # None
      BY FrameFacts DEF IInv, NestedCalls, CallsHaveKeys
    <3>2. pc[g] # "nested" /\ Needs[key[g]] = None
      BY <3>1, CacheAssumption DEF IInv, NestedCalls, CallsHaveKeys, VarsOK
    <3>3. CASE ~ (pc[g] = "waiting" /\ owner[lock[g]] # None)
      BY <3>1, <3>2, <3>3 DEF Blocked
    <3>4. CASE pc[g] = "waiting" /\ owner[lock[g]] # None
      <4> DEFINE o == owner[lock[g]]
      <4>1. o \in Frames /\ pc[o] \in Holding /\ key[o] = key[g]
        BY <2>2, <3>1, <3>4
      <4>2. pc[o] # "nested"
        <5> SUFFICES ASSUME pc[o] = "nested" PROVE FALSE
          OBVIOUS
        <5>1. o \in Requests /\ key[Nested[o]] = None /\ pc[Nested[o]] # "idle"
          BY <3>2, <4>1 DEF IInv, NestedCalls
        <5> QED BY <5>1, FrameFacts DEF IInv, CallsHaveKeys
      <4> QED BY <2>1, <4>1, <4>2
    <3> QED BY <3>3, <3>4
  <2>4. CASE ~ Blocked(f)
    BY <2>4
  <2>5. CASE pc[f] = "nested"
    BY <2>3, <2>5
  <2>6. CASE pc[f] = "waiting" /\ owner[lock[f]] # None
    <3>1. owner[lock[f]] \in Frames /\ pc[owner[lock[f]]] \in Holding
      BY <2>2, <2>6
    <3> QED BY <2>1, <2>3, <3>1
  <2> QED BY <2>4, <2>5, <2>6 DEF Blocked
<1> QED BY <1>1, LocksInvariant, PTL
-----------------------------------------------------------------------------
(***************************************************************************)
(* The ages of the data.  What a step may do with them: where a cached value,   *)
(* a fetched one and an answer come from, and whose arguments stay.            *)
(***************************************************************************)
Has(f, k) == pc[f] \in {"releasing", "returned"} /\ key[f] = k /\ result[f] # None
Answer(f) == pc[f] \in {"storing", "releasing", "returned"} /\ result[f] # None

CacheFrom ==
    \A k \in Keys : cache'[k] # None =>
        \/ cache'[k] = cache[k]
        \/ \E f \in Frames : /\ pc[f] = "storing" /\ pc'[f] = "releasing"
                             /\ key[f] = k /\ cache'[k] = result[f]
        \/ \E f \in Frames : /\ columns[f] # None /\ Side[key[f]] = k
                             /\ cache'[k] = columns[f] /\ k \in bare'
        \/ \E f \in Frames : /\ pc[f] = "loading" /\ pc'[f] = "returned"
                             /\ key[f] = k /\ cache'[k] = result[f] /\ k \in bare'

FetchedFrom ==
    \A f \in Frames : pc'[f] = "storing" /\ result'[f] # None =>
        \/ pc[f] = "storing" /\ result'[f] = result[f]
        \/ pc[f] = "fetching" /\ Needs[key[f]] = None /\ result'[f] = now
        \/ /\ pc[f] = "nested" /\ pc[Nested[f]] = "returned" /\ result'[f] = result[Nested[f]]
           /\ seen'[key[Nested[f]]] >= result'[f]

ColumnsFrom ==
    \A f \in Frames : columns'[f] # None =>
        /\ pc[f] # "idle" /\ pc'[f] # "idle"
        /\ columns'[f] = columns[f] \/ columns'[f] = now

RowsFrom ==
    \A f \in Frames : pc'[f] = "loading" =>
        (pc[f] = "loading" /\ result'[f] = result[f]) \/ result'[f] \in 0..now

AnswersFrom ==
    \A f \in Frames : pc'[f] \in {"releasing", "returned"} /\ result'[f] # None =>
        \/ pc[f] \in {"releasing", "returned"} /\ result'[f] = result[f]
        \/ pc[f] = "storing" /\ result'[f] = result[f] /\ cache'[key[f]] = result[f]
        \/ /\ pc[f] = "loading" /\ pc'[f] = "returned"
           /\ result'[f] = result[f] /\ key[f] \in bare'
        \/ /\ pc[f] \in {"idle", "row", "checking"}
           /\ result'[f] = cache[key'[f]] /\ live'[f] = FALSE

SeenFrom ==
    \A k \in Keys :
        /\ seen'[k] >= seen[k]
        /\ \/ seen'[k] = seen[k]
           \/ \E f \in Frames : Has(f, k) /\ seen'[k] = result[f]

CallsFrom ==
    \A f \in Frames : pc'[f] # "idle" =>
        \/ /\ pc[f] # "idle"
           /\ key'[f] = key[f] /\ live'[f] = live[f] /\ floor'[f] = floor[f]
        \/ /\ pc[f] = "idle" /\ pc'[f] \in {"locking", "row", "returned"}
           /\ floor'[f] = IF live'[f] THEN now ELSE seen[key'[f]]
           /\ live'[f] => Needs[key'[f]] = None

FetchingFrom ==
    \A f \in Frames :
        /\ Fetching(f)' => Fetching(f) \/ (pc[f] = "checking" /\ ~ Hit(key[f], live[f]))
        /\ pc'[f] = "nested" =>
            \/ pc[f] = "nested"
            \/ /\ pc[f] = "fetching" /\ pc[Nested[f]] = "idle" /\ Needs[key[f]] # None
               /\ floor'[Nested[f]] = seen[Needs[key[f]]]

Flow ==
    /\ CacheFrom /\ FetchedFrom /\ ColumnsFrom /\ RowsFrom /\ AnswersFrom
    /\ SeenFrom /\ CallsFrom /\ FetchingFrom
    /\ lost \subseteq lost' /\ bare \subseteq bare' /\ now <= now' /\ now' \in Times

\* A call that moves on with what it has.
LEMMA FlowOn ==
    ASSUME IInv, NEW f \in Frames, NEW from, NEW to,
           pc[f] = from, pc' = [pc EXCEPT ![f] = to],
           <<from, to>> \in {<<"row", "locking">>, <<"locking", "waiting">>,
                             <<"waiting", "checking">>, <<"releasing", "returned">>},
           UNCHANGED <<now, cache, key, live, floor, result, columns, bare, seen>>,
           lost \subseteq lost'
    PROVE  Flow
<1>0. VarsOK
  BY DEF IInv
<1>1. \A g \in Frames : pc'[g] = IF g = f THEN to ELSE pc[g]
  BY <1>0 DEF VarsOK
<1>2. CacheFrom
  BY DEF CacheFrom
<1>3. FetchedFrom /\ RowsFrom
  BY <1>1 DEF FetchedFrom, RowsFrom
<1>8. ColumnsFrom
  BY <1>1 DEF ColumnsFrom, IInv, CallsHaveKeys
<1>4. AnswersFrom
  BY <1>1 DEF AnswersFrom
<1>5. SeenFrom
  BY <1>0 DEF SeenFrom, VarsOK, Times
<1>6. CallsFrom
  BY <1>1 DEF CallsFrom
<1>7. FetchingFrom
  BY <1>1 DEF FetchingFrom, Fetching
<1> QED BY <1>0, <1>2, <1>3, <1>4, <1>5, <1>6, <1>7, <1>8, CacheAssumption DEF Flow, VarsOK, Times

\* A step that moves no call: at most entries go, and time passes.
LEMMA FlowAround ==
    ASSUME IInv, UNCHANGED <<pc, key, live, floor, result, columns, bare, seen, lost>>,
           now' >= now, now' \in Times,
           \A k \in Keys : cache'[k] # None => cache'[k] = cache[k]
    PROVE  Flow
<1>0. VarsOK
  BY DEF IInv
<1>1. CacheFrom
  BY DEF CacheFrom
<1>2. FetchedFrom /\ RowsFrom
  BY DEF FetchedFrom, RowsFrom
<1>7. ColumnsFrom
  BY DEF ColumnsFrom, IInv, CallsHaveKeys
<1>3. AnswersFrom
  BY DEF AnswersFrom
<1>4. SeenFrom
  BY <1>0 DEF SeenFrom, VarsOK, Times
<1>5. CallsFrom
  BY DEF CallsFrom
<1>6. FetchingFrom
  BY DEF FetchingFrom, Fetching
<1> QED BY <1>0, <1>1, <1>2, <1>3, <1>4, <1>5, <1>6, <1>7, CacheAssumption DEF Flow, VarsOK, Times

\* What a call asks for when it comes in: the cache answers, or it goes on empty-handed.
LEMMA FlowAsked ==
    ASSUME IInv, NEW f \in Frames, NEW k \in Keys, NEW lv \in BOOLEAN, NEW to \in {"locking", "row"},
           pc[f] = "idle", Called(f, k, lv), lv => Needs[k] = None,
           \/ Hit(k, lv) /\ pc' = [pc EXCEPT ![f] = "returned"]
                         /\ result' = [result EXCEPT ![f] = cache[k]]
           \/ pc' = [pc EXCEPT ![f] = to] /\ result' = result,
           UNCHANGED <<now, cache, columns, bare, seen, lost>>
    PROVE  Flow
<1>0. VarsOK
  BY DEF IInv
<1>2. /\ \A g \in Frames : key'[g] = IF g = f THEN k ELSE key[g]
      /\ \A g \in Frames : live'[g] = IF g = f THEN lv ELSE live[g]
      /\ \A g \in Frames : floor'[g] = IF g = f THEN IF lv THEN now ELSE seen[k] ELSE floor[g]
  BY <1>0 DEF Called, VarsOK
<1>3. \/ /\ Hit(k, lv) /\ \A g \in Frames : pc'[g] = IF g = f THEN "returned" ELSE pc[g]
         /\ \A g \in Frames : result'[g] = IF g = f THEN cache[k] ELSE result[g]
      \/ /\ \A g \in Frames : pc'[g] = IF g = f THEN to ELSE pc[g]
         /\ result' = result
  BY <1>0 DEF VarsOK
<1>4. CacheFrom /\ SeenFrom
  BY <1>0 DEF CacheFrom, SeenFrom, VarsOK, Times
<1>5. FetchedFrom /\ RowsFrom
  BY <1>3 DEF FetchedFrom, RowsFrom
<1>6. AnswersFrom
  BY <1>2, <1>3 DEF AnswersFrom, Hit
<1>7. ColumnsFrom
  BY <1>3 DEF ColumnsFrom, IInv, CallsHaveKeys
<1>8. CallsFrom
  BY <1>2, <1>3 DEF CallsFrom
<1>9. FetchingFrom
  BY <1>3 DEF FetchingFrom, Fetching
<1> QED BY <1>0, <1>4, <1>5, <1>6, <1>7, <1>8, <1>9, CacheAssumption DEF Flow, VarsOK, Times

\* The patched accessor with the shared table's answer: no row, a row, the row's put.
LEMMA FlowTier ==
    ASSUME IInv, NEW f \in Frames, ReadRow(f) \/ MissRow(f) \/ LoadRow(f)
    PROVE  Flow
<1>0. VarsOK /\ UNCHANGED <<now, key, live, floor, columns, seen, lost>>
  BY DEF ReadRow, MissRow, LoadRow, callVars, registry, sideVars, IInv
<1>1. key[f] \in Keys /\ pc[f] \in {"row", "loading"} /\ ~ live[f]
  BY DEF ReadRow, MissRow, LoadRow, Goto, IInv, CallsHaveKeys, VarsOK
<1>2. PICK to \in {"loading", "returned", "locking"} :
          \A g \in Frames : pc'[g] = IF g = f THEN to ELSE pc[g]
  <2>1. \E to \in {"loading", "returned", "locking"} : pc' = [pc EXCEPT ![f] = to]
    BY DEF ReadRow, MissRow, LoadRow, Goto
  <2> QED BY <1>0, <2>1 DEF VarsOK
<1>3. SeenFrom /\ CallsFrom
  BY <1>0, <1>1, <1>2 DEF SeenFrom, CallsFrom, VarsOK, Times
<1>4. FetchingFrom
  BY <1>0, <1>1, <1>2 DEF FetchingFrom, Fetching
<1>5. ColumnsFrom
  BY <1>0, <1>1, <1>2 DEF ColumnsFrom, IInv, CallsHaveKeys
<1>6. ASSUME CacheFrom, FetchedFrom, RowsFrom, AnswersFrom, bare \subseteq bare' PROVE Flow
  BY <1>0, <1>3, <1>4, <1>5, <1>6, CacheAssumption DEF Flow, VarsOK, Times
<1>7. CASE ReadRow(f)
  <2>1. cache' = cache /\ bare' = bare /\ pc'[f] = "loading"
    BY <1>0, <1>7 DEF ReadRow, Goto, sideVars, VarsOK
  <2>2. PICK v \in 0..now : \A g \in Frames : result'[g] = IF g = f THEN v ELSE result[g]
    BY <1>0, <1>7 DEF ReadRow, VarsOK
  <2>3. CacheFrom /\ FetchedFrom
    BY <1>2, <2>1, <2>2 DEF CacheFrom, FetchedFrom
  <2>4. RowsFrom /\ AnswersFrom
    BY <1>2, <2>1, <2>2 DEF RowsFrom, AnswersFrom
  <2> QED BY <1>6, <2>1, <2>3, <2>4
<1>8. CASE MissRow(f)
  <2>1. cache' = cache /\ bare' = bare /\ pc[f] = "row" /\ pc'[f] \in {"returned", "locking"}
    BY <1>0, <1>8 DEF MissRow, Goto, sideVars, VarsOK
  <2>2. \/ pc'[f] = "returned" /\ \A g \in Frames : result'[g] = IF g = f THEN cache[key[f]] ELSE result[g]
        \/ pc'[f] = "locking" /\ result' = result
    BY <1>0, <1>8 DEF MissRow, Goto, VarsOK
  <2>3. CacheFrom /\ FetchedFrom
    BY <1>2, <2>1, <2>2 DEF CacheFrom, FetchedFrom
  <2>4. RowsFrom
    BY <1>2, <2>1, <2>2 DEF RowsFrom
  <2>5. AnswersFrom
    BY <1>0, <1>1, <1>2, <2>1, <2>2 DEF AnswersFrom, VarsOK
  <2> QED BY <1>6, <2>1, <2>3, <2>4, <2>5
<1>9. CASE LoadRow(f)
  <2>1. /\ pc[f] = "loading" /\ pc'[f] = "returned" /\ result' = result
        /\ bare' = bare \union {key[f]}
        /\ \A k \in Keys : cache'[k] = IF k = key[f] THEN result[f] ELSE cache[k]
    BY <1>0, <1>9 DEF LoadRow, Goto, VarsOK
  <2>2. CacheFrom
    BY <2>1 DEF CacheFrom
  <2>3. FetchedFrom /\ RowsFrom
    BY <1>2, <2>1 DEF FetchedFrom, RowsFrom
  <2>4. AnswersFrom
    BY <1>2, <2>1 DEF AnswersFrom
  <2> QED BY <1>6, <2>1, <2>2, <2>3, <2>4
<1> QED BY <1>7, <1>8, <1>9

\* A call inside its lock that neither asks nor answers another.
LEMMA FlowInside ==
    ASSUME IInv, NEW f \in Frames,
           Recheck(f) \/ Read(f) \/ FetchFails(f) \/ Store(f)
    PROVE  Flow
<1>1. key[f] \in Keys
  BY DEF Recheck, Read, FetchFails, Store, Goto, IInv, CallsHaveKeys, VarsOK
<1>2. UNCHANGED <<now, key, live, floor, seen, lost, bare>> /\ VarsOK
  BY DEF Recheck, Read, FetchFails, Store, callVars, registry, sideVars, IInv
<1>3. /\ pc[f] \in {"checking", "fetching", "storing"}
      /\ \E to \in {"fetching", "storing", "releasing"} : pc' = [pc EXCEPT ![f] = to]
  BY DEF Recheck, Read, FetchFails, Store, Goto
<1>4. SeenFrom /\ CallsFrom
  BY <1>2, <1>3 DEF SeenFrom, CallsFrom, VarsOK, Times
<1>5. ColumnsFrom
  <2>1. \A g \in Frames : columns'[g] # None => columns'[g] = columns[g]
    BY <1>2 DEF Recheck, Read, FetchFails, Store, sideVars, VarsOK
  <2>2. \A g \in Frames : pc'[g] = "idle" => pc[g] = "idle"
    BY <1>2, <1>3 DEF VarsOK
  <2> QED BY <2>1, <2>2 DEF ColumnsFrom, IInv, CallsHaveKeys
<1>6. ASSUME NEW from, NEW to, pc[f] = from, pc' = [pc EXCEPT ![f] = to]
      PROVE  /\ \A g \in Frames : pc'[g] = IF g = f THEN to ELSE pc[g]
             /\ pc[f] = from
  BY <1>2, <1>6 DEF VarsOK
<1>7. RowsFrom
  <2>1. \A g \in Frames : g # f => result'[g] = result[g]
    BY <1>2 DEF Recheck, Read, FetchFails, Store, VarsOK
  <2>2. \A g \in Frames : pc'[g] = "loading" => g # f /\ pc[g] = "loading"
    BY <1>2, <1>3 DEF VarsOK
  <2> QED BY <2>1, <2>2 DEF RowsFrom
<1>8. ASSUME CacheFrom, FetchedFrom, AnswersFrom, FetchingFrom PROVE Flow
  BY <1>2, <1>4, <1>5, <1>7, <1>8, CacheAssumption DEF Flow, VarsOK, Times
<1>9. CASE Recheck(f)
  <2>1. cache' = cache
    BY <1>9 DEF Recheck
  <2>2. CacheFrom
    BY <2>1 DEF CacheFrom
  <2>3. CASE pc[f] = "checking" /\ pc' = [pc EXCEPT ![f] = "releasing"] /\ Hit(key[f], live[f])
             /\ result' = [result EXCEPT ![f] = cache[key[f]]]
    <3>1. \A g \in Frames : pc'[g] = IF g = f THEN "releasing" ELSE pc[g]
      BY <1>6, <2>3
    <3>2. \A g \in Frames : result'[g] = IF g = f THEN cache[key[f]] ELSE result[g]
      BY <1>2, <2>3 DEF VarsOK
    <3>3. FetchedFrom
      BY <3>1, <3>2 DEF FetchedFrom
    <3>5. AnswersFrom
      BY <1>2, <2>3, <3>1, <3>2 DEF AnswersFrom, Hit, VarsOK
    <3>6. FetchingFrom
      BY <3>1 DEF FetchingFrom, Fetching
    <3> QED BY <1>8, <2>2, <3>3, <3>5, <3>6
  <2>4. CASE pc[f] = "checking" /\ pc' = [pc EXCEPT ![f] = "fetching"]
             /\ ~ Hit(key[f], live[f]) /\ result' = result
    <3>1. \A g \in Frames : pc'[g] = IF g = f THEN "fetching" ELSE pc[g]
      BY <1>6, <2>4
    <3>2. FetchedFrom
      BY <2>4, <3>1 DEF FetchedFrom
    <3>3. AnswersFrom
      BY <2>4, <3>1 DEF AnswersFrom
    <3>4. FetchingFrom
      BY <2>4, <3>1 DEF FetchingFrom, Fetching
    <3> QED BY <1>8, <2>2, <3>2, <3>3, <3>4
  <2> QED BY <1>9, <2>3, <2>4 DEF Recheck, Goto
<1>10. CASE Read(f)
  <2>1. /\ cache' = cache /\ pc' = [pc EXCEPT ![f] = "storing"]
        /\ pc[f] = "fetching" /\ Needs[key[f]] = None
    BY <1>10 DEF Read, Goto
  <2>2. \A g \in Frames : pc'[g] = IF g = f THEN "storing" ELSE pc[g]
    BY <1>6, <2>1
  <2>3. \A g \in Frames : result'[g] = IF g = f THEN now ELSE result[g]
    BY <1>2, <1>10 DEF Read, VarsOK
  <2>4. CacheFrom /\ FetchedFrom
    BY <2>1, <2>2, <2>3 DEF CacheFrom, FetchedFrom
  <2>6. AnswersFrom
    BY <2>2, <2>3 DEF AnswersFrom
  <2>7. FetchingFrom
    BY <2>1, <2>2 DEF FetchingFrom, Fetching
  <2> QED BY <1>8, <2>4, <2>6, <2>7
<1>11. CASE FetchFails(f)
  <2>1. cache' = cache /\ pc' = [pc EXCEPT ![f] = "releasing"]
    BY <1>11 DEF FetchFails
  <2>2. \A g \in Frames : pc'[g] = IF g = f THEN "releasing" ELSE pc[g]
    BY <1>6, <2>1
  <2>3. \A g \in Frames : result'[g] = IF g = f THEN None ELSE result[g]
    BY <1>2, <1>11 DEF FetchFails, VarsOK
  <2>4. CacheFrom /\ FetchedFrom
    BY <2>1, <2>2, <2>3 DEF CacheFrom, FetchedFrom
  <2>5. AnswersFrom
    BY <2>2, <2>3 DEF AnswersFrom
  <2>6. FetchingFrom
    BY <2>2 DEF FetchingFrom, Fetching
  <2> QED BY <1>8, <2>4, <2>5, <2>6
<1>12. CASE Store(f)
  <2>1. /\ pc[f] = "storing" /\ pc' = [pc EXCEPT ![f] = "releasing"] /\ result' = result
    BY <1>12 DEF Store, Goto
  <2>2. \A k \in Keys : cache'[k] = IF k = key[f] /\ result[f] # None THEN result[f] ELSE cache[k]
    BY <1>2, <1>12 DEF Store, VarsOK
  <2>3. \A g \in Frames : pc'[g] = IF g = f THEN "releasing" ELSE pc[g]
    BY <1>6, <2>1
  <2>4. CacheFrom
    BY <2>1, <2>2, <2>3 DEF CacheFrom
  <2>5. FetchedFrom
    BY <2>1, <2>3 DEF FetchedFrom
  <2>6. AnswersFrom
    BY <1>1, <2>1, <2>2, <2>3 DEF AnswersFrom
  <2>7. FetchingFrom
    BY <2>1, <2>3 DEF FetchingFrom, Fetching
  <2> QED BY <1>8, <2>4, <2>5, <2>6, <2>7
<1> QED BY <1>9, <1>10, <1>11, <1>12

\* A fetch and the columns it caches on the way, without their lock.
LEMMA FlowColumns ==
    ASSUME IInv, NEW f \in Frames, ReadColumns(f) \/ StoreColumns(f)
    PROVE  Flow
<1>1. UNCHANGED <<now, pc, key, live, floor, result, seen, lost>> /\ VarsOK
  BY DEF ReadColumns, StoreColumns, callVars, registry, IInv
<1>2. pc[f] \in {"fetching", "storing"}
  BY DEF ReadColumns, StoreColumns, IInv, CallsHaveKeys
<1>3. FetchedFrom /\ RowsFrom /\ AnswersFrom
  BY <1>1 DEF FetchedFrom, RowsFrom, AnswersFrom
<1>4. SeenFrom /\ CallsFrom /\ FetchingFrom
  BY <1>1 DEF SeenFrom, CallsFrom, FetchingFrom, Fetching, VarsOK, Times
<1>5. ColumnsFrom
  <2>1. \A g \in Frames : columns'[g] # None => columns'[g] = columns[g] \/ columns'[g] = now
    BY <1>1 DEF ReadColumns, StoreColumns, VarsOK
  <2>2. \A g \in Frames : columns'[g] # None => columns[g] # None \/ g = f
    BY <1>1 DEF ReadColumns, StoreColumns, VarsOK
  <2> QED BY <1>1, <1>2, <2>1, <2>2 DEF ColumnsFrom, IInv, CallsHaveKeys
<1>6. CacheFrom /\ bare \subseteq bare'
  <2>1. CASE ReadColumns(f)
    BY <2>1 DEF ReadColumns, CacheFrom
  <2>2. CASE StoreColumns(f)
    <3>1. /\ columns[f] # None /\ bare' = bare \union {Side[key[f]]}
          /\ \A k \in Keys : cache'[k] = IF k = Side[key[f]] THEN columns[f] ELSE cache[k]
      BY <1>1, <2>2 DEF StoreColumns, VarsOK
    <3> QED BY <3>1 DEF CacheFrom
  <2> QED BY <2>1, <2>2
<1> QED BY <1>1, <1>3, <1>4, <1>5, <1>6, CacheAssumption DEF Flow, VarsOK, Times

\* Every step moves data as Flow says.
LEMMA FlowStep ==
    ASSUME IInv, [Next]_vars
    PROVE  Flow
<1>0. VarsOK
  BY DEF IInv
<1>1. ASSUME NEW f \in Requests, NEW k \in Keys, NEW lv \in BOOLEAN, Ask(f, k, lv) PROVE Flow
  <2>1. /\ f \in Frames /\ pc[f] = "idle" /\ Called(f, k, lv) /\ (lv => Needs[k] = None)
        /\ UNCHANGED <<now, cache, columns, bare, seen, lost>>
    BY <1>1, FrameFacts DEF Ask, Goto, registry, sideVars
  <2>2. \/ Hit(k, lv) /\ pc' = [pc EXCEPT ![f] = "returned"]
                      /\ result' = [result EXCEPT ![f] = cache[k]]
        \/ pc' = [pc EXCEPT ![f] = "locking"] /\ result' = result
    BY <1>1 DEF Ask, Goto
  <2> QED BY <2>1, <2>2, FlowAsked
<1>11. ASSUME NEW f \in Requests, NEW k \in Keys, AskTier(f, k) PROVE Flow
  <2>1. /\ f \in Frames /\ pc[f] = "idle" /\ Called(f, k, FALSE)
        /\ UNCHANGED <<now, cache, columns, bare, seen, lost>>
    BY <1>11, FrameFacts DEF AskTier, Goto, registry, sideVars
  <2>2. \/ Hit(k, FALSE) /\ pc' = [pc EXCEPT ![f] = "returned"]
                         /\ result' = [result EXCEPT ![f] = cache[k]]
        \/ pc' = [pc EXCEPT ![f] = "row"] /\ result' = result
    BY <1>11 DEF AskTier, Goto
  <2> QED BY <2>1, <2>2, FlowAsked
<1>12. ASSUME NEW f \in Frames, ReadRow(f) \/ MissRow(f) \/ LoadRow(f) PROVE Flow
  BY <1>12, FlowTier
<1>13. ASSUME NEW f \in Frames, ReadColumns(f) \/ StoreColumns(f) PROVE Flow
  BY <1>13, FlowColumns
<1>2. ASSUME NEW f \in Frames, GetLock(f) PROVE Flow
  <2>1. /\ pc[f] = "locking" /\ pc' = [pc EXCEPT ![f] = "waiting"]
        /\ UNCHANGED <<now, cache, key, live, floor, result, columns, bare, seen>>
        /\ lost \subseteq lost'
    BY <1>2 DEF GetLock, Goto, callVars, sideVars
  <2> QED BY <2>1, FlowOn
<1>3. ASSUME NEW f \in Frames, Acquire(f) PROVE Flow
  <2>1. /\ pc[f] = "waiting" /\ pc' = [pc EXCEPT ![f] = "checking"]
        /\ UNCHANGED <<now, cache, key, live, floor, result, columns, bare, seen>>
        /\ lost \subseteq lost'
    BY <1>3 DEF Acquire, Goto, callVars, registry, sideVars
  <2> QED BY <2>1, FlowOn
<1>4. ASSUME NEW f \in Frames, Release(f) PROVE Flow
  <2>1. /\ pc[f] = "releasing" /\ pc' = [pc EXCEPT ![f] = "returned"]
        /\ UNCHANGED <<now, cache, key, live, floor, result, columns, bare, seen>>
        /\ lost \subseteq lost'
    BY <1>4 DEF Release, Goto, callVars, registry, sideVars
  <2> QED BY <2>1, FlowOn
<1>5. ASSUME NEW f \in Frames, Recheck(f) \/ Read(f) \/ FetchFails(f) \/ Store(f) PROVE Flow
  BY <1>5, FlowInside
<1>6. ASSUME NEW f \in Frames, Nest(f) PROVE Flow
  <2> DEFINE g == Nested[f]
             k == Needs[key[f]]
  <2>1. /\ f \in Requests /\ g \in Frames /\ g # f /\ g \notin Requests
        /\ pc[f] = "fetching" /\ pc[g] = "idle" /\ k # None
        /\ UNCHANGED <<now, cache, columns, bare, seen, lost>>
    BY <1>6, FrameFacts DEF Nest, registry, sideVars
  <2>2. /\ \A h \in Frames : key'[h] = IF h = g THEN k ELSE key[h]
        /\ \A h \in Frames : live'[h] = IF h = g THEN FALSE ELSE live[h]
        /\ \A h \in Frames : floor'[h] = IF h = g THEN seen[k] ELSE floor[h]
    BY <1>0, <1>6, <2>1 DEF Nest, Called, VarsOK
  <2>3. /\ \A h \in Frames : result'[h] = IF h = g THEN cache[k] ELSE result[h]
        /\ \A h \in Frames : h # f /\ h # g => pc'[h] = pc[h]
        /\ pc'[f] = "nested" /\ pc'[g] \in {"returned", "locking"}
    BY <1>0, <1>6, <2>1 DEF Nest, VarsOK
  <2>4. CacheFrom /\ SeenFrom
    BY <1>0, <2>1 DEF CacheFrom, SeenFrom, VarsOK, Times
  <2>5. FetchedFrom /\ RowsFrom
    BY <2>1, <2>3 DEF FetchedFrom, RowsFrom
  <2>9. ColumnsFrom
    BY <2>1, <2>3 DEF ColumnsFrom, IInv, CallsHaveKeys
  <2>6. AnswersFrom
    BY <2>1, <2>2, <2>3 DEF AnswersFrom
  <2>7. CallsFrom
    <3> SUFFICES ASSUME NEW h \in Frames, pc'[h] # "idle"
                 PROVE  \/ /\ pc[h] # "idle"
                           /\ key'[h] = key[h] /\ live'[h] = live[h] /\ floor'[h] = floor[h]
                        \/ /\ pc[h] = "idle" /\ pc'[h] \in {"locking", "row", "returned"}
                           /\ floor'[h] = IF live'[h] THEN now ELSE seen[key'[h]]
                           /\ live'[h] => Needs[key'[h]] = None
      BY DEF CallsFrom
    <3>1. CASE h = g
      <4>1. live'[h] = FALSE /\ floor'[h] = seen[key'[h]]
        BY <2>2, <3>1
      <4> QED BY <2>1, <2>3, <3>1, <4>1
    <3>2. CASE h # g
      <4>1. key'[h] = key[h] /\ live'[h] = live[h] /\ floor'[h] = floor[h]
        BY <2>2, <3>2
      <4>2. pc[h] # "idle"
        BY <2>1, <2>3, <3>2
      <4> QED BY <4>1, <4>2
    <3> QED BY <3>1, <3>2
  <2>8. FetchingFrom
    BY <2>1, <2>2, <2>3 DEF FetchingFrom, Fetching
  <2> QED BY <1>0, <2>1, <2>4, <2>5, <2>6, <2>7, <2>8, <2>9, CacheAssumption DEF Flow, VarsOK, Times
<1>7. ASSUME NEW f \in Frames, NEW a \in Frames, NEW to, pc[a] = "returned",
             seen' = [seen EXCEPT ![key[a]] = Newer(@, result[a])]
      PROVE  SeenFrom /\ (result[a] # None => seen'[key[a]] >= result[a])
  <2>1. key[a] \in Keys
    BY <1>0, <1>7 DEF IInv, CallsHaveKeys, VarsOK
  <2>2. result[a] # None => result[a] \in Times
    BY <1>0 DEF VarsOK
  <2>3. \A k \in Keys : seen'[k] = IF k = key[a] THEN Newer(seen[k], result[a]) ELSE seen[k]
    BY <1>0, <1>7 DEF VarsOK
  <2>4. \A k \in Keys : seen[k] \in Times
    BY <1>0 DEF VarsOK
  <2>5. result[a] # None => seen'[key[a]] >= result[a]
    BY <2>1, <2>2, <2>3, <2>4 DEF Newer, Times
  <2>6. SeenFrom
    BY <1>7, <2>1, <2>2, <2>3, <2>4 DEF SeenFrom, Newer, Times, Has
  <2> QED BY <2>5, <2>6
<1>8. ASSUME NEW f \in Frames, Collect(f) PROVE Flow
  <2> DEFINE g == Nested[f]
  <2>1. /\ f \in Requests /\ g \in Frames /\ g # f /\ pc[f] = "nested" /\ pc[g] = "returned"
        /\ UNCHANGED <<now, cache, columns, bare, lost>>
        /\ columns[g] = None
    BY <1>8, FrameFacts DEF Collect, IInv, NestedCalls, CallsHaveKeys, registry, sideVars
  <2>2. /\ \A h \in Frames : h # g => key'[h] = key[h] /\ live'[h] = live[h] /\ floor'[h] = floor[h]
        /\ \A h \in Frames : h # f /\ h # g => pc'[h] = pc[h] /\ result'[h] = result[h]
        /\ pc'[f] = "storing" /\ pc'[g] = "idle" /\ result'[f] = result[g]
    BY <1>0, <1>8, <2>1 DEF Collect, Forget, VarsOK
  <2>3. SeenFrom /\ (result[g] # None => seen'[key[g]] >= result[g])
    BY <1>7, <1>8, <2>1 DEF Collect, Delivered
  <2>4. CacheFrom
    BY <2>1 DEF CacheFrom
  <2>5. FetchedFrom
    BY <2>1, <2>2, <2>3 DEF FetchedFrom
  <2>6. ColumnsFrom
    BY <2>1, <2>2 DEF ColumnsFrom, IInv, CallsHaveKeys
  <2>10. RowsFrom
    BY <2>2 DEF RowsFrom
  <2>7. AnswersFrom
    BY <2>2 DEF AnswersFrom
  <2>8. CallsFrom
    BY <2>1, <2>2 DEF CallsFrom
  <2>9. FetchingFrom
    BY <2>1, <2>2 DEF FetchingFrom, Fetching
  <2> QED BY <1>0, <2>1, <2>3, <2>4, <2>5, <2>6, <2>7, <2>8, <2>9, <2>10, CacheAssumption
          DEF Flow, VarsOK, Times
<1>9. ASSUME NEW f \in Frames, Finish(f) PROVE Flow
  <2>1. /\ pc[f] = "returned" /\ UNCHANGED <<now, cache, columns, bare, lost>>
        /\ columns[f] = None
    BY <1>9 DEF Finish, Goto, registry, sideVars, IInv, CallsHaveKeys
  <2>2. /\ \A h \in Frames : h # f => /\ key'[h] = key[h] /\ live'[h] = live[h]
                                      /\ floor'[h] = floor[h] /\ pc'[h] = pc[h]
                                      /\ result'[h] = result[h]
        /\ pc'[f] = "idle"
    BY <1>0, <1>9 DEF Finish, Goto, Forget, VarsOK
  <2>3. SeenFrom
    BY <1>7, <1>9, <2>1 DEF Finish, Delivered
  <2>4. CacheFrom
    BY <2>1 DEF CacheFrom
  <2>5. FetchedFrom /\ RowsFrom
    BY <2>2 DEF FetchedFrom, RowsFrom, SeenFrom
  <2>9. ColumnsFrom
    BY <2>1, <2>2 DEF ColumnsFrom, IInv, CallsHaveKeys
  <2>6. AnswersFrom
    BY <2>2 DEF AnswersFrom
  <2>7. CallsFrom
    BY <2>2 DEF CallsFrom
  <2>8. FetchingFrom
    BY <2>2 DEF FetchingFrom, Fetching
  <2> QED BY <1>0, <2>1, <2>3, <2>4, <2>5, <2>6, <2>7, <2>8, <2>9, CacheAssumption
          DEF Flow, VarsOK, Times
<1>10. CASE (\E k \in Keys : Drop(k)) \/ Flush \/ Tick \/ UNCHANGED vars
  <2>1. UNCHANGED <<pc, key, live, floor, result, columns, bare, seen, lost>>
    BY <1>10 DEF Drop, Flush, Tick, vars, callVars, registry, sideVars
  <2>2. now' >= now /\ now' \in Times
    BY <1>0, <1>10, CacheAssumption DEF Drop, Flush, Tick, vars, VarsOK, Times
  <2>3. \A k \in Keys : cache'[k] # None => cache'[k] = cache[k]
    BY <1>0, <1>10 DEF Drop, Flush, Tick, vars, VarsOK
  <2> QED BY <2>1, <2>2, <2>3, FlowAround
<1> QED BY <1>1, <1>2, <1>3, <1>4, <1>5, <1>6, <1>8, <1>9, <1>10, <1>11, <1>12, <1>13
        DEF Next, Step

-----------------------------------------------------------------------------
(***************************************************************************)
(* A barrier: data older than "at" are, from some moment on, only under the      *)
(* keys in dirty.  No step breaks it, as long as a key that the patched accessor *)
(* gives an older row is dirty from then on, and no call made after it gets      *)
(* older data for a clean key.  invalidate_cache() raises one, and so does a     *)
(* wipe of the stored lineage (TransformCache).                               *)
(***************************************************************************)
Clean(k, dirty) == k \notin dirty /\ Needs[k] \notin dirty

CacheSince(at, dirty) == \A k \in Keys : cache[k] # None /\ Clean(k, dirty) => cache[k] >= at

FetchedSince(at, dirty) ==
    \A f \in Frames :
        pc[f] = "storing" /\ result[f] # None /\ Clean(key[f], dirty) => result[f] >= at

ColumnsSince(at, dirty) ==
    \A f \in Frames :
        columns[f] # None /\ Side[key[f]] \notin dirty => columns[f] >= at

NestedSince(at, dirty) ==
    \A f \in Frames :
        pc[f] = "nested" /\ Answer(Nested[f]) /\ Clean(key[f], dirty)
            => result[Nested[f]] >= at

AnsweredSince(S, at, dirty) ==
    \A f \in S :
        pc[f] \in {"releasing", "returned"} /\ result[f] # None /\ Clean(key[f], dirty)
            => result[f] >= at

ReadSince(at, dirty) ==
    /\ CacheSince(at, dirty) /\ FetchedSince(at, dirty)
    /\ ColumnsSince(at, dirty) /\ NestedSince(at, dirty)

\* What a call is asked for by another is clean if the other's key is.
LEMMA CleanNeeds ==
    ASSUME IInv, NEW f \in Frames, pc[f] = "nested", NEW dirty \in SUBSET Keys
    PROVE  /\ Nested[f] \in Frames /\ key[Nested[f]] \in Keys
           /\ Needs[key[f]] = key[Nested[f]] /\ Needs[key[Nested[f]]] = None
           /\ Clean(key[f], dirty) => Clean(key[Nested[f]], dirty)
<1>1. f \in Requests /\ key[Nested[f]] = Needs[key[f]] /\ pc[Nested[f]] # "idle"
  BY DEF IInv, NestedCalls
<1>2. Nested[f] \in Frames /\ key[Nested[f]] # None /\ key[f] \in Keys
  BY <1>1, FrameFacts DEF IInv, CallsHaveKeys, VarsOK
<1>3. key[Nested[f]] \in Keys /\ Needs[key[Nested[f]]] = None
  BY <1>1, <1>2, CacheAssumption DEF IInv, VarsOK
<1>4. None \notin dirty
  BY CacheAssumption
<1> QED BY <1>1, <1>2, <1>3, <1>4 DEF Clean

\* A step's data are as old as Flow says, so none older gets past the barrier.
LEMMA BarrierStep ==
    ASSUME IInv, [Next]_vars, NEW at \in Times, at <= now,
           NEW before \in SUBSET Keys, NEW dirty \in SUBSET Keys, before \subseteq dirty,
           \A f \in Frames : pc[f] = "loading" /\ pc'[f] = "returned" /\ result[f] # None
               => result[f] >= at \/ key[f] \in dirty,
           NEW S \in SUBSET Frames, NEW T \in SUBSET Frames,
           \A f \in T : f \in S \/ pc[f] = "idle",
           ReadSince(at, before), AnsweredSince(S, at, before)
    PROVE  ReadSince(at, dirty)' /\ AnsweredSince(T, at, dirty)'
<1>0. IInv' /\ Flow /\ VarsOK
  BY TypeStep, CallsStep, LocksStep, FlowStep DEF IInv
<1>1. \A f \in Frames : pc[f] # "idle" => key[f] \in Keys
  BY <1>0 DEF IInv, CallsHaveKeys, VarsOK
<1>2. \A f \in Frames : pc[f] # "idle" /\ pc'[f] # "idle" => key'[f] = key[f]
  BY <1>0 DEF Flow, CallsFrom
<1>3. \A f \in Frames : pc'[f] # "idle" => key'[f] \in Keys
  BY <1>0 DEF IInv, CallsHaveKeys, VarsOK
<1>10. ReadSince(at, dirty) /\ AnsweredSince(S, at, dirty)
  BY DEF ReadSince, CacheSince, FetchedSince, ColumnsSince, NestedSince, AnsweredSince, Clean
<1>4. CacheSince(at, dirty)'
  <2> SUFFICES ASSUME NEW k \in Keys, cache'[k] # None, Clean(k, dirty) PROVE cache'[k] >= at
    BY DEF CacheSince, Clean
  <2>1. CASE cache'[k] = cache[k]
    BY <1>10, <2>1 DEF ReadSince, CacheSince
  <2>2. CASE \E f \in Frames : pc[f] = "storing" /\ key[f] = k /\ cache'[k] = result[f]
    BY <1>10, <2>2 DEF ReadSince, FetchedSince
  <2>3. CASE \E f \in Frames : columns[f] # None /\ Side[key[f]] = k /\ cache'[k] = columns[f]
    BY <1>10, <2>3 DEF ReadSince, ColumnsSince, Clean
  <2>4. CASE \E f \in Frames : /\ pc[f] = "loading" /\ pc'[f] = "returned"
                               /\ key[f] = k /\ cache'[k] = result[f]
    BY <2>4 DEF Clean
  <2> QED BY <1>0, <2>1, <2>2, <2>3, <2>4 DEF Flow, CacheFrom
<1>5. FetchedSince(at, dirty)'
  <2> SUFFICES ASSUME NEW f \in Frames, pc'[f] = "storing", result'[f] # None, Clean(key'[f], dirty)
               PROVE  result'[f] >= at
    BY DEF FetchedSince, Clean
  <2>1. CASE pc[f] = "storing" /\ result'[f] = result[f]
    BY <1>2, <1>10, <2>1 DEF ReadSince, FetchedSince
  <2>2. CASE result'[f] = now
    BY <2>2
  <2>3. CASE pc[f] = "nested" /\ pc[Nested[f]] = "returned" /\ result'[f] = result[Nested[f]]
    BY <1>2, <1>10, <2>3 DEF ReadSince, NestedSince, Answer
  <2> QED BY <1>0, <2>1, <2>2, <2>3 DEF Flow, FetchedFrom
<1>6. ColumnsSince(at, dirty)'
  <2> SUFFICES ASSUME NEW f \in Frames, columns'[f] # None, Side[key'[f]] \notin dirty
               PROVE  columns'[f] >= at
    BY DEF ColumnsSince
  <2> QED BY <1>0, <1>2, <1>10 DEF Flow, ColumnsFrom, ReadSince, ColumnsSince
<1>7. ASSUME NEW f \in Frames, pc'[f] \in {"releasing", "returned"}, result'[f] # None,
             Clean(key'[f], dirty), ~ (pc[f] \in {"releasing", "returned"})
      PROVE  result'[f] >= at
  <2>1. CASE pc[f] = "storing" /\ result'[f] = result[f]
    BY <1>2, <1>7, <1>10, <2>1 DEF ReadSince, FetchedSince
  <2>2. CASE result'[f] = cache[key'[f]]
    BY <1>3, <1>7, <1>10, <2>2 DEF ReadSince, CacheSince
  <2>3. CASE pc[f] = "loading" /\ pc'[f] = "returned" /\ result'[f] = result[f]
    BY <1>2, <1>7, <2>3 DEF Clean
  <2> QED BY <1>0, <1>7, <2>1, <2>2, <2>3 DEF Flow, AnswersFrom
<1>8. NestedSince(at, dirty)'
  <2> SUFFICES ASSUME NEW f \in Frames, pc'[f] = "nested", Answer(Nested[f])',
                      Clean(key'[f], dirty)
               PROVE  result'[Nested[f]] >= at
    BY DEF NestedSince, Clean
  <2> DEFINE g == Nested[f]
  <2>1. g \in Frames /\ Clean(key'[g], dirty)
    <3>1. /\ f \in Requests /\ key'[g] = Needs[key'[f]] /\ pc'[g] # "idle"
      BY <1>0 DEF IInv, NestedCalls
    <3>2. g \in Frames /\ key'[g] \in Keys /\ key'[f] \in Keys
      BY <1>3, <3>1, FrameFacts
    <3>3. Needs[key'[g]] = None
      BY <3>1, <3>2, CacheAssumption
    <3> QED BY <3>1, <3>2, <3>3, CacheAssumption DEF Clean
  <2>2. result'[g] # None /\ pc'[g] \in {"storing", "releasing", "returned"}
    BY DEF Answer
  <2>3. CASE pc'[g] = "storing"
    BY <1>5, <2>1, <2>2, <2>3 DEF FetchedSince, Clean
  <2>4. CASE pc'[g] # "storing" /\ ~ (pc[g] \in {"releasing", "returned"})
    BY <1>7, <2>1, <2>2, <2>4
  <2>5. CASE pc'[g] # "storing" /\ pc[g] \in {"releasing", "returned"}
    <3>1. result'[g] = result[g] /\ key'[g] = key[g]
      BY <1>0, <1>2, <2>1, <2>2, <2>5 DEF Flow, AnswersFrom
    <3>2. pc[f] = "nested" \/ (pc[f] = "fetching" /\ pc[g] = "idle")
      BY <1>0 DEF Flow, FetchingFrom
    <3>3. key'[f] = key[f] /\ Answer(g)
      BY <1>2, <2>2, <2>5, <3>1, <3>2 DEF Answer
    <3> QED BY <1>10, <2>5, <3>1, <3>2, <3>3 DEF ReadSince, NestedSince
  <2> QED BY <2>2, <2>3, <2>4, <2>5
<1>9. AnsweredSince(T, at, dirty)'
  <2> SUFFICES ASSUME NEW f \in T, pc'[f] \in {"releasing", "returned"}, result'[f] # None,
                      Clean(key'[f], dirty)
               PROVE  result'[f] >= at
    BY DEF AnsweredSince, Clean
  <2>1. CASE pc[f] \in {"releasing", "returned"}
    <3>1. result'[f] = result[f] /\ key'[f] = key[f] /\ f \in S
      BY <1>0, <1>2, <2>1 DEF Flow, AnswersFrom
    <3> QED BY <1>10, <2>1, <3>1 DEF AnsweredSince
  <2> QED BY <1>7, <2>1
<1> QED BY <1>4, <1>5, <1>6, <1>8, <1>9 DEF ReadSince

\* Where a barrier can be raised: everything cached, or in a frame's hands on its way
\* to the cache, is dirty.
LEMMA BarrierStart ==
    ASSUME IInv, NEW at \in Times, NEW dirty \in SUBSET Keys,
           {k \in Keys : cache[k] # None} \cup InHand \subseteq dirty
    PROVE  ReadSince(at, dirty)
<1>1. CacheSince(at, dirty)
  BY DEF CacheSince, Clean
<1>2. FetchedSince(at, dirty)
  BY DEF FetchedSince, Clean, InHand
<1>3. ColumnsSince(at, dirty)
  BY DEF ColumnsSince, InHand
<1>4. NestedSince(at, dirty)
  BY DEF NestedSince, Clean, InHand, Answer, IInv, NestedCalls
<1> QED BY <1>1, <1>2, <1>3, <1>4 DEF ReadSince

\* invalidate_cache()'s own barrier.
FlushBarrier ==
    /\ flushedAt <= now
    /\ ReadSince(flushedAt, straddled)
    /\ AnsweredSince({f \in Frames : fresh[f]}, flushedAt, straddled)

LEMMA FlushBarrierStep ==
    ASSUME IInv, FlushBarrier, [Next]_vars
    PROVE  FlushBarrier'
<1>0. VarsOK /\ VarsOK' /\ Flow /\ IInv'
  BY TypeStep, CallsStep, LocksStep, FlowStep DEF IInv
<1>1. CASE Flush
  <2>1. /\ flushedAt' = now /\ now' = now /\ straddled' = InHand
        /\ UNCHANGED <<pc, key, result, columns>>
        /\ \A k \in Keys : cache'[k] = None
        /\ \A f \in Frames : ~ fresh'[f]
    BY <1>1, <1>0 DEF Flush, VarsOK, sideVars
  <2>2. InHand' = InHand
    BY <2>1 DEF InHand
  <2>3. PICK d \in SUBSET Keys : d = straddled'
    BY <1>0 DEF VarsOK
  <2>4. PICK a \in Times : a = flushedAt'
    BY <1>0 DEF VarsOK
  <2>5. ReadSince(a, d)'
    <3>1. CacheSince(a, d)'
      BY <2>1 DEF CacheSince
    <3>2. FetchedSince(a, d)'
      BY <2>1, <2>3 DEF FetchedSince, Clean, InHand
    <3>3. ColumnsSince(a, d)'
      BY <2>1, <2>3 DEF ColumnsSince, InHand
    <3>4. NestedSince(a, d)'
      BY <2>1, <2>3 DEF NestedSince, Clean, InHand, Answer, IInv, NestedCalls
    <3> QED BY <3>1, <3>2, <3>3, <3>4 DEF ReadSince
  <2>6. ReadSince(flushedAt, straddled)'
    BY <2>3, <2>4, <2>5
  <2>7. AnsweredSince({f \in Frames : fresh[f]}, flushedAt, straddled)'
    BY <2>1 DEF AnsweredSince
  <2> QED BY <1>0, <2>1, <2>6, <2>7 DEF FlushBarrier, VarsOK, Times
<1>2. CASE ~ Flush
  <2>1. /\ flushedAt' = flushedAt /\ straddled \subseteq straddled'
        /\ \A f \in Frames : pc[f] = "loading" /\ pc'[f] = "returned" /\ result[f] # None
               => result[f] >= flushedAt \/ key[f] \in straddled'
    <3>1. ASSUME NEW f \in Frames, LoadRow(f)
          PROVE  /\ flushedAt' = flushedAt /\ straddled \subseteq straddled'
                 /\ \A g \in Frames : pc[g] = "loading" /\ pc'[g] = "returned" => g = f
                 /\ result[f] # None => result[f] >= flushedAt \/ key[f] \in straddled'
      BY <1>0, <3>1 DEF LoadRow, Goto, VarsOK, Times
    <3>2. ASSUME \A f \in Frames : ~ LoadRow(f)
          PROVE  /\ flushedAt' = flushedAt /\ straddled' = straddled
      BY <1>2, <3>2 DEF Next, Step, Ask, AskTier, ReadRow, MissRow, GetLock, Acquire, Recheck,
                ReadColumns, StoreColumns, Read, FetchFails, Nest, Collect, Store, Release,
                Finish, Drop, Tick, flushVars, vars
    <3>3. ASSUME NEW f \in Frames, pc[f] = "loading", pc'[f] = "returned"
          PROVE  \E g \in Frames : LoadRow(g)
      <4>1. pc' # pc
        BY <3>3
      <4>2. ASSUME NEW g \in Frames, NEW from, NEW to, Goto(g, from, to), from # "loading"
            PROVE  FALSE
        <5>1. pc[g] = from /\ \A h \in Frames : h # g => pc'[h] = pc[h]
          BY <1>0, <4>2 DEF Goto, VarsOK
        <5> QED BY <3>3, <4>2, <5>1
      <4>3. ASSUME NEW g \in Frames, NEW to, pc[g] # "loading", pc' = [pc EXCEPT ![g] = to]
            PROVE  FALSE
        BY <1>0, <3>3, <4>3 DEF VarsOK
      <4>4. \A g \in Requests, k \in Keys : ~ AskTier(g, k) /\ \A lv \in BOOLEAN : ~ Ask(g, k, lv)
        <5> SUFFICES ASSUME NEW g \in Requests, NEW k \in Keys, NEW lv \in BOOLEAN,
                            AskTier(g, k) \/ Ask(g, k, lv)
                     PROVE  FALSE
          OBVIOUS
        <5>1. g \in Frames /\ \E to \in {"returned", "row", "locking"} : Goto(g, "idle", to)
          BY FrameFacts DEF AskTier, Ask
        <5> QED BY <4>2, <5>1
      <4>5. \A g \in Frames : ~ (\/ ReadRow(g) \/ MissRow(g) \/ GetLock(g) \/ Acquire(g) \/ Recheck(g)
                                 \/ Read(g) \/ Store(g) \/ Release(g) \/ Finish(g))
        BY <4>2 DEF ReadRow, MissRow, GetLock, Acquire, Recheck, Read, Store, Release, Finish
      <4>6. \A g \in Frames : ~ (ReadColumns(g) \/ StoreColumns(g) \/ FetchFails(g))
        BY <4>1, <4>3 DEF ReadColumns, StoreColumns, FetchFails
      <4>7. \A g \in Frames : ~ (Nest(g) \/ Collect(g))
        <5> SUFFICES ASSUME NEW g \in Frames, Nest(g) \/ Collect(g) PROVE FALSE
          OBVIOUS
        <5>1. g \in Requests /\ Nested[g] \in Frames /\ Nested[g] # g
          BY <1>0, FrameFacts DEF Nest, Collect, IInv, NestedCalls
        <5>2. pc[g] \in {"fetching", "nested"} /\ pc[Nested[g]] \in {"idle", "returned"}
          BY DEF Nest, Collect
        <5>3. \A h \in Frames : h # g /\ h # Nested[g] => pc'[h] = pc[h]
          BY <1>0, <5>1 DEF Nest, Collect, VarsOK
        <5> QED BY <3>3, <5>1, <5>2, <5>3
      <4>8. ~ (Flush \/ Tick \/ UNCHANGED vars \/ \E k \in Keys : Drop(k))
        BY <4>1 DEF Flush, Tick, vars, Drop
      <4> QED BY <4>4, <4>5, <4>6, <4>7, <4>8 DEF Next, Step
    <3> QED BY <3>1, <3>2, <3>3
  <2>2. \A f \in Frames : fresh'[f] => fresh[f] \/ pc[f] = "idle"
    <3>1. ASSUME NEW f \in Requests, NEW k \in Keys, NEW lv \in BOOLEAN, Ask(f, k, lv)
          PROVE  \A g \in Frames : fresh'[g] => fresh[g] \/ pc[g] = "idle"
      BY <1>0, <3>1 DEF Ask, Called, Goto, VarsOK
    <3>5. ASSUME NEW f \in Requests, NEW k \in Keys, AskTier(f, k)
          PROVE  \A g \in Frames : fresh'[g] => fresh[g] \/ pc[g] = "idle"
      BY <1>0, <3>5 DEF AskTier, Called, Goto, VarsOK
    <3>2. ASSUME NEW f \in Frames, Nest(f)
          PROVE  \A g \in Frames : fresh'[g] => fresh[g] \/ pc[g] = "idle"
      BY <1>0, <3>2 DEF Nest, Called, VarsOK
    <3>3. ASSUME NEW f \in Frames, Collect(f) \/ Finish(f)
          PROVE  \A g \in Frames : fresh'[g] => fresh[g]
      BY <1>0, <3>3 DEF Collect, Finish, Forget, VarsOK
    <3>4. CASE UNCHANGED fresh
      BY <3>4
    <3> QED BY <1>2, <3>1, <3>2, <3>3, <3>4, <3>5
            DEF Next, Step, ReadRow, MissRow, LoadRow, GetLock, Acquire, Recheck, ReadColumns,
                StoreColumns, Read, FetchFails, Store, Release, Drop, Tick, callVars, vars
  <2>3. PICK d \in SUBSET Keys : d = straddled
    BY <1>0 DEF VarsOK
  <2>12. PICK e \in SUBSET Keys : e = straddled'
    BY <1>0 DEF VarsOK
  <2>4. PICK a \in Times : a = flushedAt
    BY <1>0 DEF VarsOK
  <2>5. PICK S \in SUBSET Frames : S = {f \in Frames : fresh[f]}
    OBVIOUS
  <2>6. PICK T \in SUBSET Frames : T = {f \in Frames : fresh'[f]}
    OBVIOUS
  <2>7. a <= now /\ ReadSince(a, d) /\ AnsweredSince(S, a, d)
    BY <2>3, <2>4, <2>5 DEF FlushBarrier
  <2>8. \A f \in T : f \in S \/ pc[f] = "idle"
    BY <2>2, <2>5, <2>6
  <2>13. /\ d \subseteq e
         /\ \A f \in Frames : pc[f] = "loading" /\ pc'[f] = "returned" /\ result[f] # None
                => result[f] >= a \/ key[f] \in e
    BY <2>1, <2>3, <2>4, <2>12
  <2>9. ReadSince(a, e)' /\ AnsweredSince(T, a, e)'
    BY <2>7, <2>8, <2>13, BarrierStep
  <2>10. a = flushedAt' /\ e = straddled' /\ T = {f \in Frames : fresh[f]}'
    BY <2>1, <2>4, <2>6, <2>12
  <2>11. flushedAt' <= now'
    BY <1>0, <2>1 DEF FlushBarrier, Flow, VarsOK, Times
  <2> QED BY <2>9, <2>10, <2>11 DEF FlushBarrier
<1> QED BY <1>1, <1>2

\* After invalidate_cache() a call is answered with older data only if a fetch had them
\* in hand at that moment, or the patched accessor has since put a row of the shared
\* table older than the flush - for this key, or for the one its fetcher asks for.
THEOREM FlushSticksHolds == Spec => []FlushSticks
<1>1. Init => FlushBarrier
  <2> SUFFICES ASSUME Init PROVE FlushBarrier
    OBVIOUS
  <2>1. ReadSince(flushedAt, straddled)
    BY DEF Init, ReadSince, CacheSince, FetchedSince, ColumnsSince, NestedSince, Answer
  <2>2. AnsweredSince({f \in Frames : fresh[f]}, flushedAt, straddled)
    BY DEF Init, AnsweredSince
  <2> QED BY <2>1, <2>2 DEF FlushBarrier, Init
<1>2. IInv /\ FlushBarrier /\ [Next]_vars => FlushBarrier'
  BY FlushBarrierStep
<1>3. IInv /\ FlushBarrier => FlushSticks
  BY DEF FlushBarrier, FlushSticks, AnsweredSince, Clean, IInv, VarsOK, Times
<1> QED BY <1>1, <1>2, <1>3, LocksInvariant, PTL DEF Spec

-----------------------------------------------------------------------------
(***************************************************************************)
(* Time never runs backwards for a client.  For keys that are not Exempt (every   *)
(* put so far was made under the key's lock, which was never lost): the         *)
(* cached value is the newest anyone has (NewestCached), what a fetch is about    *)
(* to store is newer still (NewestFetched) and finds the entry empty              *)
(* (MissIsEmpty), a nested call was made after everything the outer key has       *)
(* delivered (NestedFloor), because what a key delivers is never newer than what  *)
(* the key its fetcher asks for has (NeedsAhead).                              *)
(***************************************************************************)
Past ==
    /\ \A k \in Keys : seen[k] <= now /\ (cache[k] # None => cache[k] <= now)
    /\ \A f \in Frames : (Answer(f) \/ pc[f] = "loading") /\ result[f] # None => result[f] <= now
    /\ \A f \in Frames : columns[f] # None => columns[f] <= now
    /\ \A f \in Frames : pc[f] # "idle" => floor[f] <= now

Quiet ==
    \A f \in Frames : pc[f] # "idle" =>
        /\ live[f] => Needs[key[f]] = None
        /\ ~ live[f] => floor[f] <= seen[key[f]]

NewestCached ==
    \A k \in Keys : ~ Exempt(k) /\ cache[k] # None =>
        /\ cache[k] >= seen[k]
        /\ \A f \in Frames : Has(f, k) => result[f] <= cache[k]

NewestFetched ==
    \A f \in Frames : pc[f] = "storing" /\ result[f] # None /\ ~ Exempt(key[f]) =>
        /\ result[f] >= seen[key[f]]
        /\ cache[key[f]] # None => result[f] >= cache[key[f]]
        /\ \A g \in Frames : Has(g, key[f]) => result[g] <= result[f]

MissIsEmpty ==
    \A f \in Frames : Fetching(f) /\ ~ live[f] /\ ~ Exempt(key[f]) => cache[key[f]] = None

NestedFloor ==
    \A f \in Frames : pc[f] = "nested" /\ ~ Exempt(key[f]) =>
        /\ seen[key[f]] <= floor[Nested[f]]
        /\ \A g \in Frames : Has(g, key[f]) => result[g] <= floor[Nested[f]]

NeedsAhead ==
    \A k \in Keys : Needs[k] # None /\ ~ Exempt(k) =>
        /\ seen[k] <= seen[Needs[k]]
        /\ cache[k] # None => cache[k] <= seen[Needs[k]]
        /\ \A f \in Frames : Answer(f) /\ key[f] = k => result[f] <= seen[Needs[k]]

AboveFloor ==
    \A f \in Frames : Answer(f) /\ (live[f] \/ ~ Exempt(key[f])) => result[f] >= floor[f]

Ages ==
    /\ Past /\ Quiet /\ NewestCached /\ NewestFetched /\ MissIsEmpty
    /\ NestedFloor /\ NeedsAhead /\ AboveFloor

\* Two calls are inside one key's lock only if it was lost.
LEMMA InsideAlone ==
    ASSUME IInv, NEW f \in Frames, NEW g \in Frames, f # g, key[f] = key[g],
           pc[f] \in Holding, pc[g] \in Holding
    PROVE  key[f] \in lost
BY DEF IInv, LocksInv, LocksOwned, LocksCurrent, Handed

\* The facts of a step that the proofs below share.
AgeStep ==
    /\ IInv /\ IInv' /\ Flow /\ Ages /\ VarsOK /\ VarsOK'
    /\ \A f \in Frames : pc[f] # "idle" => key[f] \in Keys
    /\ \A f \in Frames : pc'[f] # "idle" => key'[f] \in Keys
    /\ \A f \in Frames : pc[f] # "idle" /\ pc'[f] # "idle" => key'[f] = key[f]
    /\ \A k \in Keys : ~ Exempt(k)' => ~ Exempt(k) /\ k \notin bare' /\ k \notin lost
    /\ now \in Int /\ now' \in Int
    /\ \A k \in Keys : seen[k] \in Int /\ seen'[k] \in Int
    /\ \A k \in Keys : (cache[k] # None => cache[k] \in Int) /\ (cache'[k] # None => cache'[k] \in Int)
    /\ \A f \in Frames : /\ floor[f] \in Int /\ floor'[f] \in Int
                         /\ columns[f] # None => columns[f] \in Int
                         /\ columns'[f] # None => columns'[f] \in Int
                         /\ result[f] # None => result[f] \in Int
                         /\ result'[f] # None => result'[f] \in Int

LEMMA AgeStepFacts ==
    ASSUME IInv, Ages, [Next]_vars
    PROVE  AgeStep
<1>1. IInv' /\ Flow /\ VarsOK /\ VarsOK'
  BY TypeStep, CallsStep, LocksStep, FlowStep DEF IInv
<1>2. /\ \A f \in Frames : pc[f] # "idle" => key[f] \in Keys
      /\ \A f \in Frames : pc'[f] # "idle" => key'[f] \in Keys
  BY <1>1 DEF IInv, CallsHaveKeys, VarsOK
<1>3. \A f \in Frames : pc[f] # "idle" /\ pc'[f] # "idle" => key'[f] = key[f]
  BY <1>1 DEF Flow, CallsFrom
<1>4. \A k \in Keys : ~ Exempt(k)' => ~ Exempt(k) /\ k \notin bare' /\ k \notin lost
  BY <1>1 DEF Flow, Exempt
<1>5. /\ now \in Int /\ now' \in Int
      /\ \A k \in Keys : seen[k] \in Int /\ seen'[k] \in Int
      /\ \A k \in Keys : (cache[k] # None => cache[k] \in Int) /\ (cache'[k] # None => cache'[k] \in Int)
      /\ \A f \in Frames : /\ floor[f] \in Int /\ floor'[f] \in Int
                           /\ columns[f] # None => columns[f] \in Int
                           /\ columns'[f] # None => columns'[f] \in Int
                           /\ result[f] # None => result[f] \in Int
                           /\ result'[f] # None => result'[f] \in Int
  BY <1>1 DEF VarsOK, Times
<1> QED BY <1>1, <1>2, <1>3, <1>4, <1>5 DEF AgeStep

\* Where the value cached for a key that is not Exempt came from.
LEMMA CachedFrom ==
    ASSUME AgeStep, NEW k \in Keys, ~ Exempt(k)', cache'[k] # None
    PROVE  \/ cache'[k] = cache[k]
           \/ \E f \in Frames : /\ pc[f] = "storing" /\ pc'[f] = "releasing"
                                /\ key[f] = k /\ cache'[k] = result[f]
BY DEF AgeStep, Flow, CacheFrom

\* Where what a call is about to return came from.
LEMMA AnswerFrom ==
    ASSUME AgeStep, NEW f \in Frames, NEW k \in Keys, Has(f, k)'
    PROVE  \/ Has(f, k) /\ result'[f] = result[f]
           \/ /\ pc[f] = "storing" /\ key[f] = k /\ result'[f] = result[f] /\ result[f] # None
              /\ cache'[k] = result[f]
           \/ /\ pc[f] = "loading" /\ result'[f] = result[f] /\ result[f] # None
              /\ key[f] = k /\ k \in bare'
           \/ /\ pc[f] \in {"idle", "row", "checking"}
              /\ key'[f] = k /\ cache[k] # None /\ result'[f] = cache[k] /\ ~ live'[f]
<1>1. pc'[f] \in {"releasing", "returned"} /\ key'[f] = k /\ result'[f] # None
  BY DEF Has
<1>2. pc[f] # "idle" => key[f] = k
  BY <1>1 DEF AgeStep
<1> QED BY <1>1, <1>2 DEF AgeStep, Flow, AnswersFrom, Has

LEMMA PastStep ==
    ASSUME AgeStep
    PROVE  Past'
<1> USE DEF AgeStep
<1>1. Past
  BY DEF Ages
<1>2. now <= now'
  BY DEF Flow
<1>3. \A k \in Keys : seen'[k] <= now'
  <2> SUFFICES ASSUME NEW k \in Keys PROVE seen'[k] <= now'
    OBVIOUS
  <2>1. seen'[k] = seen[k] \/ \E f \in Frames : Has(f, k) /\ seen'[k] = result[f]
    BY DEF Flow, SeenFrom
  <2> QED BY <1>1, <1>2, <2>1 DEF Past, Has, Answer
<1>4. \A k \in Keys : cache'[k] # None => cache'[k] <= now'
  <2> SUFFICES ASSUME NEW k \in Keys, cache'[k] # None PROVE cache'[k] <= now'
    OBVIOUS
  <2>1. \/ cache'[k] = cache[k]
        \/ \E f \in Frames : pc[f] \in {"storing", "loading"} /\ cache'[k] = result[f]
        \/ \E f \in Frames : columns[f] # None /\ cache'[k] = columns[f]
    BY DEF Flow, CacheFrom
  <2> QED BY <1>1, <1>2, <2>1 DEF Past, Answer
<1>5. \A f \in Frames : (Answer(f)' \/ pc'[f] = "loading") /\ result'[f] # None => result'[f] <= now'
  <2> SUFFICES ASSUME NEW f \in Frames, Answer(f)' \/ pc'[f] = "loading", result'[f] # None
               PROVE  result'[f] <= now'
    OBVIOUS
  <2>1. CASE pc'[f] = "storing"
    <3>1. pc[f] = "nested" => Nested[f] \in Frames
      BY FrameFacts DEF IInv, NestedCalls
    <3>2. \/ pc[f] = "storing" /\ result'[f] = result[f]
          \/ result'[f] = now
          \/ pc[f] = "nested" /\ pc[Nested[f]] = "returned" /\ result'[f] = result[Nested[f]]
      BY <2>1 DEF Flow, FetchedFrom
    <3> QED BY <1>1, <1>2, <3>1, <3>2 DEF Past, Answer
  <2>2. CASE pc'[f] = "loading"
    <3>1. (pc[f] = "loading" /\ result'[f] = result[f]) \/ result'[f] \in 0..now
      BY <2>2 DEF Flow, RowsFrom
    <3> QED BY <1>1, <1>2, <3>1 DEF Past
  <2>3. CASE pc'[f] \in {"releasing", "returned"}
    <3>1. PICK k \in Keys : k = key'[f]
      BY <2>3
    <3>2. Has(f, k)'
      BY <2>3, <3>1 DEF Has
    <3> QED BY <1>1, <1>2, <3>2, AnswerFrom DEF Past, Answer, Has
  <2> QED BY <2>1, <2>2, <2>3 DEF Answer
<1>7. \A f \in Frames : columns'[f] # None => columns'[f] <= now'
  BY <1>1, <1>2 DEF Past, Flow, ColumnsFrom
<1>6. \A f \in Frames : pc'[f] # "idle" => floor'[f] <= now'
  <2> SUFFICES ASSUME NEW f \in Frames, pc'[f] # "idle" PROVE floor'[f] <= now'
    OBVIOUS
  <2>1. (pc[f] # "idle" /\ floor'[f] = floor[f]) \/ floor'[f] = now \/ floor'[f] = seen[key'[f]]
    BY DEF Flow, CallsFrom
  <2>2. key'[f] \in Keys
    OBVIOUS
  <2>3. seen[key'[f]] <= now
    BY <1>1, <2>2 DEF Past
  <2> QED BY <1>1, <1>2, <2>1, <2>2, <2>3 DEF Past
<1> QED BY <1>3, <1>4, <1>5, <1>6, <1>7 DEF Past

LEMMA QuietStep ==
    ASSUME AgeStep
    PROVE  Quiet'
<1> USE DEF AgeStep
<1> SUFFICES ASSUME NEW f \in Frames, pc'[f] # "idle"
             PROVE  /\ live'[f] => Needs[key'[f]] = None
                    /\ ~ live'[f] => floor'[f] <= seen'[key'[f]]
  BY DEF Quiet
<1>1. Quiet /\ key'[f] \in Keys /\ seen'[key'[f]] >= seen[key'[f]]
  BY DEF Ages, Flow, SeenFrom
<1>2. CASE pc[f] # "idle"
  <2>1. key'[f] = key[f] /\ live'[f] = live[f] /\ floor'[f] = floor[f]
    BY <1>2 DEF Flow, CallsFrom
  <2>3. live[f] => Needs[key[f]] = None
    BY <1>1, <1>2 DEF Quiet
  <2>4. ~ live[f] => floor[f] <= seen[key[f]]
    BY <1>1, <1>2 DEF Quiet
  <2> QED BY <1>1, <2>1, <2>3, <2>4
<1>3. CASE pc[f] = "idle"
  <2>1. /\ floor'[f] = IF live'[f] THEN now ELSE seen[key'[f]]
        /\ live'[f] => Needs[key'[f]] = None
    BY <1>3 DEF Flow, CallsFrom
  <2> QED BY <1>1, <2>1
<1> QED BY <1>2, <1>3

LEMMA NewestCachedStep ==
    ASSUME AgeStep
    PROVE  NewestCached'
<1> USE DEF AgeStep
<1> SUFFICES ASSUME NEW k \in Keys, ~ Exempt(k)', cache'[k] # None
             PROVE  /\ cache'[k] >= seen'[k]
                    /\ \A f \in Frames : Has(f, k)' => result'[f] <= cache'[k]
  BY DEF NewestCached
<1>1. /\ NewestCached /\ NewestFetched /\ ~ Exempt(k)
      /\ seen'[k] = seen[k] \/ \E f \in Frames : Has(f, k) /\ seen'[k] = result[f]
  BY DEF Ages, Flow, SeenFrom
<1>2. cache[k] # None => cache'[k] >= cache[k]
  BY <1>1, CachedFrom DEF NewestFetched
<1>3. /\ seen[k] <= cache'[k]
      /\ \A f \in Frames : Has(f, k) => result[f] <= cache'[k]
  <2>1. CASE cache'[k] = cache[k]
    BY <1>1, <2>1 DEF NewestCached
  <2>2. CASE \E f \in Frames : pc[f] = "storing" /\ key[f] = k /\ cache'[k] = result[f]
    BY <1>1, <2>2 DEF NewestFetched
  <2> QED BY <2>1, <2>2, CachedFrom
<1>4. ASSUME NEW f \in Frames, Has(f, k)' PROVE result'[f] <= cache'[k]
  BY <1>2, <1>3, <1>4, AnswerFrom
<1> QED BY <1>1, <1>3, <1>4 DEF Has

LEMMA MissIsEmptyStep ==
    ASSUME AgeStep
    PROVE  MissIsEmpty'
<1> USE DEF AgeStep
<1> SUFFICES ASSUME NEW f \in Frames, NEW k \in Keys, Fetching(f)', ~ live'[f], key'[f] = k,
                    ~ Exempt(k)', cache'[k] # None
             PROVE  FALSE
  BY DEF MissIsEmpty, Fetching
<1>1. pc'[f] # "idle" /\ pc[f] \in Holding /\ pc[f] # "idle" /\ pc'[f] # "releasing"
  BY DEF Fetching, Flow, FetchingFrom, Holding
<1>2. key[f] = k /\ live'[f] = live[f]
  BY <1>1 DEF Flow, CallsFrom
<1>3. ~ Exempt(k) /\ k \notin lost
  OBVIOUS
<1>4. cache[k] = None
  <2>1. CASE Fetching(f)
    BY <1>2, <1>3, <2>1 DEF Ages, MissIsEmpty
  <2>2. CASE ~ Fetching(f)
    BY <1>2, <2>2 DEF Flow, FetchingFrom, Hit
  <2> QED BY <2>1, <2>2
<1>5. PICK g \in Frames : pc[g] = "storing" /\ pc'[g] = "releasing" /\ key[g] = k
  BY <1>4, CachedFrom
<1>6. g # f /\ pc[g] \in Holding
  BY <1>1, <1>5 DEF Holding
<1> QED BY <1>1, <1>2, <1>3, <1>5, <1>6, InsideAlone

\* A call inside its key's lock, past its second look-up and staying so, is alone, and
\* nobody was served the key from the cache.
LEMMA AloneInside ==
    ASSUME AgeStep, NEW f \in Frames, Fetching(f), key[f] \notin lost
    PROVE  \A g \in Frames : pc[g] = "storing" /\ key[g] = key[f] => g = f
<1>1. \A g \in Frames : Fetching(g) => pc[g] \in Holding
  BY DEF Fetching, Holding
<1> QED BY <1>1, InsideAlone DEF AgeStep, Fetching

\* While a call fetches, nobody else is served its key.
LEMMA ServedBefore ==
    ASSUME AgeStep, NEW f \in Frames, Fetching(f), ~ live[f], NEW k \in Keys, key[f] = k,
           ~ Exempt(k)'
    PROVE  \A g \in Frames : g # f /\ Has(g, k)' => Has(g, k) /\ result'[g] = result[g]
<1> SUFFICES ASSUME NEW g \in Frames, g # f, Has(g, k)'
             PROVE  Has(g, k) /\ result'[g] = result[g]
  OBVIOUS
<1>1. ~ Exempt(k) /\ k \notin lost /\ k \notin bare'
  BY DEF AgeStep
<1>2. cache[k] = None
  BY <1>1 DEF AgeStep, Ages, MissIsEmpty
<1>3. ~ (pc[g] = "storing" /\ key[g] = k)
  BY <1>1, AloneInside
<1> QED BY <1>1, <1>2, <1>3, AnswerFrom

\* A call and the one its fetcher makes.
LEMMA NestedFacts ==
    ASSUME IInv, Quiet, NEW f \in Frames, pc[f] = "nested"
    PROVE  /\ Nested[f] \in Frames /\ key[Nested[f]] \in Keys /\ key[f] \in Keys
           /\ key[Nested[f]] = Needs[key[f]] /\ Needs[key[f]] # None
           /\ pc[Nested[f]] # "idle" /\ Nested[f] # f
           /\ ~ live[f]
           /\ ~ Exempt(key[f]) => ~ Exempt(key[Nested[f]])
<1>1. /\ Nested[f] \in Frames /\ key[Nested[f]] \in Keys /\ key[Nested[f]] = Needs[key[f]]
      /\ Needs[key[Nested[f]]] = None
  BY CleanNeeds
<1>2. pc[Nested[f]] # "idle" /\ Nested[f] # f /\ key[f] \in Keys
  BY FrameFacts DEF IInv, NestedCalls, CallsHaveKeys, VarsOK
<1>3. Needs[key[f]] # None
  BY <1>1, CacheAssumption
<1>4. ~ live[f]
  BY <1>3 DEF Quiet
<1>5. None \notin bare \union lost
  BY CacheAssumption DEF IInv, VarsOK
<1>6. ~ Exempt(key[f]) => ~ Exempt(key[Nested[f]])
  BY <1>1, <1>5 DEF Exempt
<1> QED BY <1>1, <1>2, <1>3, <1>4, <1>6

LEMMA NestedFloorStep ==
    ASSUME AgeStep
    PROVE  NestedFloor'
<1> USE DEF AgeStep
<1> SUFFICES ASSUME NEW f \in Frames, NEW k \in Keys, pc'[f] = "nested", key'[f] = k, ~ Exempt(k)'
             PROVE  /\ seen'[k] <= floor'[Nested[f]]
                    /\ \A g \in Frames : Has(g, k)' => result'[g] <= floor'[Nested[f]]
  BY DEF NestedFloor, Has
<1>1. /\ ~ Exempt(k) /\ NestedFloor /\ NeedsAhead /\ Quiet
      /\ seen'[k] = seen[k] \/ \E h \in Frames : Has(h, k) /\ seen'[k] = result[h]
  BY DEF Ages, Flow, SeenFrom
<1>2. \/ pc[f] = "nested"
      \/ pc[f] = "fetching" /\ Needs[key[f]] # None /\ floor'[Nested[f]] = seen[Needs[key[f]]]
  BY DEF Flow, FetchingFrom
<1>3. pc[f] # "idle" /\ key[f] = k /\ Fetching(f)
  BY <1>2 DEF Fetching
<1>4. f \in Requests /\ Nested[f] \in Frames /\ pc'[Nested[f]] # "idle"
  BY FrameFacts DEF IInv, NestedCalls
<1>5. ~ live[f]
  BY <1>1, <1>2, <1>3, NestedFacts DEF Quiet
<1>6. \A g \in Frames : Has(g, k)' => Has(g, k) /\ result'[g] = result[g]
  BY <1>3, <1>5, ServedBefore DEF Has
<1>7. CASE pc[f] = "nested"
  <2>1. floor'[Nested[f]] = floor[Nested[f]]
    BY <1>1, <1>4, <1>7, NestedFacts DEF Flow, CallsFrom
  <2>2. /\ seen[k] <= floor[Nested[f]]
        /\ \A g \in Frames : Has(g, k) => result[g] <= floor[Nested[f]]
    BY <1>1, <1>3, <1>7 DEF NestedFloor
  <2> QED BY <1>1, <1>6, <2>1, <2>2
<1>8. CASE pc[f] = "fetching"
  <2>1. Needs[k] # None /\ floor'[Nested[f]] = seen[Needs[k]]
    BY <1>2, <1>3, <1>8
  <2>2. seen[k] <= seen[Needs[k]] /\ \A g \in Frames : Has(g, k) => result[g] <= seen[Needs[k]]
    BY <1>1, <2>1 DEF NeedsAhead, Has, Answer
  <2> QED BY <1>1, <1>6, <2>1, <2>2
<1> QED BY <1>2, <1>7, <1>8

LEMMA NewestFetchedStep ==
    ASSUME AgeStep
    PROVE  NewestFetched'
<1> USE DEF AgeStep
<1> SUFFICES ASSUME NEW f \in Frames, NEW k \in Keys, pc'[f] = "storing", result'[f] # None,
                    key'[f] = k, ~ Exempt(k)'
             PROVE  /\ result'[f] >= seen'[k]
                    /\ cache'[k] # None => result'[f] >= cache'[k]
                    /\ \A g \in Frames : Has(g, k)' => result'[g] <= result'[f]
  BY DEF NewestFetched, Has
<1>1. /\ ~ Exempt(k) /\ k \notin lost /\ Past /\ Quiet
      /\ NestedFloor /\ NewestFetched /\ AboveFloor /\ MissIsEmpty
      /\ seen'[k] = seen[k] \/ \E h \in Frames : Has(h, k) /\ seen'[k] = result[h]
  BY DEF Ages, Flow, SeenFrom
<1>2. \/ pc[f] = "storing" /\ result'[f] = result[f]
      \/ pc[f] = "fetching" /\ result'[f] = now
      \/ pc[f] = "nested" /\ pc[Nested[f]] = "returned" /\ result'[f] = result[Nested[f]]
  BY DEF Flow, FetchedFrom
<1>3. pc[f] # "idle" /\ key[f] = k /\ Fetching(f)
  BY <1>2 DEF Fetching
<1>4. \A g \in Frames : pc[g] = "storing" /\ key[g] = k => g = f
  BY <1>1, <1>3, AloneInside
<1>5. cache'[k] # None => cache'[k] = cache[k]
  BY <1>4, CachedFrom
<1>6. \A g \in Frames : Has(g, k)' =>
          \/ Has(g, k) /\ result'[g] = result[g]
          \/ cache[k] # None /\ result'[g] = cache[k]
  BY <1>4, AnswerFrom DEF Has
<1>7. CASE pc[f] = "storing" /\ result'[f] = result[f]
  <2>1. /\ result[f] >= seen[k]
        /\ cache[k] # None => result[f] >= cache[k]
        /\ \A g \in Frames : Has(g, k) => result[g] <= result[f]
    BY <1>1, <1>3, <1>7 DEF NewestFetched
  <2> QED BY <1>1, <1>5, <1>6, <1>7, <2>1
<1>8. CASE result'[f] = now
  <2>1. /\ now >= seen[k]
        /\ cache[k] # None => now >= cache[k]
        /\ \A g \in Frames : Has(g, k) => result[g] <= now
    BY <1>1 DEF Past, Has, Answer
  <2> QED BY <1>1, <1>5, <1>6, <1>8, <2>1
<1>9. CASE pc[f] = "nested" /\ pc[Nested[f]] = "returned" /\ result'[f] = result[Nested[f]]
  <2> DEFINE g == Nested[f]
  <2>1. g \in Frames /\ ~ live[f] /\ ~ Exempt(key[g])
    BY <1>1, <1>3, <1>9, NestedFacts
  <2>2. cache[k] = None
    BY <1>1, <1>3, <2>1 DEF MissIsEmpty
  <2>3. result[g] >= floor[g]
    BY <1>1, <1>9, <2>1 DEF AboveFloor, Answer
  <2>4. seen[k] <= floor[g] /\ \A h \in Frames : Has(h, k) => result[h] <= floor[g]
    BY <1>1, <1>3, <1>9 DEF NestedFloor
  <2>5. result'[f] >= seen'[k]
    BY <1>1, <1>9, <2>1, <2>3, <2>4 DEF Has
  <2>6. \A h \in Frames : Has(h, k)' => result'[h] <= result'[f]
    BY <1>6, <1>9, <2>1, <2>2, <2>3, <2>4 DEF Has
  <2> QED BY <1>5, <2>2, <2>5, <2>6
<1> QED BY <1>2, <1>7, <1>8, <1>9

LEMMA NeedsAheadStep ==
    ASSUME AgeStep
    PROVE  NeedsAhead'
<1> USE DEF AgeStep
<1> SUFFICES ASSUME NEW k \in Keys, Needs[k] # None, ~ Exempt(k)'
             PROVE  /\ seen'[k] <= seen'[Needs[k]]
                    /\ cache'[k] # None => cache'[k] <= seen'[Needs[k]]
                    /\ \A f \in Frames : Answer(f)' /\ key'[f] = k => result'[f] <= seen'[Needs[k]]
  BY DEF NeedsAhead
<1> DEFINE j == Needs[k]
<1>1. j \in Keys /\ seen'[j] >= seen[j] /\ ~ Exempt(k) /\ Quiet /\ Side[k] = None
  BY CacheAssumption DEF Ages, Flow, SeenFrom
<1>2. /\ seen[k] <= seen[j]
      /\ cache[k] # None => cache[k] <= seen[j]
      /\ \A f \in Frames : Answer(f) /\ key[f] = k => result[f] <= seen[j]
  BY <1>1 DEF Ages, NeedsAhead
<1>3. seen'[k] <= seen'[j]
  <2>1. seen'[k] = seen[k] \/ \E f \in Frames : Has(f, k) /\ seen'[k] = result[f]
    BY DEF Flow, SeenFrom
  <2> QED BY <1>1, <1>2, <2>1 DEF Has, Answer
<1>4. ASSUME cache'[k] # None PROVE cache'[k] <= seen'[j]
  <2>1. \/ cache'[k] = cache[k]
        \/ \E f \in Frames : pc[f] = "storing" /\ key[f] = k /\ cache'[k] = result[f]
    BY <1>4, CachedFrom
  <2> QED BY <1>1, <1>2, <1>4, <2>1 DEF Answer
<1>5. ASSUME NEW f \in Frames, Answer(f)', key'[f] = k PROVE result'[f] <= seen'[j]
  <2>1. CASE pc'[f] = "storing"
    <3>1. key[f] = k /\ result'[f] # None /\ pc[f] # "idle"
      BY <1>5, <2>1 DEF Answer, Flow, FetchedFrom
    <3>3. \/ pc[f] = "storing" /\ result'[f] = result[f]
          \/ pc[f] = "nested" /\ seen'[key[Nested[f]]] >= result'[f]
      BY <2>1, <3>1 DEF Flow, FetchedFrom
    <3> QED BY <1>1, <1>2, <3>1, <3>3, NestedFacts DEF Answer
  <2>2. CASE pc'[f] # "storing"
    <3>1. Has(f, k)'
      BY <1>5, <2>2 DEF Has, Answer
    <3> QED BY <1>1, <1>2, <3>1, AnswerFrom DEF Has, Answer
  <2> QED BY <2>1, <2>2
<1> QED BY <1>3, <1>4, <1>5

LEMMA AboveFloorStep ==
    ASSUME AgeStep
    PROVE  AboveFloor'
<1> USE DEF AgeStep
<1> SUFFICES ASSUME NEW f \in Frames, NEW k \in Keys, Answer(f)', key'[f] = k,
                    live'[f] \/ ~ Exempt(k)'
             PROVE  result'[f] >= floor'[f]
  BY DEF AboveFloor, Answer
<1>1. /\ AboveFloor /\ Past /\ Quiet /\ NestedFloor /\ NewestCached
      /\ ~ Exempt(k)' => ~ Exempt(k)
  BY DEF Ages
<1>2. pc[f] # "idle" => key[f] = k /\ live'[f] = live[f] /\ floor'[f] = floor[f]
  BY DEF Flow, CallsFrom, Answer
<1>3. CASE Answer(f) /\ result'[f] = result[f]
  BY <1>1, <1>2, <1>3 DEF AboveFloor, Answer
<1>4. CASE pc[f] # "idle" /\ result'[f] = now
  BY <1>1, <1>2, <1>4 DEF Past
<1>5. CASE pc[f] = "nested" /\ pc[Nested[f]] = "returned" /\ result'[f] = result[Nested[f]]
  <2> DEFINE g == Nested[f]
  <2>1. g \in Frames /\ ~ live[f] /\ ~ Exempt(k) /\ ~ Exempt(key[g])
    BY <1>1, <1>2, <1>5, NestedFacts
  <2>2. result[g] >= floor[g]
    BY <1>1, <1>5, <2>1 DEF AboveFloor, Answer
  <2>3. seen[k] <= floor[g] /\ floor[f] <= seen[k]
    BY <1>1, <1>2, <1>5, <2>1 DEF NestedFloor, Quiet
  <2> QED BY <1>2, <1>5, <2>1, <2>2, <2>3 DEF Answer
<1>6. CASE /\ pc[f] \in {"idle", "row", "checking"}
           /\ result'[f] = cache[k] /\ ~ live'[f]
  <2>1. ~ Exempt(k) /\ cache[k] # None
    BY <1>1, <1>6 DEF Answer
  <2>2. cache[k] >= seen[k]
    BY <1>1, <2>1 DEF NewestCached
  <2>3. floor'[f] <= seen[k]
    <3>1. CASE pc[f] = "idle"
      BY <1>6, <3>1 DEF Flow, CallsFrom, Answer
    <3>2. CASE pc[f] # "idle"
      BY <1>1, <1>2, <1>6, <3>2 DEF Quiet
    <3> QED BY <1>6, <3>1, <3>2
  <2> QED BY <1>6, <2>1, <2>2, <2>3
<1>7. CASE pc'[f] = "storing"
  <2>1. \/ pc[f] = "storing" /\ result'[f] = result[f]
        \/ pc[f] # "idle" /\ result'[f] = now
        \/ pc[f] = "nested" /\ pc[Nested[f]] = "returned" /\ result'[f] = result[Nested[f]]
    BY <1>7 DEF Answer, Flow, FetchedFrom
  <2> QED BY <1>3, <1>4, <1>5, <2>1 DEF Answer
<1>8. CASE pc'[f] # "storing"
  <2>1. Has(f, k)'
    BY <1>8 DEF Has, Answer
  <2>2. \/ Has(f, k) /\ result'[f] = result[f]
        \/ pc[f] = "storing" /\ result'[f] = result[f] /\ result[f] # None
        \/ pc[f] = "loading" /\ k \in bare' /\ key[f] = k
        \/ /\ pc[f] \in {"idle", "row", "checking"}
           /\ result'[f] = cache[k] /\ ~ live'[f]
    BY <2>1, AnswerFrom
  <2>3. ~ (pc[f] = "loading" /\ k \in bare' /\ key[f] = k)
    <3> SUFFICES ASSUME pc[f] = "loading", k \in bare', key[f] = k PROVE FALSE
      OBVIOUS
    <3>1. ~ live[f] /\ live'[f] = live[f]
      BY <1>2 DEF IInv, CallsHaveKeys
    <3>2. Exempt(k)'
      BY DEF Exempt
    <3> QED BY <3>1, <3>2
  <2> QED BY <1>3, <1>6, <2>2, <2>3 DEF Has, Answer
<1> QED BY <1>7, <1>8

\* A call for a key that was only put under its lock returns data no older than any call for its key had
\* returned when it was made, through hits, expiry, evictions, flushes and failed
\* fetches; a live call returns data read after it was made.
THEOREM ReadsNeverGoBackHolds == Spec => []ReadsNeverGoBack
<1>1. Init => Ages
  <2> SUFFICES ASSUME Init PROVE Ages
    OBVIOUS
  <2> USE DEF Init, Ages
  <2>1. Past /\ Quiet
    BY DEF Past, Quiet
  <2>2. NewestCached /\ NewestFetched /\ MissIsEmpty
    BY DEF NewestCached, NewestFetched, MissIsEmpty, Fetching
  <2>3. NestedFloor /\ NeedsAhead /\ AboveFloor
    <3>1. \A k \in Keys : Needs[k] # None => Needs[k] \in Keys
      BY CacheAssumption
    <3> QED BY <3>1 DEF NestedFloor, NeedsAhead, AboveFloor, Answer
  <2> QED BY <2>1, <2>2, <2>3
<1>2. IInv /\ Ages /\ [Next]_vars => Ages'
  <2> SUFFICES ASSUME IInv, Ages, [Next]_vars PROVE Ages'
    OBVIOUS
  <2>1. AgeStep
    BY AgeStepFacts
  <2> QED BY <2>1, PastStep, QuietStep, NewestCachedStep, NewestFetchedStep, MissIsEmptyStep,
             NestedFloorStep, NeedsAheadStep, AboveFloorStep DEF Ages
<1>3. IInv /\ Ages => ReadsNeverGoBack
  BY DEF Ages, AboveFloor, ReadsNeverGoBack, Answer
<1> QED BY <1>1, <1>2, <1>3, LocksInvariant, PTL DEF Spec

-----------------------------------------------------------------------------
(***************************************************************************)
(* transform_service.py's copy of the cache.                               *)
(***************************************************************************)
\* Every step of the transform cache - a read, a flush after a build, each half of a
\* wipe - is a step of the keyed cache or leaves its state alone.
LEMMA TransformStep == [TNext]_tvars => [Next]_vars
<1> SUFFICES ASSUME [TNext]_tvars PROVE [Next]_vars
  OBVIOUS
<1>1. ASSUME NEW f \in Requests, NEW k \in Keys, TAsk(f, k) PROVE Next
  BY <1>1 DEF TAsk, Next
<1>2. ASSUME NEW f \in Frames, TStep(f) PROVE Next
  BY <1>2 DEF TStep, Next
<1>3. ASSUME NEW k \in Keys, TDrop(k) PROVE Next
  BY <1>3 DEF TDrop, Next
<1>4. CASE BuildStores
  BY <1>4 DEF BuildStores, Next
<1>5. CASE TFlush \/ WipeFlush
  BY <1>5 DEF TFlush, WipeFlush, Next
<1>6. CASE WipeDelete
  BY <1>6 DEF WipeDelete, Next
<1>7. CASE WipeFails
  BY <1>7 DEF WipeFails, vars
<1>8. CASE UNCHANGED tvars
  BY <1>8 DEF tvars
<1> QED BY <1>1, <1>2, <1>3, <1>4, <1>5, <1>6, <1>7, <1>8 DEF TNext

\* The transform cache implements the keyed cache.
THEOREM TransformImplementsKeyed == TSpec => Spec
<1>1. TInit => Init
  BY DEF TInit
<1> QED BY <1>1, TransformStep, PTL DEF TSpec, Spec

\* So its fetches are single-flight under the same condition, and a trace that asks
\* for edges while it holds its own lock never waits in a circle.
THEOREM TransformSingleFlight == TSpec => [](SingleFlight /\ NoCircularWait)
BY TransformImplementsKeyed, SingleFlightHolds, NoCircularWaitHolds, PTL
\* So a client of a trace never goes back in time either, and a poll's flush sticks.
THEOREM TransformReadsForward == TSpec => [](ReadsNeverGoBack /\ FlushSticks)
BY TransformImplementsKeyed, ReadsNeverGoBackHolds, FlushSticksHolds, PTL

-----------------------------------------------------------------------------
\* What the deletes of clear_transform_lineage raise.
WipeBarrier ==
    /\ wipedAt \in Times /\ refilled \in SUBSET Keys /\ afterWipe \in [Frames -> BOOLEAN]
    /\ wipedAt <= now
    /\ ReadSince(wipedAt, refilled)
    /\ AnsweredSince({f \in Frames : afterWipe[f]}, wipedAt, refilled)

LEMMA WipeBarrierStep ==
    ASSUME IInv, WipeBarrier, [TNext]_tvars
    PROVE  WipeBarrier'
<1>0. [Next]_vars /\ VarsOK /\ VarsOK' /\ Flow
  BY TransformStep, TypeStep, FlowStep DEF IInv
<1>1. CASE WipeDelete
  <2>1. /\ wipedAt' = now' /\ refilled' = {k \in Keys : cache[k] # None} \union InHand
        /\ afterWipe' = [f \in Frames |-> FALSE]
        /\ UNCHANGED <<cache, pc, key, result, columns>>
    BY <1>1 DEF WipeDelete, Tick, callVars, sideVars
  <2>2. InHand \in SUBSET Keys
    <3>1. \A f \in Frames : pc[f] # "idle" => key[f] \in Keys
      BY <1>0 DEF IInv, CallsHaveKeys, VarsOK
    <3>2. \A f \in Frames : columns[f] # None => Side[key[f]] \in Keys
      BY <3>1, CacheAssumption DEF IInv, CallsHaveKeys
    <3> QED BY <3>1, <3>2, FrameFacts DEF InHand
  <2>3. PICK d \in SUBSET Keys : d = refilled'
    BY <2>1, <2>2
  <2>4. PICK a \in Times : a = wipedAt'
    BY <1>0, <2>1 DEF VarsOK
  <2>5. ReadSince(a, d)
    BY <2>1, <2>3, BarrierStart
  <2>6. ReadSince(a, d)'
    BY <2>1, <2>5 DEF ReadSince, CacheSince, FetchedSince, ColumnsSince, NestedSince, Answer
  <2>7. AnsweredSince({f \in Frames : afterWipe[f]}, wipedAt, refilled)'
    BY <2>1 DEF AnsweredSince
  <2> QED BY <1>0, <2>1, <2>3, <2>4, <2>6, <2>7 DEF WipeBarrier, VarsOK, Times
<1>2. CASE ~ WipeDelete
  <2>1. wipedAt' = wipedAt /\ refilled' = refilled
    BY <1>2 DEF TNext, TAsk, TStep, TDrop, BuildStores, TFlush, WipeFlush, WipeFails,
                wipeVars, tvars
  <2>2. Calls \/ afterWipe' = afterWipe
    BY <1>2 DEF TNext, TAsk, TStep, TDrop, BuildStores, TFlush, WipeFlush, WipeFails, tvars
  <2>3. /\ \A f \in Frames : afterWipe'[f] => afterWipe[f] \/ pc[f] = "idle"
        /\ afterWipe' \in [Frames -> BOOLEAN]
    <3>1. CASE Calls
      <4>1. \A f \in Frames : afterWipe'[f] => afterWipe[f] \/ pc[f] = "idle"
        BY <3>1 DEF Calls
      <4> QED BY <3>1, <4>1 DEF Calls, WipeBarrier
    <3>2. CASE afterWipe' = afterWipe
      BY <3>2 DEF WipeBarrier
    <3> QED BY <2>2, <3>1, <3>2
  <2>4. PICK d \in SUBSET Keys : d = refilled
    BY DEF WipeBarrier
  <2>5. PICK a \in Times : a = wipedAt
    BY DEF WipeBarrier
  <2>6. PICK S \in SUBSET Frames : S = {f \in Frames : afterWipe[f]}
    OBVIOUS
  <2>7. PICK T \in SUBSET Frames : T = {f \in Frames : afterWipe'[f]}
    OBVIOUS
  <2>8. a <= now /\ ReadSince(a, d) /\ AnsweredSince(S, a, d)
    BY <2>4, <2>5, <2>6 DEF WipeBarrier
  <2>9. \A f \in T : f \in S \/ pc[f] = "idle"
    BY <2>3, <2>6, <2>7
  <2>13. \A f \in Frames : pc[f] # "loading"
    BY NoTier DEF IInv, CallsHaveKeys
  <2>10. ReadSince(a, d)' /\ AnsweredSince(T, a, d)'
    BY <1>0, <2>8, <2>9, <2>13, BarrierStep
  <2>11. a = wipedAt' /\ d = refilled' /\ T = {f \in Frames : afterWipe[f]}'
    BY <2>1, <2>4, <2>5, <2>7
  <2>12. wipedAt' <= now'
    BY <1>0, <2>1 DEF WipeBarrier, Flow, VarsOK, Times
  <2> QED BY <2>3, <2>10, <2>11, <2>12 DEF WipeBarrier
<1> QED BY <1>1, <1>2

\* After a wipe of the stored lineage returned, a call is answered with what was stored
\* before it only if a read had put that into the cache, or had it in hand, between the
\* wipe's flush and its deletes.
THEOREM WipeSticksHolds == TSpec => []WipeSticks
<1>1. TInit => WipeBarrier
  <2> SUFFICES ASSUME TInit PROVE WipeBarrier
    OBVIOUS
  <2>1. ReadSince(wipedAt, refilled)
    BY DEF TInit, Init, ReadSince, CacheSince, FetchedSince, ColumnsSince, NestedSince, Answer
  <2>2. AnsweredSince({f \in Frames : afterWipe[f]}, wipedAt, refilled)
    BY DEF TInit, AnsweredSince
  <2> QED BY <2>1, <2>2, CacheAssumption DEF WipeBarrier, TInit, Init, Times
<1>2. IInv /\ WipeBarrier /\ [TNext]_tvars => WipeBarrier'
  BY WipeBarrierStep
<1>3. IInv /\ WipeBarrier => WipeSticks
  BY DEF WipeBarrier, WipeSticks, AnsweredSince, Clean, IInv, VarsOK, Times
<1>4. TSpec => []IInv
  BY TransformImplementsKeyed, LocksInvariant, PTL
<1> QED BY <1>1, <1>2, <1>3, <1>4, PTL DEF TSpec

=============================================================================
