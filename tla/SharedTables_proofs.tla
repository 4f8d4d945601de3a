------------------------- MODULE SharedTables_proofs -------------------------
(***************************************************************************)
(* What is kept of the tables that several requests read and append to:    *)
(* the registry of peer workspaces with what was cached of it, the feature *)
(* flag with its audit trail, and the stored analyses of the producers;    *)
(* for every number of threads, workspaces, producers, files and rows.     *)
(***************************************************************************)
EXTENDS PeerWorkspaces, ProducerAnalysis, FiniteSetTheorems, WellFoundedInduction,
        SequenceTheorems, TLAPS

-----------------------------------------------------------------------------
(***************************************************************************)
(* The smallest and the largest of a set of numbers: the greatest row and  *)
(* the highest version are chosen by what they are to be, and these say    *)
(* that there is one.                                                      *)
(***************************************************************************)
Less == {p \in Nat \X Nat : p[1] < p[2]}

\* The order of the naturals is well founded, as a set of pairs.
LEMMA LessWellFounded == IsWellFoundedOn(Less, Nat)
<1>1. Less = OpToRel(<, Nat)
  BY Zenon DEF OpToRel, Less
<1> QED BY <1>1, NatLessThanWellFounded, Zenon

\* A set of naturals that is not empty has a smallest member.
LEMMA SmallestOf ==
  ASSUME NEW S \in SUBSET Nat, S # {}
  PROVE  \E n \in S : \A m \in S : n <= m
<1>1. PICK x \in S : \A y \in S : ~ (<<y, x>> \in Less)
  BY LessWellFounded, WFMin
<1>2. ASSUME NEW m \in S PROVE x <= m
  <2>1. ~ (<<m, x>> \in Less)
    BY <1>1
  <2>2. m \in Nat /\ x \in Nat
    OBVIOUS
  <2> QED BY <2>1, <2>2 DEF Less
<1> QED BY <1>2

\* Nor can one that is bounded lack a largest.
LEMMA LargestOf ==
  ASSUME NEW N \in Nat, NEW S \in SUBSET (0..N), S # {}
  PROVE  \E n \in S : \A m \in S : m <= n
<1> DEFINE D == {d \in 0..N : N - d \in S}
<1>1. D \in SUBSET Nat
  OBVIOUS
<1>2. D # {}
  <2>1. PICK m \in S : m \in 0..N
    OBVIOUS
  <2>2. N - m \in 0..N /\ N - (N - m) = m
    BY <2>1
  <2>3. N - m \in D
    BY <2>1, <2>2
  <2> QED BY <2>3
<1>3. PICK d \in D : \A e \in D : d <= e
  <2> HIDE DEF D
  <2> QED BY <1>1, <1>2, SmallestOf
<1>4. d \in 0..N /\ N - d \in S
  OBVIOUS
<1>5. ASSUME NEW m \in S PROVE m <= N - d
  <2>1. m \in 0..N
    OBVIOUS
  <2>2. N - m \in 0..N /\ N - (N - m) = m
    BY <2>1
  <2>3. N - m \in D
    BY <2>1, <2>2
  <2>4. d <= N - m
    BY <1>3, <2>3
  <2> QED BY <2>1, <1>4, <2>4
<1> QED BY <1>4, <1>5

-----------------------------------------------------------------------------
(***************************************************************************)
(* Peer workspaces.                                                        *)
(***************************************************************************)
PeerRow == [wid : Wids, enabled : BOOLEAN]
PeerPcs == {"idle", "list", "keep", "lookup", "build", "answered", "invalidate", "evict",
            "audit"}
PeerCalls ==
    [pc : PeerPcs, wid : Wids \union {"none"}, resolving : BOOLEAN, seen : 0..MaxRows,
     row : 0..MaxRows, turn : FlagTexts, from : 0..MaxRows, answer : Answers]

\* Resolved, of a registry that is given: a fact about it holds of any state.
EnabledIn(R, w, n) == {i \in 1..n : R[i].wid = w /\ R[i].enabled}
ResolvedIn(R, w, n) == NewestOf(EnabledIn(R, w, n))

\* r is what some list of at least F rows says of w.
SinceIn(R, F, w, r) == \E n \in F..Len(R) : r = ResolvedIn(R, w, n)

\* Whatever can still become an answer for w comes from a list of at least F rows.
FreshIn(R, F, w, clients, cache, calls) ==
    /\ clients[w] # NoPeer => SinceIn(R, F, w, clients[w])
    /\ cache # NoList => SinceIn(R, F, w, ResolvedIn(R, w, cache))
    /\ \A t \in PeerThreads :
         /\ calls[t].pc = "keep" => SinceIn(R, F, w, ResolvedIn(R, w, calls[t].seen))
         /\ calls[t].pc = "build" /\ calls[t].wid = w => SinceIn(R, F, w, calls[t].row)

Fresh(F, w) == FreshIn(registry, F, w, peerClients, peersCache, peerCall)

CallInRange(c, N) ==
    /\ c.from <= N
    /\ c.pc = "keep" => c.seen <= N
    /\ c.pc \notin {"idle", "audit"} => c.wid \in Wids

PeerType ==
    /\ registry \in Seq(PeerRow) /\ Len(registry) <= MaxRows
    /\ peersCache \in 0..MaxRows \union {NoList}
    /\ peersCache # NoList => peersCache <= Len(registry)
    /\ peerClients \in [Wids -> 0..MaxRows]
    /\ peerCall \in [PeerThreads -> PeerCalls]
    /\ \A t \in PeerThreads : CallInRange(peerCall[t], Len(registry))
    /\ heldOver \subseteq Wids

FlagType ==
    /\ flagRow \in FlagTexts /\ flagAudit \in FlagTexts /\ auditsOut \subseteq FlagTexts
    /\ flagTurns \in 0..MaxToggles /\ auditBlurred \in BOOLEAN

Asking == {"list", "keep", "lookup", "build"}

\* What is cached or in hand is some list's; it is the present one's unless the eviction
\* is to come or came too early; and for a request it is from after its beginning.
FreshInv ==
    /\ \A w \in Wids : Fresh(0, w)
    /\ \A w \in Wids : w \in heldOver \/ Registering(w) \/ Fresh(Len(registry), w)
    /\ \A t \in PeerThreads : peerCall[t].pc \in Asking =>
         peerCall[t].wid \in heldOver \/ Fresh(peerCall[t].from, peerCall[t].wid)

\* One change of the flag at a time, and its audit row tells the flag's value.
AuditInv ==
    ~auditBlurred =>
        /\ \A t, u \in PeerThreads : peerCall[t].pc = "audit" /\ peerCall[u].pc = "audit" => t = u
        /\ \A t \in PeerThreads : peerCall[t].pc = "audit" => peerCall[t].turn = flagRow
        /\ (\A t \in PeerThreads : peerCall[t].pc # "audit") => flagAudit = flagRow

\* PeerAnswersCurrent, of a registry that is given.
AnswersInv ==
    \A t \in PeerThreads :
        peerCall[t].pc = "answered" /\ peerCall[t].answer = "chosen" =>
            \/ peerCall[t].wid \in heldOver
            \/ SinceIn(registry, peerCall[t].from, peerCall[t].wid, peerCall[t].row)

PeerInv == PeerType /\ FlagType /\ FreshInv /\ AnswersInv /\ AuditInv

-----------------------------------------------------------------------------
\* The row that get_peer finds in the list as it is.
LEMMA ResolvedHere ==
  ASSUME NEW w, NEW n
  PROVE  Resolved(w, n) = ResolvedIn(registry, w, n)
BY DEF Resolved, EnabledRows, ResolvedIn, EnabledIn

\* get_peer's choice is one of the rows it was given.
LEMMA NewestIsOne ==
  ASSUME NEW N \in Nat, NEW rows \in SUBSET (1..N)
  PROVE  NewestOf(rows) \in 0..N
<1>1. CASE rows = {}
  BY <1>1 DEF NewestOf, NoPeer
<1>2. CASE rows # {}
  <2>1. rows \in SUBSET (0..N)
    OBVIOUS
  <2>2. \E n \in rows : \A m \in rows : m <= n
    BY <1>2, <2>1, LargestOf
  <2>3. NewestOf(rows) \in rows
    <3> DEFINE Greatest(i) == \A j \in rows : j <= i
    <3>1. \E i \in rows : Greatest(i)
      BY <2>2
    <3>2. (CHOOSE i \in rows : Greatest(i)) \in rows
      <4> HIDE DEF Greatest
      <4> QED BY <3>1, Zenon
    <3> QED BY <1>2, <3>2 DEF NewestOf
  <2>4. NewestOf(rows) \in 1..N
    BY <2>3
  <2> QED BY <2>4
<1> QED BY <1>1, <1>2

\* It is a row of that list, or none.
LEMMA ResolvedInRange ==
  ASSUME NEW R, NEW w, NEW n \in Nat
  PROVE  ResolvedIn(R, w, n) \in 0..n
<1>1. EnabledIn(R, w, n) \in SUBSET (1..n)
  BY DEF EnabledIn
<1> QED BY <1>1, NewestIsOne DEF ResolvedIn

\* A list that was read is not changed by a new row, nor is the choice of another
\* workspace.
LEMMA RowAdded ==
  ASSUME NEW R \in Seq(PeerRow), NEW e \in PeerRow, NEW w
  PROVE  /\ Len(Append(R, e)) = Len(R) + 1 /\ Append(R, e) \in Seq(PeerRow)
         /\ \A n \in 0..Len(R) : ResolvedIn(Append(R, e), w, n) = ResolvedIn(R, w, n)
         /\ e.wid # w => ResolvedIn(Append(R, e), w, Len(R) + 1) = ResolvedIn(R, w, Len(R))
<1> DEFINE Q == Append(R, e)
<1>1. /\ Len(Q) = Len(R) + 1 /\ Q \in Seq(PeerRow)
      /\ \A i \in 1..Len(R) : Q[i] = R[i]
      /\ Q[Len(R) + 1] = e
  BY AppendProperties
<1> HIDE DEF Q
<1>2. ASSUME NEW n \in 0..Len(R) PROVE EnabledIn(Q, w, n) = EnabledIn(R, w, n)
  BY <1>1 DEF EnabledIn
<1>3. ASSUME e.wid # w PROVE EnabledIn(Q, w, Len(R) + 1) = EnabledIn(R, w, Len(R))
  <2>1. Len(R) \in Nat
    OBVIOUS
  <2>2. \A i \in 1..(Len(R) + 1) : i \in 1..Len(R) \/ i = Len(R) + 1
    BY <2>1
  <2>3. \A i \in 1..Len(R) : i \in 1..(Len(R) + 1)
    BY <2>1
  <2> QED BY <1>1, <1>3, <2>2, <2>3 DEF EnabledIn
<1> QED BY <1>1, <1>2, <1>3 DEF ResolvedIn, Q

\* So what came from a list of F rows still does.
LEMMA SinceKept ==
  ASSUME NEW R \in Seq(PeerRow), NEW e \in PeerRow, NEW w, NEW F \in Nat, NEW r
  PROVE  /\ SinceIn(R, F, w, r) => SinceIn(Append(R, e), F, w, r)
         /\ e.wid # w /\ SinceIn(R, Len(R), w, r) => SinceIn(Append(R, e), Len(R) + 1, w, r)
<1>1. Len(R) \in Nat
  OBVIOUS
<1>2. ASSUME SinceIn(R, F, w, r) PROVE SinceIn(Append(R, e), F, w, r)
  <2>1. PICK n \in F..Len(R) : r = ResolvedIn(R, w, n)
    BY <1>2 DEF SinceIn
  <2>2. n \in 0..Len(R) /\ n \in F..(Len(R) + 1)
    BY <1>1
  <2> QED BY <2>1, <2>2, RowAdded DEF SinceIn
<1>3. ASSUME e.wid # w, SinceIn(R, Len(R), w, r) PROVE SinceIn(Append(R, e), Len(R) + 1, w, r)
  <2>1. PICK n \in Len(R)..Len(R) : r = ResolvedIn(R, w, n)
    BY <1>3 DEF SinceIn
  <2>2. n = Len(R) /\ Len(R) + 1 \in (Len(R) + 1)..(Len(R) + 1)
    BY <1>1
  <2> QED BY <1>3, <2>1, <2>2, RowAdded DEF SinceIn
<1> QED BY <1>2, <1>3

\* And the whole of what is in use for w.
LEMMA FreshKept ==
  ASSUME NEW R \in Seq(PeerRow), NEW e \in PeerRow, NEW w, NEW F \in Nat,
         NEW clients, NEW cache, NEW calls,
         cache = NoList \/ cache \in 0..Len(R),
         \A t \in PeerThreads : calls[t].pc = "keep" => calls[t].seen \in 0..Len(R)
  PROVE  /\ FreshIn(R, F, w, clients, cache, calls)
              => FreshIn(Append(R, e), F, w, clients, cache, calls)
         /\ e.wid # w /\ FreshIn(R, Len(R), w, clients, cache, calls)
              => FreshIn(Append(R, e), Len(R) + 1, w, clients, cache, calls)
<1>1. \A n \in 0..Len(R) : ResolvedIn(Append(R, e), w, n) = ResolvedIn(R, w, n)
  BY RowAdded
<1>2. \A r : /\ SinceIn(R, F, w, r) => SinceIn(Append(R, e), F, w, r)
             /\ e.wid # w /\ SinceIn(R, Len(R), w, r) => SinceIn(Append(R, e), Len(R) + 1, w, r)
  BY SinceKept
<1> QED BY <1>1, <1>2 DEF FreshIn
-----------------------------------------------------------------------------
\* A step of one thread that leaves the registry alone keeps what is in use for w fresh
\* if what it brings is.
LEMMA FreshStep ==
  ASSUME peerCall \in [PeerThreads -> PeerCalls], registry' = registry,
         NEW t \in PeerThreads, NEW to, peerCall' = [peerCall EXCEPT ![t] = to],
         NEW w, NEW F, Fresh(F, w),
         \/ peerClients'[w] = peerClients[w] \/ peerClients'[w] = NoPeer
         \/ SinceIn(registry, F, w, peerClients'[w]),
         \/ peersCache' = peersCache \/ peersCache' = NoList
         \/ SinceIn(registry, F, w, ResolvedIn(registry, w, peersCache')),
         to.pc = "keep" => SinceIn(registry, F, w, ResolvedIn(registry, w, to.seen)),
         to.pc = "build" /\ to.wid = w => SinceIn(registry, F, w, to.row)
  PROVE  FreshIn(registry', F, w, peerClients', peersCache', peerCall')
<1>1. \A u \in PeerThreads : peerCall'[u] = IF u = t THEN to ELSE peerCall[u]
  OBVIOUS
<1> QED BY <1>1 DEF Fresh, FreshIn

\* It keeps the invariant, if its thread has the right to ask or to answer.
LEMMA PeerCallStep ==
  ASSUME PeerType, FreshInv, AnswersInv, UNCHANGED <<registry, heldOver>>,
         NEW t \in PeerThreads, NEW to \in PeerCalls, peerCall' = [peerCall EXCEPT ![t] = to],
         CallInRange(to, Len(registry)),
         peersCache' = NoList \/ peersCache' \in 0..Len(registry),
         peerClients' \in [Wids -> 0..MaxRows],
         \A w \in Wids, F \in 0..Len(registry) :
             Fresh(F, w) => FreshIn(registry', F, w, peerClients', peersCache', peerCall'),
         peerCall[t].pc \in {"invalidate", "evict"} =>
             to.pc \in {"invalidate", "evict"} /\ to.wid = peerCall[t].wid,
         to.pc \in Asking => to.wid \in heldOver \/ Fresh(to.from, to.wid),
         to.pc = "answered" /\ to.answer = "chosen" =>
             to.wid \in heldOver \/ SinceIn(registry, to.from, to.wid, to.row)
  PROVE  PeerType' /\ FreshInv' /\ AnswersInv'
<1>1. \A u \in PeerThreads : peerCall'[u] = IF u = t THEN to ELSE peerCall[u]
  BY DEF PeerType
<1>2. /\ Len(registry) \in Nat /\ Len(registry) <= MaxRows
      /\ peerCall \in [PeerThreads -> PeerCalls]
  BY DEF PeerType
<1>3. PeerType'
  <2>1. peerCall' \in [PeerThreads -> PeerCalls]
    BY <1>2
  <2>2. \A u \in PeerThreads : CallInRange(peerCall'[u], Len(registry'))
    BY <1>1 DEF PeerType
  <2>3. /\ peersCache' \in 0..MaxRows \union {NoList}
        /\ peersCache' # NoList => peersCache' <= Len(registry')
    <3>1. CASE peersCache' = NoList
      BY <3>1
    <3>2. CASE peersCache' \in 0..Len(registry)
      BY <1>2, <3>2, PeerAssumption
    <3> QED BY <3>1, <3>2
  <2> QED BY <2>1, <2>2, <2>3 DEF PeerType
<1>4. \A w \in Wids : Registering(w) => Registering(w)'
  BY <1>1 DEF Registering
<1>5. FreshInv'
  <2>1. \A w \in Wids, F \in 0..Len(registry) : Fresh(F, w) => Fresh(F, w)'
    BY DEF Fresh
  <2>2. 0 \in 0..Len(registry) /\ Len(registry) \in 0..Len(registry)
    BY <1>2
  <2>3. \A w \in Wids : Fresh(0, w)'
    BY <2>1, <2>2 DEF FreshInv
  <2>4. \A w \in Wids : w \in heldOver \/ Registering(w)' \/ Fresh(Len(registry), w)'
    BY <1>4, <2>1, <2>2 DEF FreshInv
  <2>5. ASSUME NEW u \in PeerThreads, peerCall'[u].pc \in Asking
        PROVE  peerCall'[u].wid \in heldOver
               \/ FreshIn(registry', peerCall'[u].from, peerCall'[u].wid, peerClients', peersCache', peerCall')
    <3>1. PICK c \in PeerCalls : /\ peerCall'[u] = c /\ CallInRange(c, Len(registry))
                                 /\ c.wid \in heldOver \/ Fresh(c.from, c.wid)
      BY <1>1, <1>2, <2>5 DEF FreshInv, PeerType
    <3>2. c.from \in 0..MaxRows
      BY DEF PeerCalls
    <3>3. c.from \in 0..Len(registry) /\ c.wid \in Wids
      BY <1>2, <2>5, <3>1, <3>2 DEF CallInRange, Asking
    <3> QED BY <3>1, <3>3
  <2>7. FreshInv' <=>
          /\ \A w \in Wids : Fresh(0, w)'
          /\ \A w \in Wids : w \in heldOver' \/ Registering(w)' \/ Fresh(Len(registry), w)'
          /\ \A u \in PeerThreads : peerCall'[u].pc \in Asking =>
                peerCall'[u].wid \in heldOver'
                \/ FreshIn(registry', peerCall'[u].from, peerCall'[u].wid, peerClients', peersCache', peerCall')
    BY DEF FreshInv, Fresh
  <2> QED BY <2>3, <2>4, <2>5, <2>7
<1>6. AnswersInv'
  BY <1>1 DEF AnswersInv
<1> QED BY <1>3, <1>5, <1>6
-----------------------------------------------------------------------------
\* A step of one thread that brings nothing: what it caches or has in hand is not changed.
LEMMA PlainStep ==
  ASSUME PeerType, FreshInv, AnswersInv, UNCHANGED <<registry, peerClients, heldOver>>,
         peersCache' = peersCache \/ peersCache' = NoList,
         NEW t \in PeerThreads, NEW to \in PeerCalls, peerCall' = [peerCall EXCEPT ![t] = to],
         CallInRange(to, Len(registry)), to.pc \notin {"keep", "build"},
         peerCall[t].pc \in {"invalidate", "evict"} =>
             to.pc \in {"invalidate", "evict"} /\ to.wid = peerCall[t].wid,
         to.pc \in Asking => to.wid \in heldOver \/ Fresh(to.from, to.wid),
         to.pc = "answered" /\ to.answer = "chosen" =>
             to.wid \in heldOver \/ SinceIn(registry, to.from, to.wid, to.row)
  PROVE  PeerType' /\ FreshInv' /\ AnswersInv'
<1>1. /\ peersCache' = NoList \/ peersCache' \in 0..Len(registry)
      /\ peerClients' \in [Wids -> 0..MaxRows]
      /\ peerCall \in [PeerThreads -> PeerCalls]
  BY PeerAssumption DEF PeerType
<1>2. \A w \in Wids, F \in 0..Len(registry) :
        Fresh(F, w) => FreshIn(registry', F, w, peerClients', peersCache', peerCall')
  BY <1>1, FreshStep
<1> QED BY <1>1, <1>2, PeerCallStep

\* The fields of a call, one by one.
LEMMA CallFields ==
  ASSUME NEW c \in PeerCalls
  PROVE  /\ c.pc \in PeerPcs /\ c.wid \in Wids \union {"none"} /\ c.resolving \in BOOLEAN
         /\ c.seen \in 0..MaxRows /\ c.row \in 0..MaxRows /\ c.from \in 0..MaxRows
         /\ c.turn \in FlagTexts /\ c.answer \in Answers
BY DEF PeerCalls

\* A thread that serves no request.
LEMMA IdleIsCall == IdleCall \in PeerCalls
<1>1. 0 \in 0..MaxRows /\ NoPeer \in 0..MaxRows
  BY PeerAssumption DEF NoPeer
<1>2. "idle" \in PeerPcs /\ "absent" \in FlagTexts /\ "none" \in Answers
  BY DEF PeerPcs, FlagTexts, Answers
<1> QED BY <1>1, <1>2 DEF IdleCall, PeerCalls

\* A request for a workspace begins.
LEMMA FetchStep ==
  ASSUME PeerInv, NEW t \in PeerThreads, NEW w \in Wids, FetchFromPeer(t, w)
  PROVE  PeerType' /\ FreshInv' /\ AnswersInv'
<1>1. peerCall[t].pc = "idle" /\ UNCHANGED <<registry, peersCache, peerClients, heldOver>>
  BY DEF FetchFromPeer, PeerStep
<1>2. /\ PeerType /\ FreshInv /\ AnswersInv /\ Len(registry) \in 0..MaxRows
  BY DEF PeerInv, PeerType
<1>3. CASE FlagReads
  <2> DEFINE F == IF Registering(w) THEN 0 ELSE Len(registry)
             to == [IdleCall EXCEPT !.pc = "list", !.wid = w, !.resolving = TRUE, !.from = F]
  <2>1. F \in 0..MaxRows /\ F <= Len(registry)
    BY <1>2, PeerAssumption
  <2>2. w \in heldOver \/ Fresh(F, w)
    BY <1>2 DEF FreshInv
  <2>3. peerCall' = [peerCall EXCEPT ![t] = to]
    BY <1>3 DEF FetchFromPeer, PeerStep
  <2> HIDE DEF F
  <2>4. to \in PeerCalls
    BY <2>1, IdleIsCall DEF PeerCalls, PeerPcs
  <2>5. to.pc = "list" /\ to.wid = w /\ to.from = F
    BY DEF IdleCall
  <2>6. CallInRange(to, Len(registry))
    BY <2>1, <2>5 DEF CallInRange
  <2> HIDE DEF to
  <2> QED BY <1>1, <1>2, <2>2, <2>3, <2>4, <2>5, <2>6, PlainStep
<1>4. CASE ~FlagReads
  <2> DEFINE to == [IdleCall EXCEPT !.pc = "answered", !.wid = w, !.answer = "disabled"]
  <2>1. peerCall' = [peerCall EXCEPT ![t] = to]
    BY <1>4 DEF FetchFromPeer, PeerStep
  <2>2. to \in PeerCalls
    BY IdleIsCall DEF PeerCalls, PeerPcs, Answers
  <2>3. to.pc = "answered" /\ to.answer = "disabled" /\ to.wid = w /\ to.from = 0
    BY DEF IdleCall
  <2>4. CallInRange(to, Len(registry))
    BY <1>2, <2>3 DEF CallInRange
  <2> HIDE DEF to
  <2> QED BY <1>1, <1>2, <2>1, <2>2, <2>3, <2>4, PlainStep DEF Asking
<1> QED BY <1>3, <1>4

\* An answer that names no row.
LEMMA EmptyAnswer ==
  ASSUME PeerInv, NEW t \in PeerThreads, NEW p \in Asking, NEW a \in Answers \ {"chosen"},
         PeerDone(t, p, a, NoPeer), UNCHANGED <<registry, peersCache, peerClients, heldOver>>
  PROVE  PeerType' /\ FreshInv' /\ AnswersInv'
<1> DEFINE to == [peerCall[t] EXCEPT !.pc = "answered", !.answer = a, !.seen = 0, !.row = NoPeer]
<1>1. /\ PeerType /\ FreshInv /\ AnswersInv /\ peerCall[t].pc = p /\ peerCall[t].wid \in Wids
      /\ peerCall[t] \in PeerCalls /\ CallInRange(peerCall[t], Len(registry))
  BY DEF PeerInv, PeerType, PeerDone, PeerStep, CallInRange, Asking
<1>2. peerCall' = [peerCall EXCEPT ![t] = to]
  BY DEF PeerDone, PeerStep
<1>3. 0 \in 0..MaxRows /\ NoPeer \in 0..MaxRows
  BY PeerAssumption DEF NoPeer
<1>4. to \in PeerCalls
  BY <1>1, <1>3 DEF PeerCalls, PeerPcs
<1>5. /\ to.pc = "answered" /\ to.answer = a
      /\ to.wid = peerCall[t].wid /\ to.from = peerCall[t].from
  BY <1>1 DEF PeerCalls
<1>6. CallInRange(to, Len(registry))
  BY <1>1, <1>5 DEF CallInRange
<1> HIDE DEF to
<1> QED BY <1>1, <1>2, <1>4, <1>5, <1>6, PlainStep DEF Asking

\* get_peer on a list of n rows: what it chose, whoever the thread works for.
LEMMA RowChosen ==
  ASSUME PeerInv, NEW t \in PeerThreads, NEW p \in {"list", "keep"}, NEW n \in 0..Len(registry),
         Choose(t, p, n)
  PROVE  \E to \in PeerCalls :
           /\ peerCall[t].pc = p /\ peerCall' = [peerCall EXCEPT ![t] = to]
           /\ CallInRange(to, Len(registry))
           /\ to.wid = peerCall[t].wid /\ to.from = peerCall[t].from
           /\ to.pc \in {"lookup", "build", "answered"}
           /\ to.pc # "lookup" => to.row = ResolvedIn(registry, to.wid, n)
<1> DEFINE c == peerCall[t]
<1>1. /\ c \in PeerCalls /\ CallInRange(c, Len(registry)) /\ Len(registry) \in Nat
      /\ Len(registry) <= MaxRows
  BY DEF PeerInv, PeerType
<1>2. PICK row \in 0..MaxRows : row = ResolvedIn(registry, c.wid, n)
  <2>1. ResolvedIn(registry, c.wid, n) \in 0..n
    BY ResolvedInRange
  <2> QED BY <1>1, <2>1, PeerAssumption
<1>3. Resolved(c.wid, n) = row
  BY <1>2, ResolvedHere
<1>4. c.pc = p
  BY DEF Choose, PeerDone, PeerStep
<1>5. c.wid \in Wids /\ c.from <= Len(registry)
  BY <1>1, <1>4 DEF CallInRange
<1>6. 0 \in 0..MaxRows /\ NoPeer \in 0..MaxRows /\ c.from \in 0..MaxRows
  BY <1>1, PeerAssumption DEF NoPeer, PeerCalls
<1>7. CASE row = NoPeer
  <2> DEFINE to == [c EXCEPT !.pc = "answered", !.answer = "chosen", !.seen = 0, !.row = NoPeer]
  <2>1. peerCall' = [peerCall EXCEPT ![t] = to]
    BY <1>3, <1>7 DEF Choose, PeerDone, PeerStep
  <2>2. to \in PeerCalls
    BY <1>1, <1>6 DEF PeerCalls, PeerPcs, Answers
  <2>3. to.pc = "answered" /\ to.wid = c.wid /\ to.from = c.from /\ to.row = NoPeer
    BY <1>1 DEF PeerCalls
  <2>4. CallInRange(to, Len(registry))
    BY <1>5, <2>3 DEF CallInRange
  <2> HIDE DEF to
  <2> QED BY <1>2, <1>4, <1>7, <2>1, <2>2, <2>3, <2>4
<1>8. CASE row # NoPeer /\ c.resolving
  <2> DEFINE to == [c EXCEPT !.pc = "lookup", !.seen = 0, !.resolving = FALSE]
  <2>1. peerCall' = [peerCall EXCEPT ![t] = to]
    BY <1>3, <1>8 DEF Choose, PeerDone, PeerStep
  <2>2. to \in PeerCalls
    BY <1>1, <1>6 DEF PeerCalls, PeerPcs
  <2>3. to.pc = "lookup" /\ to.wid = c.wid /\ to.from = c.from
    BY <1>1 DEF PeerCalls
  <2>4. CallInRange(to, Len(registry))
    BY <1>5, <2>3 DEF CallInRange
  <2> HIDE DEF to
  <2> QED BY <1>4, <2>1, <2>2, <2>3, <2>4
<1>9. CASE row # NoPeer /\ ~c.resolving
  <2> DEFINE to == [c EXCEPT !.pc = "build", !.seen = 0, !.row = row]
  <2>1. peerCall' = [peerCall EXCEPT ![t] = to]
    BY <1>3, <1>9 DEF Choose, PeerDone, PeerStep
  <2>2. to \in PeerCalls
    BY <1>1, <1>6 DEF PeerCalls, PeerPcs
  <2>3. to.pc = "build" /\ to.wid = c.wid /\ to.from = c.from /\ to.row = row
    BY <1>1 DEF PeerCalls
  <2>4. CallInRange(to, Len(registry))
    BY <1>5, <2>3 DEF CallInRange
  <2> HIDE DEF to
  <2> QED BY <1>2, <1>4, <2>1, <2>2, <2>3, <2>4
<1> QED BY <1>7, <1>8, <1>9

\* A list that is in use is as fresh as everything in use.
LEMMA FreshList ==
  ASSUME NEW n, NEW t \in PeerThreads,
         \/ n = peersCache /\ peersCache # NoList
         \/ n = peerCall[t].seen /\ peerCall[t].pc = "keep",
         NEW F, NEW w, Fresh(F, w)
  PROVE  SinceIn(registry, F, w, ResolvedIn(registry, w, n))
BY DEF Fresh, FreshIn

\* So an answer from it, or a row a client will be built from, is current.
LEMMA ChooseStep ==
  ASSUME PeerInv, NEW t \in PeerThreads, NEW p \in {"list", "keep"}, NEW n \in 0..Len(registry),
         Choose(t, p, n),
         \/ n = peersCache /\ peersCache # NoList
         \/ n = peerCall[t].seen /\ peerCall[t].pc = "keep",
         peersCache' \in {peersCache, n}, UNCHANGED <<registry, peerClients, heldOver>>
  PROVE  PeerType' /\ FreshInv' /\ AnswersInv'
<1>1. PeerType /\ FreshInv /\ AnswersInv /\ peerCall \in [PeerThreads -> PeerCalls]
  BY DEF PeerInv, PeerType
<1>2. PICK to \in PeerCalls :
           /\ peerCall[t].pc = p /\ peerCall' = [peerCall EXCEPT ![t] = to]
           /\ CallInRange(to, Len(registry))
           /\ to.wid = peerCall[t].wid /\ to.from = peerCall[t].from
           /\ to.pc \in {"lookup", "build", "answered"}
           /\ to.pc # "lookup" => to.row = ResolvedIn(registry, to.wid, n)
  BY RowChosen
<1>3. \A F, w : Fresh(F, w) => SinceIn(registry, F, w, ResolvedIn(registry, w, n))
  BY FreshList
<1>4. /\ peersCache' = NoList \/ peersCache' \in 0..Len(registry)
      /\ peerClients' \in [Wids -> 0..MaxRows]
  BY <1>1, PeerAssumption DEF PeerType
<1>5. \A w \in Wids, F \in 0..Len(registry) :
        Fresh(F, w) => FreshIn(registry', F, w, peerClients', peersCache', peerCall')
  <2> SUFFICES ASSUME NEW w \in Wids, NEW F \in 0..Len(registry), Fresh(F, w)
               PROVE  FreshIn(registry', F, w, peerClients', peersCache', peerCall')
    OBVIOUS
  <2>1. SinceIn(registry, F, w, ResolvedIn(registry, w, n))
    BY <1>3
  <2>2. \/ peersCache' = peersCache
        \/ SinceIn(registry, F, w, ResolvedIn(registry, w, peersCache'))
    BY <2>1
  <2>3. to.pc = "build" /\ to.wid = w => SinceIn(registry, F, w, to.row)
    BY <1>2, <2>1
  <2> QED BY <1>1, <1>2, <2>2, <2>3, FreshStep
<1>6. to.wid \in heldOver \/ Fresh(to.from, to.wid)
  BY <1>1, <1>2 DEF FreshInv, Asking
<1>7. to.pc = "answered" => to.wid \in heldOver \/ SinceIn(registry, to.from, to.wid, to.row)
  BY <1>2, <1>3, <1>6
<1> QED BY <1>1, <1>2, <1>4, <1>5, <1>6, <1>7, PeerCallStep

\* The steps of a request on the list of peers.
LEMMA ListSteps ==
  ASSUME PeerInv, NEW t \in PeerThreads, ListCached(t) \/ ListRead(t) \/ ListKeep(t)
  PROVE  PeerType' /\ FreshInv' /\ AnswersInv'
<1>1. /\ PeerType /\ FreshInv /\ AnswersInv /\ peerCall[t] \in PeerCalls
      /\ CallInRange(peerCall[t], Len(registry))
      /\ Len(registry) \in Nat /\ Len(registry) <= MaxRows
  BY DEF PeerInv, PeerType
<1>2. CASE ListCached(t)
  <2>1. CASE FlagReads
    <3>1. peersCache # NoList /\ Choose(t, "list", peersCache)
          /\ UNCHANGED <<registry, peersCache, peerClients, heldOver>>
      BY <1>2, <2>1 DEF ListCached
    <3>2. peersCache \in 0..Len(registry)
      BY <1>1, <3>1, PeerAssumption DEF PeerType
    <3> QED BY <3>1, <3>2, ChooseStep
  <2>2. CASE ~FlagReads
    <3>1. PeerDone(t, "list", "disabled", NoPeer)
          /\ UNCHANGED <<registry, peersCache, peerClients, heldOver>>
      BY <1>2, <2>2 DEF ListCached
    <3> QED BY <3>1, EmptyAnswer DEF Asking, Answers
  <2> QED BY <2>1, <2>2
<1>3. CASE ListRead(t)
  <2>1. UNCHANGED <<registry, peersCache, peerClients, heldOver>>
    BY <1>3 DEF ListRead
  <2>2. CASE PeerDone(t, "list", "unread", NoPeer)
    BY <2>1, <2>2, EmptyAnswer DEF Asking, Answers
  <2>3. CASE PeerStep(t, "list", [peerCall[t] EXCEPT !.pc = "keep", !.seen = Len(registry)])
    <3> DEFINE N == Len(registry)
               to == [peerCall[t] EXCEPT !.pc = "keep", !.seen = N]
    <3>1. peerCall[t].pc = "list" /\ peerCall' = [peerCall EXCEPT ![t] = to]
      BY <2>3 DEF PeerStep
    <3>2. N \in 0..MaxRows
      BY <1>1, PeerAssumption
    <3>3. to \in PeerCalls
      BY <1>1, <3>2 DEF PeerCalls, PeerPcs
    <3>4. /\ to.pc = "keep" /\ to.seen = N /\ to.wid = peerCall[t].wid
          /\ to.from = peerCall[t].from
      BY <1>1 DEF PeerCalls
    <3>5. CallInRange(to, N)
      BY <1>1, <3>1, <3>2, <3>4 DEF CallInRange
    <3>6. to.wid \in heldOver \/ Fresh(to.from, to.wid)
      BY <1>1, <3>1, <3>4 DEF FreshInv, Asking
    <3>7. ASSUME NEW w \in Wids, NEW F \in 0..N, Fresh(F, w)
          PROVE  FreshIn(registry', F, w, peerClients', peersCache', peerCall')
      <4>1. SinceIn(registry, F, w, ResolvedIn(registry, w, N))
        <5>1. N \in F..N
          BY <3>2
        <5> QED BY <5>1 DEF SinceIn
      <4> HIDE DEF to
      <4> QED BY <1>1, <2>1, <3>1, <3>4, <3>7, <4>1, FreshStep DEF PeerType
    <3>8. /\ peersCache' = NoList \/ peersCache' \in 0..N
          /\ peerClients' \in [Wids -> 0..MaxRows]
      BY <1>1, <2>1, PeerAssumption DEF PeerType
    <3> HIDE DEF to
    <3> QED BY <1>1, <2>1, <3>1, <3>3, <3>4, <3>5, <3>6, <3>7, <3>8, PeerCallStep
  <2> QED BY <1>3, <2>2, <2>3 DEF ListRead
<1>4. CASE ListKeep(t)
  <2>1. /\ Choose(t, "keep", peerCall[t].seen) /\ peersCache' = peerCall[t].seen
        /\ UNCHANGED <<registry, peerClients, heldOver>>
    BY <1>4 DEF ListKeep
  <2>2. peerCall[t].pc = "keep"
    BY <2>1 DEF Choose, PeerDone, PeerStep
  <2>3. peerCall[t].seen \in 0..Len(registry)
    BY <1>1, <2>2, CallFields DEF CallInRange
  <2> QED BY <2>1, <2>2, <2>3, ChooseStep
<1> QED BY <1>2, <1>3, <1>4

\* get_workspace_client: the cached client, or one that is built.
LEMMA ClientSteps ==
  ASSUME PeerInv, NEW t \in PeerThreads, Lookup(t) \/ BuildClient(t)
  PROVE  PeerType' /\ FreshInv' /\ AnswersInv'
<1> DEFINE c == peerCall[t]
<1>1. /\ PeerType /\ FreshInv /\ AnswersInv /\ c \in PeerCalls
      /\ CallInRange(c, Len(registry))
      /\ peerClients \in [Wids -> 0..MaxRows]
  BY DEF PeerInv, PeerType
<1>2. /\ UNCHANGED <<registry, peersCache, heldOver>>
      /\ c.pc \in {"lookup", "build"}
  BY DEF Lookup, BuildClient, PeerDone, PeerStep
<1>3. c.wid \in Wids /\ c.row \in 0..MaxRows /\ c.from \in 0..Len(registry)
  BY <1>1, <1>2, CallFields DEF CallInRange, PeerType
<1>4. c.wid \in heldOver \/ Fresh(c.from, c.wid)
  BY <1>1, <1>2 DEF FreshInv, Asking
<1>5. \/ peersCache' = NoList \/ peersCache' \in 0..Len(registry)
  BY <1>1, <1>2, PeerAssumption DEF PeerType

\* An answer with a row.
<1>6. ASSUME NEW r \in 0..MaxRows, PeerDone(t, c.pc, "chosen", r),
             peerClients' \in [Wids -> 0..MaxRows],
             \A F, w : Fresh(F, w) =>
                 peerClients'[w] = peerClients[w] \/ SinceIn(registry, F, w, peerClients'[w]),
             c.wid \in heldOver \/ SinceIn(registry, c.from, c.wid, r)
      PROVE  PeerType' /\ FreshInv' /\ AnswersInv'
  <2> DEFINE to == [c EXCEPT !.pc = "answered", !.answer = "chosen", !.seen = 0, !.row = r]
  <2>1. peerCall' = [peerCall EXCEPT ![t] = to]
    BY <1>6 DEF PeerDone, PeerStep
  <2>2. 0 \in 0..MaxRows
    BY PeerAssumption
  <2>3. to \in PeerCalls
    BY <1>1, <1>6, <2>2 DEF PeerCalls, PeerPcs, Answers
  <2>4. to.pc = "answered" /\ to.wid = c.wid /\ to.from = c.from /\ to.row = r
    BY <1>1 DEF PeerCalls
  <2>5. CallInRange(to, Len(registry))
    BY <1>1, <1>3, <2>4 DEF CallInRange
  <2> HIDE DEF to
  <2>6. ASSUME NEW w \in Wids, NEW F \in 0..Len(registry), Fresh(F, w)
        PROVE  FreshIn(registry', F, w, peerClients', peersCache', peerCall')
    <3>1. peerCall \in [PeerThreads -> PeerCalls] /\ peersCache' = peersCache
      BY <1>1, <1>2 DEF PeerType
    <3>2. peerClients'[w] = peerClients[w] \/ SinceIn(registry, F, w, peerClients'[w])
      BY <1>6, <2>6
    <3> QED BY <1>2, <2>1, <2>4, <2>6, <3>1, <3>2, FreshStep
  <2> QED BY <1>1, <1>2, <1>5, <1>6, <2>1, <2>3, <2>4, <2>5, <2>6, PeerCallStep DEF Asking
<1>7. CASE Lookup(t)
  <2>1. c.pc = "lookup" /\ UNCHANGED peerClients
    BY <1>7 DEF Lookup
  <2>2. CASE ~FlagReads
    <3>1. PeerDone(t, "lookup", "disabled", NoPeer)
      BY <1>7, <2>2 DEF Lookup
    <3> QED BY <1>2, <2>1, <3>1, EmptyAnswer DEF Asking, Answers
  <2>3. CASE FlagReads /\ peerClients[c.wid] # NoPeer
    <3>1. PeerDone(t, c.pc, "chosen", peerClients[c.wid])
      BY <1>7, <2>1, <2>3 DEF Lookup
    <3>2. peerClients[c.wid] \in 0..MaxRows
      BY <1>1, <1>3
    <3>3. c.wid \in heldOver \/ SinceIn(registry, c.from, c.wid, peerClients[c.wid])
      BY <1>4, <2>3 DEF Fresh, FreshIn
    <3> HIDE DEF c
    <3> QED BY <1>1, <1>6, <2>1, <3>1, <3>2, <3>3
  <2>4. CASE FlagReads /\ peerClients[c.wid] = NoPeer
    <3> DEFINE to == [c EXCEPT !.pc = "list"]
    <3>1. peerCall' = [peerCall EXCEPT ![t] = to]
      BY <1>7, <2>4 DEF Lookup, PeerStep
    <3>2. to \in PeerCalls
      BY <1>1 DEF PeerCalls, PeerPcs
    <3>3. to.pc = "list" /\ to.wid = c.wid /\ to.from = c.from
      BY <1>1 DEF PeerCalls
    <3>4. CallInRange(to, Len(registry))
      BY <1>1, <1>3, <3>3 DEF CallInRange
    <3> HIDE DEF to
    <3> QED BY <1>1, <1>2, <1>4, <2>1, <3>1, <3>2, <3>3, <3>4, PlainStep
  <2> QED BY <2>2, <2>3, <2>4
<1>8. CASE BuildClient(t)
  <2>1. CASE PeerDone(t, "build", "failed", NoPeer) /\ UNCHANGED peerClients
    BY <1>2, <2>1, EmptyAnswer DEF Asking, Answers
  <2>2. CASE /\ PeerDone(t, "build", "chosen", c.row)
             /\ peerClients' = [peerClients EXCEPT ![c.wid] = c.row]
    <3>1. c.pc = "build"
      BY <2>2 DEF PeerDone, PeerStep
    <3>2. \A F : Fresh(F, c.wid) => SinceIn(registry, F, c.wid, c.row)
      BY <3>1 DEF Fresh, FreshIn
    <3>3. peerClients' \in [Wids -> 0..MaxRows]
      BY <1>1, <1>3, <2>2
    <3>4. \A F, w : Fresh(F, w) =>
             peerClients'[w] = peerClients[w] \/ SinceIn(registry, F, w, peerClients'[w])
      BY <1>1, <1>3, <2>2, <3>2
    <3>5. c.wid \in heldOver \/ SinceIn(registry, c.from, c.wid, c.row)
      BY <1>4, <3>2
    <3> HIDE DEF c
    <3> QED BY <1>3, <1>6, <2>2, <3>1, <3>3, <3>4, <3>5
  <2> QED BY <1>8, <2>1, <2>2 DEF BuildClient
<1> QED BY <1>7, <1>8

\* The steps that end a request, drop a list, or change the flag or its trail.
LEMMA OtherPeerSteps ==
  ASSUME PeerInv
  PROVE  /\ PeersCacheExpires => PeerType' /\ FreshInv' /\ AnswersInv'
         /\ \A t \in PeerThreads : PeerReturn(t) \/ AuditFlag(t) \/ InvalidatePeers(t) =>
              PeerType' /\ FreshInv' /\ AnswersInv'
         /\ \A t \in PeerThreads, x \in {"true", "false"} : SetFlag(t, x) =>
              PeerType' /\ FreshInv' /\ AnswersInv'
         /\ \A x \in FlagTexts : SetFlagLate(x) \/ AuditLands(x) =>
              PeerType' /\ FreshInv' /\ AnswersInv'
<1>1. /\ PeerType /\ FreshInv /\ AnswersInv /\ peerCall \in [PeerThreads -> PeerCalls]
      /\ Len(registry) \in Nat
  BY DEF PeerInv, PeerType
<1>2. ASSUME PeersCacheExpires PROVE PeerType' /\ FreshInv' /\ AnswersInv'
  <2>1. PeerType'
    BY <1>1, <1>2 DEF PeersCacheExpires, PeerType
  <2>2. \A F, w : Fresh(F, w) => FreshIn(registry', F, w, peerClients', peersCache', peerCall')
    BY <1>2 DEF PeersCacheExpires, Fresh, FreshIn
  <2>3. FreshInv'
    BY <1>1, <1>2, <2>2 DEF PeersCacheExpires, FreshInv, Fresh, Registering
  <2> QED BY <1>1, <1>2, <2>1, <2>3 DEF PeersCacheExpires, AnswersInv
<1>3. ASSUME NEW t \in PeerThreads, PeerReturn(t) \/ AuditFlag(t)
      PROVE  PeerType' /\ FreshInv' /\ AnswersInv'
  <2>1. /\ UNCHANGED <<registry, peersCache, peerClients, heldOver>>
        /\ peerCall' = [peerCall EXCEPT ![t] = IdleCall]
        /\ peerCall[t].pc \in {"answered", "audit"}
    BY <1>3 DEF PeerReturn, AuditFlag, PeerStep
  <2>2. IdleCall.pc = "idle" /\ CallInRange(IdleCall, Len(registry))
    BY <1>1 DEF IdleCall, CallInRange
  <2> QED BY <1>1, <2>1, <2>2, IdleIsCall, PlainStep DEF Asking
<1>4. ASSUME NEW t \in PeerThreads, InvalidatePeers(t)
      PROVE  PeerType' /\ FreshInv' /\ AnswersInv'
  <2> DEFINE to == [peerCall[t] EXCEPT !.pc = "evict"]
  <2>1. /\ UNCHANGED <<registry, peerClients, heldOver>> /\ peersCache' = NoList
        /\ peerCall' = [peerCall EXCEPT ![t] = to] /\ peerCall[t].pc = "invalidate"
    BY <1>4 DEF InvalidatePeers, PeerStep
  <2>2. CallInRange(peerCall[t], Len(registry)) /\ peerCall[t] \in PeerCalls
    BY <1>1 DEF PeerType
  <2>3. to \in PeerCalls /\ to.pc = "evict" /\ to.wid = peerCall[t].wid
        /\ to.from = peerCall[t].from
    BY <2>2 DEF PeerCalls, PeerPcs
  <2>4. CallInRange(to, Len(registry))
    BY <2>1, <2>2, <2>3 DEF CallInRange
  <2> HIDE DEF to
  <2> QED BY <1>1, <2>1, <2>3, <2>4, PlainStep DEF Asking
<1>5. ASSUME NEW t \in PeerThreads, NEW x \in {"true", "false"}, SetFlag(t, x)
      PROVE  PeerType' /\ FreshInv' /\ AnswersInv'
  <2> DEFINE to == [IdleCall EXCEPT !.pc = "audit", !.turn = x]
  <2>1. /\ UNCHANGED <<registry, peersCache, peerClients, heldOver>>
        /\ peerCall' = [peerCall EXCEPT ![t] = to] /\ peerCall[t].pc = "idle"
    BY <1>5 DEF SetFlag, PeerStep
  <2>2. to \in PeerCalls
    BY IdleIsCall DEF PeerCalls, PeerPcs, FlagTexts
  <2>3. to.pc = "audit" /\ to.from = 0
    BY DEF IdleCall
  <2>4. CallInRange(to, Len(registry))
    BY <1>1, <2>3 DEF CallInRange
  <2> HIDE DEF to
  <2> QED BY <1>1, <2>1, <2>2, <2>3, <2>4, PlainStep DEF Asking
<1>6. ASSUME NEW x \in FlagTexts, SetFlagLate(x) \/ AuditLands(x)
      PROVE  PeerType' /\ FreshInv' /\ AnswersInv'
  <2>1. UNCHANGED <<registry, peersCache, peerClients, peerCall, heldOver>>
    BY <1>6 DEF SetFlagLate, AuditLands
  <2> QED BY <1>1, <2>1 DEF PeerType, FreshInv, AnswersInv, Fresh, Registering
<1> QED BY <1>2, <1>3, <1>4, <1>5, <1>6

\* A registration that has done its part: what is in use for its workspace is the present
\* list's, or the workspace goes on record as held over.
LEMMA EvictStep ==
  ASSUME PeerInv, NEW t \in PeerThreads, EvictClient(t)
  PROVE  PeerType' /\ FreshInv' /\ AnswersInv'
<1> DEFINE v == peerCall[t].wid
           N == Len(registry)
<1>1. /\ PeerType /\ FreshInv /\ AnswersInv /\ peerCall \in [PeerThreads -> PeerCalls]
      /\ N \in Nat /\ peerClients \in [Wids -> 0..MaxRows] /\ heldOver \subseteq Wids
  BY DEF PeerInv, PeerType
<1>2. /\ UNCHANGED <<registry, peersCache>> /\ peerCall[t].pc = "evict"
      /\ peerCall' = [peerCall EXCEPT ![t] = IdleCall]
      /\ peerClients' = [peerClients EXCEPT ![v] = NoPeer]
      /\ heldOver' = IF InHandFor(v) THEN heldOver \union {v} ELSE heldOver
  BY DEF EvictClient, PeerStep
<1>3. v \in Wids /\ NoPeer \in 0..MaxRows
  BY <1>1, <1>2, PeerAssumption DEF PeerType, CallInRange, NoPeer
<1>4. IdleCall.pc = "idle" /\ CallInRange(IdleCall, N)
  BY <1>1 DEF IdleCall, CallInRange
<1>5. \A u \in PeerThreads : peerCall'[u] = IF u = t THEN IdleCall ELSE peerCall[u]
  BY <1>1, <1>2
<1>6. PeerType'
  <2>1. peerCall' \in [PeerThreads -> PeerCalls]
    BY <1>1, <1>2, IdleIsCall
  <2>2. peerClients' \in [Wids -> 0..MaxRows]
    BY <1>1, <1>2, <1>3
  <2>3. \A u \in PeerThreads : CallInRange(peerCall'[u], Len(registry'))
    BY <1>1, <1>2, <1>4, <1>5 DEF PeerType
  <2>4. heldOver' \subseteq Wids
    BY <1>1, <1>2, <1>3
  <2> QED BY <1>1, <1>2, <2>1, <2>2, <2>3, <2>4 DEF PeerType
<1>7. ASSUME NEW F, NEW w, Fresh(F, w)
      PROVE  FreshIn(registry', F, w, peerClients', peersCache', peerCall')
  <2>1. peerClients'[w] = peerClients[w] \/ peerClients'[w] = NoPeer
    BY <1>1, <1>2, <1>3
  <2> QED BY <1>1, <1>2, <1>4, <1>7, <2>1, FreshStep
<1>8. heldOver \subseteq heldOver'
  BY <1>2
<1>9. v \in heldOver' \/ FreshIn(registry', N, v, peerClients', peersCache', peerCall')
  <2>1. SUFFICES ASSUME ~InHandFor(v)
                 PROVE  FreshIn(registry', N, v, peerClients', peersCache', peerCall')
    BY <1>2
  <2>2. N \in N..N
    BY <1>1
  <2>3. SinceIn(registry, N, v, ResolvedIn(registry, v, N))
    BY <2>2 DEF SinceIn
  <2>4. peersCache # NoList => ResolvedIn(registry, v, peersCache) = ResolvedIn(registry, v, N)
    BY <2>1, ResolvedHere DEF InHandFor
  <2>5. \A u \in PeerThreads : peerCall[u].pc = "keep" =>
           ResolvedIn(registry, v, peerCall[u].seen) = ResolvedIn(registry, v, N)
    BY <2>1, ResolvedHere DEF InHandFor
  <2>6. \A u \in PeerThreads : peerCall[u].pc = "build" /\ peerCall[u].wid = v =>
           peerCall[u].row = ResolvedIn(registry, v, N)
    BY <2>1, ResolvedHere DEF InHandFor
  <2>7. peerClients'[v] = NoPeer
    BY <1>1, <1>2, <1>3
  <2> HIDE DEF v, N
  <2> QED BY <1>2, <1>4, <1>5, <2>3, <2>4, <2>5, <2>6, <2>7 DEF FreshIn
<1>10. FreshInv'
  <2>1. \A w \in Wids : FreshIn(registry', 0, w, peerClients', peersCache', peerCall')
    BY <1>1, <1>7 DEF FreshInv
  <2>2. ASSUME NEW w \in Wids
        PROVE  \/ w \in heldOver' \/ Registering(w)'
               \/ FreshIn(registry', Len(registry'), w, peerClients', peersCache', peerCall')
    <3>1. CASE w = v
      BY <1>2, <1>9, <3>1
    <3>2. CASE w # v
      <4>1. Registering(w) => Registering(w)'
        BY <1>2, <1>5, <3>2 DEF Registering
      <4> QED BY <1>1, <1>2, <1>7, <1>8, <4>1 DEF FreshInv
    <3> QED BY <3>1, <3>2
  <2>3. ASSUME NEW u \in PeerThreads, peerCall'[u].pc \in Asking
        PROVE  \/ peerCall'[u].wid \in heldOver'
               \/ FreshIn(registry', peerCall'[u].from, peerCall'[u].wid, peerClients', peersCache', peerCall')
    <3>1. PICK c \in PeerCalls : peerCall'[u] = c /\ (c.wid \in heldOver \/ Fresh(c.from, c.wid))
      BY <1>1, <1>4, <1>5, <2>3 DEF FreshInv, Asking
    <3> QED BY <1>7, <1>8, <3>1
  <2> QED BY <2>1, <2>2, <2>3 DEF FreshInv, Fresh
<1>11. AnswersInv'
  BY <1>1, <1>2, <1>4, <1>5, <1>8 DEF AnswersInv
<1> QED BY <1>6, <1>10, <1>11

\* A new row for v: what came from a list still does, and for other workspaces what is in
\* use is still the present list's.
LEMMA RowStep ==
  ASSUME PeerInv, NEW v \in Wids, NEW on \in BOOLEAN, Len(registry) < MaxRows,
         registry' = Append(registry, [wid |-> v, enabled |-> on]),
         UNCHANGED <<peersCache, peerClients>>, heldOver \subseteq heldOver', heldOver' \subseteq Wids,
         \A u \in PeerThreads :
             \/ peerCall'[u] = peerCall[u]
             \/ /\ peerCall[u].pc = "idle" /\ peerCall'[u].pc = "invalidate"
                /\ CallInRange(peerCall'[u], 0),
         peerCall' \in [PeerThreads -> PeerCalls],
         v \in heldOver' \/ Registering(v)'
  PROVE  PeerType' /\ FreshInv' /\ AnswersInv'
<1> DEFINE e == [wid |-> v, enabled |-> on]
           N == Len(registry)
<1>1. /\ PeerType /\ FreshInv /\ AnswersInv /\ peerCall \in [PeerThreads -> PeerCalls]
      /\ registry \in Seq(PeerRow) /\ N \in Nat /\ N < MaxRows
      /\ \A u \in PeerThreads : CallInRange(peerCall[u], N)
      /\ peersCache = NoList \/ peersCache \in 0..N
  BY PeerAssumption DEF PeerInv, PeerType
<1>2. e \in PeerRow /\ e.wid = v
  BY DEF PeerRow
<1>3. Len(registry') = N + 1 /\ registry' \in Seq(PeerRow)
  BY <1>1, <1>2, RowAdded
<1>4. \A u \in PeerThreads : peerCall[u].pc = "keep" => peerCall[u].seen \in 0..N
  BY <1>1, CallFields DEF CallInRange
<1>5. \A u \in PeerThreads : CallInRange(peerCall'[u], N + 1)
  <2> SUFFICES ASSUME NEW u \in PeerThreads PROVE CallInRange(peerCall'[u], N + 1)
    OBVIOUS
  <2>1. /\ peerCall'[u].from \in Nat /\ peerCall'[u].seen \in Nat
        /\ CallInRange(peerCall'[u], N) \/ CallInRange(peerCall'[u], 0)
    BY <1>1, CallFields
  <2> QED BY <1>1, <2>1 DEF CallInRange
<1>6. PeerType'
  <2>1. /\ peersCache' \in 0..MaxRows \union {NoList}
        /\ peersCache' # NoList => peersCache' <= Len(registry')
    BY <1>1, <1>3, PeerAssumption
  <2>2. Len(registry') <= MaxRows
    BY <1>1, <1>3, PeerAssumption
  <2> QED BY <1>1, <1>3, <1>5, <2>1, <2>2 DEF PeerType
<1>7. ASSUME NEW w, NEW F \in Nat
      PROVE  /\ Fresh(F, w) => FreshIn(registry', F, w, peerClients', peersCache', peerCall')
             /\ v # w /\ Fresh(N, w) =>
                   FreshIn(registry', N + 1, w, peerClients', peersCache', peerCall')
  <2>1. /\ FreshIn(registry, F, w, peerClients, peersCache, peerCall)
              => FreshIn(Append(registry, e), F, w, peerClients, peersCache, peerCall)
        /\ e.wid # w /\ FreshIn(registry, Len(registry), w, peerClients, peersCache, peerCall)
              => FreshIn(Append(registry, e), Len(registry) + 1, w, peerClients, peersCache, peerCall)
    BY <1>1, <1>2, <1>4, FreshKept
  <2>2. \A G : FreshIn(registry', G, w, peerClients, peersCache, peerCall)
              => FreshIn(registry', G, w, peerClients', peersCache', peerCall')
    BY DEF FreshIn
  <2> QED BY <1>2, <2>1, <2>2 DEF Fresh
<1>8. FreshInv'
  <2>1. \A w \in Wids : FreshIn(registry', 0, w, peerClients', peersCache', peerCall')
    BY <1>1, <1>7 DEF FreshInv
  <2>2. ASSUME NEW w \in Wids
        PROVE  \/ w \in heldOver' \/ Registering(w)'
               \/ FreshIn(registry', Len(registry'), w, peerClients', peersCache', peerCall')
    <3>1. CASE w = v
      BY <3>1
    <3>2. CASE w # v
      <4>1. Registering(w) => Registering(w)'
        BY DEF Registering
      <4> QED BY <1>1, <1>3, <1>7, <3>2, <4>1 DEF FreshInv
    <3> QED BY <3>1, <3>2
  <2>3. ASSUME NEW u \in PeerThreads, peerCall'[u].pc \in Asking
        PROVE  \/ peerCall'[u].wid \in heldOver'
               \/ FreshIn(registry', peerCall'[u].from, peerCall'[u].wid, peerClients', peersCache', peerCall')
    <3>1. peerCall'[u] = peerCall[u]
      BY <2>3 DEF Asking
    <3>2. PICK c \in PeerCalls : peerCall[u] = c
      BY <1>1
    <3>3. c.from \in Nat /\ (c.wid \in heldOver \/ Fresh(c.from, c.wid))
      BY <1>1, <2>3, <3>1, <3>2, CallFields DEF FreshInv
    <3> QED BY <1>7, <3>1, <3>2, <3>3
  <2> QED BY <2>1, <2>2, <2>3 DEF FreshInv, Fresh
<1>9. AnswersInv'
  <2> SUFFICES ASSUME NEW u \in PeerThreads, peerCall'[u].pc = "answered",
                      peerCall'[u].answer = "chosen"
               PROVE  \/ peerCall'[u].wid \in heldOver'
                      \/ SinceIn(registry', peerCall'[u].from, peerCall'[u].wid, peerCall'[u].row)
    BY DEF AnswersInv
  <2>1. PICK c \in PeerCalls : peerCall[u] = c /\ peerCall'[u] = c
    BY <1>1
  <2>2. c.from \in Nat /\ (c.wid \in heldOver \/ SinceIn(registry, c.from, c.wid, c.row))
    BY <1>1, <2>1, CallFields DEF AnswersInv
  <2> QED BY <1>1, <1>2, <2>1, <2>2, SinceKept
<1> QED BY <1>6, <1>8, <1>9

\* The registrations: each is the row, then what it drops, and the row of a late one.
LEMMA RegisterSteps ==
  ASSUME PeerInv
  PROVE  /\ \A t \in PeerThreads, v \in Wids, on \in BOOLEAN : Register(t, v, on) =>
              PeerType' /\ FreshInv' /\ AnswersInv'
         /\ \A v \in Wids, on \in BOOLEAN : RegisterLate(v, on) =>
              PeerType' /\ FreshInv' /\ AnswersInv'
<1>1. peerCall \in [PeerThreads -> PeerCalls] /\ heldOver \subseteq Wids
  BY DEF PeerInv, PeerType
<1>2. ASSUME NEW t \in PeerThreads, NEW v \in Wids, NEW on \in BOOLEAN, Register(t, v, on)
      PROVE  PeerType' /\ FreshInv' /\ AnswersInv'
  <2> DEFINE to == [IdleCall EXCEPT !.pc = "invalidate", !.wid = v]
  <2>1. /\ Len(registry) < MaxRows
        /\ registry' = Append(registry, [wid |-> v, enabled |-> on])
        /\ UNCHANGED <<peersCache, peerClients, heldOver>>
        /\ peerCall[t].pc = "idle" /\ peerCall' = [peerCall EXCEPT ![t] = to]
    BY <1>2 DEF Register, PeerStep
  <2>2. to \in PeerCalls
    BY IdleIsCall DEF PeerCalls, PeerPcs
  <2>3. to.pc = "invalidate" /\ to.wid = v /\ to.from = 0
    BY DEF IdleCall
  <2>4. CallInRange(to, 0)
    BY <2>3 DEF CallInRange
  <2> HIDE DEF to
  <2>5. peerCall' \in [PeerThreads -> PeerCalls]
    BY <1>1, <2>1, <2>2
  <2>6. peerCall'[t] = to
    BY <1>1, <2>1
  <2>7. Registering(v)'
    BY <2>3, <2>6 DEF Registering
  <2>8. \A u \in PeerThreads :
             \/ peerCall'[u] = peerCall[u]
             \/ /\ peerCall[u].pc = "idle" /\ peerCall'[u].pc = "invalidate"
                /\ CallInRange(peerCall'[u], 0)
    BY <1>1, <2>1, <2>3, <2>4
  <2> QED BY <1>1, <2>1, <2>5, <2>7, <2>8, RowStep
<1>3. ASSUME NEW v \in Wids, NEW on \in BOOLEAN, RegisterLate(v, on)
      PROVE  PeerType' /\ FreshInv' /\ AnswersInv'
  BY <1>1, <1>3, RowStep DEF RegisterLate
<1> QED BY <1>2, <1>3

-----------------------------------------------------------------------------
\* Who changes the flag, and with what: all other steps leave it alone.
LEMMA FlagStep ==
  ASSUME PeerInv, [PeerNext]_peerVars
  PROVE  FlagType' /\ AuditInv'
<1>1. FlagType /\ AuditInv /\ peerCall \in [PeerThreads -> PeerCalls]
  BY DEF PeerInv, PeerType
<1>2. ASSUME UNCHANGED flagVars,
             \A u \in PeerThreads : \/ peerCall'[u] = peerCall[u]
                                    \/ peerCall[u].pc # "audit" /\ peerCall'[u].pc # "audit"
      PROVE  FlagType' /\ AuditInv'
  BY <1>1, <1>2 DEF flagVars, FlagType, AuditInv
<1>3. ASSUME NEW t \in PeerThreads, NEW x \in {"true", "false"}, SetFlag(t, x)
      PROVE  FlagType' /\ AuditInv'
  <2>1. /\ peerCall[t].pc = "idle" /\ flagRow' = x /\ flagTurns' = flagTurns + 1
        /\ flagTurns < MaxToggles /\ UNCHANGED <<flagAudit, auditsOut>>
        /\ peerCall' = [peerCall EXCEPT ![t] = [IdleCall EXCEPT !.pc = "audit", !.turn = x]]
        /\ auditBlurred' = \E u \in PeerThreads : peerCall[u].pc = "audit"
    BY <1>3 DEF SetFlag, PeerStep, Auditing
  <2>2. FlagType'
    <3>1. flagTurns' \in 0..MaxToggles
      BY <1>1, <2>1, PeerAssumption DEF FlagType
    <3>2. auditBlurred' \in BOOLEAN
      BY <2>1
    <3> QED BY <1>1, <2>1, <3>1, <3>2 DEF FlagType, FlagTexts
  <2>3. \A u \in PeerThreads : peerCall'[u] = IF u = t THEN [IdleCall EXCEPT !.pc = "audit", !.turn = x]
                                               ELSE peerCall[u]
    BY <1>1, <2>1
  <2>4. [IdleCall EXCEPT !.pc = "audit", !.turn = x].pc = "audit"
        /\ [IdleCall EXCEPT !.pc = "audit", !.turn = x].turn = x
    BY DEF IdleCall
  <2>5. ASSUME ~auditBlurred' PROVE \A u \in PeerThreads : peerCall'[u].pc = "audit" => u = t
    <3>1. \A u \in PeerThreads : peerCall[u].pc # "audit"
      BY <2>1, <2>5
    <3> QED BY <2>3, <3>1
  <2>6. peerCall'[t].pc = "audit" /\ peerCall'[t].turn = flagRow'
    BY <2>1, <2>3, <2>4
  <2>7. AuditInv'
    BY <2>5, <2>6 DEF AuditInv
  <2> QED BY <2>2, <2>7
<1>4. ASSUME NEW t \in PeerThreads, AuditFlag(t)
      PROVE  FlagType' /\ AuditInv'
  <2>1. /\ peerCall[t].pc = "audit" /\ peerCall' = [peerCall EXCEPT ![t] = IdleCall]
        /\ UNCHANGED <<flagRow, flagTurns>>
        /\ \/ flagAudit' = peerCall[t].turn /\ UNCHANGED <<auditsOut, auditBlurred>>
           \/ /\ auditBlurred' = TRUE /\ UNCHANGED flagAudit
              /\ auditsOut' \in {auditsOut, auditsOut \union {peerCall[t].turn}}
    BY <1>4 DEF AuditFlag, PeerStep
  <2>2. peerCall[t].turn \in FlagTexts
    BY <1>1, CallFields
  <2>3. FlagType'
    BY <1>1, <2>1, <2>2 DEF FlagType
  <2>4. \A u \in PeerThreads : peerCall'[u] = IF u = t THEN IdleCall ELSE peerCall[u]
    BY <1>1, <2>1
  <2>5. IdleCall.pc = "idle"
    BY DEF IdleCall
  <2>6. AuditInv'
    BY <1>1, <2>1, <2>4, <2>5 DEF AuditInv
  <2> QED BY <2>3, <2>6
<1>5. ASSUME NEW t \in PeerThreads, NEW to, to.pc # "audit", peerCall[t].pc # "audit",
             peerCall' = [peerCall EXCEPT ![t] = to], UNCHANGED flagVars
      PROVE  FlagType' /\ AuditInv'
  <2>1. \A u \in PeerThreads : peerCall'[u] = IF u = t THEN to ELSE peerCall[u]
    BY <1>1, <1>5
  <2> QED BY <1>2, <1>5, <2>1
<1>6. ASSUME NEW t \in PeerThreads, NEW p \in Asking, NEW a, NEW r, PeerDone(t, p, a, r),
             UNCHANGED flagVars
      PROVE  FlagType' /\ AuditInv'
  <2> DEFINE to == [peerCall[t] EXCEPT !.pc = "answered", !.answer = a, !.seen = 0, !.row = r]
  <2>1. peerCall[t].pc = p /\ peerCall' = [peerCall EXCEPT ![t] = to]
    BY <1>6 DEF PeerDone, PeerStep
  <2>2. to.pc = "answered"
    BY <1>1 DEF PeerCalls
  <2> HIDE DEF to
  <2> QED BY <1>5, <1>6, <2>1, <2>2 DEF Asking
<1>7. ASSUME NEW t \in PeerThreads, NEW p \in {"list", "keep"}, NEW n \in 0..Len(registry),
             Choose(t, p, n), UNCHANGED flagVars
      PROVE  FlagType' /\ AuditInv'
  <2>1. PICK to \in PeerCalls : /\ peerCall[t].pc = p /\ peerCall' = [peerCall EXCEPT ![t] = to]
                               /\ to.pc \in {"lookup", "build", "answered"}
    BY <1>7, RowChosen
  <2> QED BY <1>5, <1>7, <2>1
<1>8. ASSUME NEW t \in PeerThreads, NEW w \in Wids, FetchFromPeer(t, w)
      PROVE  FlagType' /\ AuditInv'
  <2> DEFINE F == IF Registering(w) THEN 0 ELSE Len(registry)
             to1 == [IdleCall EXCEPT !.pc = "list", !.wid = w, !.resolving = TRUE, !.from = F]
             to2 == [IdleCall EXCEPT !.pc = "answered", !.wid = w, !.answer = "disabled"]
  <2>1. /\ peerCall[t].pc = "idle" /\ UNCHANGED flagVars
        /\ \/ peerCall' = [peerCall EXCEPT ![t] = to1]
           \/ peerCall' = [peerCall EXCEPT ![t] = to2]
    BY <1>8 DEF FetchFromPeer, PeerStep
  <2> HIDE DEF F
  <2>2. to1.pc = "list" /\ to2.pc = "answered"
    BY DEF IdleCall
  <2> HIDE DEF to1, to2
  <2> QED BY <1>5, <2>1, <2>2
<1>9. ASSUME NEW t \in PeerThreads, ListCached(t) \/ ListRead(t) \/ ListKeep(t)
      PROVE  FlagType' /\ AuditInv'
  <2>1. /\ UNCHANGED flagVars /\ Len(registry) \in Nat /\ peerCall[t] \in PeerCalls
        /\ CallInRange(peerCall[t], Len(registry))
    BY <1>9 DEF ListCached, ListRead, ListKeep, PeerInv, PeerType
  <2>2. CASE \E a : PeerDone(t, "list", a, NoPeer)
    BY <1>6, <2>1, <2>2 DEF Asking
  <2>3. CASE peersCache # NoList /\ Choose(t, "list", peersCache)
    <3>1. peersCache \in 0..Len(registry)
      BY <2>3, PeerAssumption DEF PeerInv, PeerType
    <3> QED BY <1>7, <2>1, <2>3, <3>1
  <2>4. CASE Choose(t, "keep", peerCall[t].seen)
    <3>1. peerCall[t].pc = "keep"
      BY <2>4 DEF Choose, PeerDone, PeerStep
    <3>2. peerCall[t].seen \in 0..Len(registry)
      BY <2>1, <3>1, CallFields DEF CallInRange
    <3> QED BY <1>7, <2>1, <2>4, <3>2
  <2>5. CASE PeerStep(t, "list", [peerCall[t] EXCEPT !.pc = "keep", !.seen = Len(registry)])
    <3> DEFINE to == [peerCall[t] EXCEPT !.pc = "keep", !.seen = Len(registry)]
    <3>1. peerCall[t].pc = "list" /\ peerCall' = [peerCall EXCEPT ![t] = to]
      BY <2>5 DEF PeerStep
    <3>2. to.pc = "keep"
      BY <2>1 DEF PeerCalls
    <3> HIDE DEF to
    <3> QED BY <1>5, <2>1, <3>1, <3>2
  <2> QED BY <1>9, <2>2, <2>3, <2>4, <2>5 DEF ListCached, ListRead, ListKeep
<1>10. ASSUME NEW t \in PeerThreads, Lookup(t) \/ BuildClient(t)
       PROVE  FlagType' /\ AuditInv'
  <2>1. UNCHANGED flagVars /\ peerCall[t] \in PeerCalls
    BY <1>1, <1>10 DEF Lookup, BuildClient
  <2>2. CASE \E p \in Asking : \E a, r : PeerDone(t, p, a, r)
    BY <1>6, <2>1, <2>2
  <2>3. CASE PeerStep(t, "lookup", [peerCall[t] EXCEPT !.pc = "list"])
    <3> DEFINE to == [peerCall[t] EXCEPT !.pc = "list"]
    <3>1. peerCall[t].pc = "lookup" /\ peerCall' = [peerCall EXCEPT ![t] = to]
      BY <2>3 DEF PeerStep
    <3>2. to.pc = "list"
      BY <2>1 DEF PeerCalls
    <3> HIDE DEF to
    <3> QED BY <1>5, <2>1, <3>1, <3>2
  <2>4. \/ \E p \in Asking : \E a, r : PeerDone(t, p, a, r)
        \/ PeerStep(t, "lookup", [peerCall[t] EXCEPT !.pc = "list"])
    BY <1>10 DEF Lookup, BuildClient, Asking
  <2> QED BY <2>2, <2>3, <2>4
<1>11. ASSUME NEW t \in PeerThreads, PeerReturn(t) \/ EvictClient(t)
       PROVE  FlagType' /\ AuditInv'
  <2>1. /\ peerCall[t].pc # "audit" /\ UNCHANGED flagVars
        /\ peerCall' = [peerCall EXCEPT ![t] = IdleCall]
    BY <1>11 DEF PeerReturn, EvictClient, PeerStep, flagVars
  <2>2. IdleCall.pc = "idle"
    BY DEF IdleCall
  <2> QED BY <1>5, <2>1, <2>2
<1>12. ASSUME NEW t \in PeerThreads, NEW v \in Wids, NEW on \in BOOLEAN, Register(t, v, on)
       PROVE  FlagType' /\ AuditInv'
  <2> DEFINE to == [IdleCall EXCEPT !.pc = "invalidate", !.wid = v]
  <2>1. /\ peerCall[t].pc # "audit" /\ UNCHANGED flagVars
        /\ peerCall' = [peerCall EXCEPT ![t] = to]
    BY <1>12 DEF Register, PeerStep
  <2>2. to.pc = "invalidate"
    BY DEF IdleCall
  <2> HIDE DEF to
  <2> QED BY <1>5, <2>1, <2>2
<1>13. ASSUME NEW t \in PeerThreads, InvalidatePeers(t)
       PROVE  FlagType' /\ AuditInv'
  <2> DEFINE to == [peerCall[t] EXCEPT !.pc = "evict"]
  <2>1. /\ peerCall[t].pc # "audit" /\ UNCHANGED flagVars /\ peerCall[t] \in PeerCalls
        /\ peerCall' = [peerCall EXCEPT ![t] = to]
    BY <1>1, <1>13 DEF InvalidatePeers, PeerStep, flagVars
  <2>2. to.pc = "evict"
    BY <2>1 DEF PeerCalls
  <2> HIDE DEF to
  <2> QED BY <1>5, <2>1, <2>2
<1>14. CASE PeersCacheExpires \/ \E w \in Wids, on \in BOOLEAN : RegisterLate(w, on)
  <2>1. UNCHANGED flagVars /\ peerCall' = peerCall
    BY <1>14 DEF PeersCacheExpires, RegisterLate
  <2> QED BY <1>2, <2>1
<1>16. ASSUME NEW x \in FlagTexts, SetFlagLate(x) \/ AuditLands(x)
       PROVE  FlagType' /\ AuditInv'
  <2>1. auditBlurred' = TRUE /\ auditsOut' \subseteq auditsOut
    BY <1>16 DEF SetFlagLate, AuditLands
  <2>2. /\ flagRow' \in FlagTexts /\ flagAudit' \in FlagTexts
        /\ flagTurns' \in 0..MaxToggles
    BY <1>1, <1>16, PeerAssumption DEF SetFlagLate, AuditLands, FlagType
  <2> QED BY <1>1, <2>1, <2>2 DEF FlagType, AuditInv
<1>15. CASE UNCHANGED peerVars
  <2>1. UNCHANGED flagVars /\ peerCall' = peerCall
    BY <1>15 DEF peerVars, flagVars
  <2> QED BY <1>2, <2>1
<1>17. auditsOut \subseteq FlagTexts /\ {"true", "false"} \subseteq FlagTexts
  BY <1>1 DEF FlagType, FlagTexts
<1> QED
  BY <1>3, <1>4, <1>8, <1>9, <1>10, <1>11, <1>12, <1>13, <1>14, <1>15, <1>16, <1>17 DEF PeerNext

\* Nothing is cached, asked or recorded at the start.
LEMMA PeerStart == PeerInit => PeerInv
<1> SUFFICES ASSUME PeerInit PROVE PeerInv
  OBVIOUS
<1>1. IdleCall.pc = "idle" /\ IdleCall.from = 0 /\ CallInRange(IdleCall, 0)
  BY DEF IdleCall, CallInRange
<1>2. NoPeer \in 0..MaxRows /\ Len(registry) = 0 /\ registry \in Seq(PeerRow)
  BY PeerAssumption DEF NoPeer, PeerInit
<1>3. \A t \in PeerThreads : peerCall[t] = IdleCall
  BY DEF PeerInit
<1>4. PeerType
  BY <1>1, <1>2, <1>3, IdleIsCall, PeerAssumption DEF PeerInit, PeerType
<1>5. FlagType
  <2>1. flagTurns \in 0..MaxToggles
    BY PeerAssumption DEF PeerInit
  <2> QED BY <2>1 DEF PeerInit, FlagType, FlagTexts
<1>6. \A F : \A w \in Wids : Fresh(F, w)
  BY <1>1, <1>3 DEF PeerInit, Fresh, FreshIn
<1>7. FreshInv
  BY <1>1, <1>3, <1>6 DEF FreshInv, Asking
<1>8. AnswersInv /\ AuditInv
  BY <1>1, <1>3 DEF PeerInit, AnswersInv, AuditInv
<1> QED BY <1>4, <1>5, <1>7, <1>8 DEF PeerInv

\* Every step keeps the invariant.
LEMMA PeerNextStep == PeerInv /\ [PeerNext]_peerVars => PeerInv'
<1> SUFFICES ASSUME PeerInv, [PeerNext]_peerVars PROVE PeerInv'
  OBVIOUS
<1>1. FlagType' /\ AuditInv'
  BY FlagStep
<1>2. PeerType' /\ FreshInv' /\ AnswersInv'
  <2>1. CASE UNCHANGED peerVars
    <3>1. PeerType /\ FreshInv /\ AnswersInv
      BY DEF PeerInv
    <3> QED BY <2>1, <3>1 DEF peerVars, PeerType, FreshInv, AnswersInv, Fresh, Registering
  <2>2. CASE PeerNext
    <3>1. auditsOut \subseteq FlagTexts /\ {"true", "false"} \subseteq FlagTexts
      BY DEF PeerInv, FlagType, FlagTexts
    <3> QED BY <2>2, <3>1, FetchStep, ListSteps, ClientSteps, OtherPeerSteps, EvictStep,
               RegisterSteps DEF PeerNext
  <2> QED BY <2>1, <2>2
<1> QED BY <1>1, <1>2 DEF PeerInv

\* For any number of threads, workspaces and registrations, the registry, the list, the
\* clients and the calls keep their types.
THEOREM PeerTypeCorrect == PeerSpec => []PeerTypeOK
<1>1. PeerInv => PeerTypeOK
  <2> SUFFICES ASSUME PeerInv PROVE PeerTypeOK
    OBVIOUS
  <2>1. /\ registry \in [1..Len(registry) -> PeerRow] /\ Len(registry) \in 0..MaxRows
    BY PeerAssumption DEF PeerInv, PeerType
  <2>2. registry \in UNION {[1..n -> PeerRow] : n \in 0..MaxRows}
    BY <2>1
  <2> QED BY <2>2 DEF PeerInv, PeerType, FlagType, PeerTypeOK, PeerRow, PeerCalls, PeerPcs
<1> QED BY <1>1, PeerStart, PeerNextStep, PTL DEF PeerSpec

\* For any number of threads, workspaces and registrations: a request that begins once a
\* registration returned is answered with a row chosen from the registry as it is from
\* then on, or the workspace is on record as held over; and once a change of the flag has
\* been made on its own the audit trail ends with the flag's value, until another change
\* is under way, leaves no audit row, lands after its call or meets a third.
THEOREM ChangesTakeEffectHolds == PeerSpec => []ChangesTakeEffect
<1>1. PeerInv => ChangesTakeEffect
  <2> SUFFICES ASSUME PeerInv PROVE ChangesTakeEffect
    OBVIOUS
  <2>1. PeerAnswersCurrent
    BY ResolvedHere DEF PeerInv, AnswersInv, SinceIn, PeerAnswersCurrent
  <2>2. AuditTellsTheFlag
    BY DEF PeerInv, AuditInv, AuditTellsTheFlag, Auditing
  <2> QED BY <2>1, <2>2 DEF ChangesTakeEffect
<1> QED BY <1>1, PeerStart, PeerNextStep, PTL DEF PeerSpec

-----------------------------------------------------------------------------
(***************************************************************************)
(* Producer analysis.                                                      *)
(***************************************************************************)
VersionRow == [producer : Producers, version : 1..MaxVersions,
               src : [Files -> Unread..MaxEdits]]
JobPcs == {"idle", "load", "hash", "fetch", "config", "llm", "number", "insert", "answered"}
JobType ==
    [pc : JobPcs, guessed : BOOLEAN, deep : BOOLEAN, force : BOOLEAN, routed : BOOLEAN,
     producer : Producers \union {NoOne}, src : [Files -> Unread..MaxEdits],
     row : 0..MaxVersions, next : 0..MaxVersions + 1, stale : BOOLEAN,
     answer : {"none", "stored", "llm", "unavailable"}, from : 0..MaxVersions,
     rest : SUBSET Producers]

OursIn(V, p) == {i \in DOMAIN V : V[i].producer = p}

\* A row was computed from its producer's source as it was then, and is numbered no
\* higher than rows had been inserted.
RowOf(V, i, D) ==
    V[i].version <= i /\ \A f \in Files : V[i].src[f] <= D[V[i].producer][f]

\* A row that did not clash has a higher number than those before it.
Climbing(V, C) ==
    \A i, k \in DOMAIN V :
        i < k /\ V[i].producer = V[k].producer /\ k \notin C => V[i].version < V[k].version

\* The number a save goes with is above all there is, unless someone else saved since.
NumberedRight(j, V) ==
    /\ 1 <= j.next /\ j.next <= Len(V) + 1
    /\ j.from <= Cardinality(OursIn(V, j.producer))
    /\ ~j.guessed /\ j.from = Cardinality(OursIn(V, j.producer)) =>
         \A i \in OursIn(V, j.producer) : V[i].version < j.next

\* What a request is shown is not passed by a row that was there when it began.
Unpassed(j, V, C) == \A i \in OursIn(V, j.producer) : j.row < i /\ i <= j.from => i \in C

StaleFor(j, V, D) ==
    /\ j.row \in OursIn(V, j.producer)
    /\ \E f \in Files :
         \/ D[j.producer][f] # V[j.row].src[f] /\ V[j.row].src[f] # Unread
         \/ (j.src[f] = Unread) # (V[j.row].src[f] = Unread) /\ j.src # NothingRead

JobSound(j, V, C, D) ==
    /\ j.pc # "idle" => j.producer \in Producers
    /\ j.producer \in Producers => \A f \in Files : j.src[f] <= D[j.producer][f]
    /\ j.from <= Len(V)
    /\ j.pc = "hash" => j.row \in OursIn(V, j.producer)
    /\ j.pc \in {"hash", "answered"} => Unpassed(j, V, C)
    /\ j.pc = "insert" => NumberedRight(j, V)
    /\ j.pc = "answered" /\ j.stale => StaleFor(j, V, D)

AnalysisType ==
    /\ disk \in [Producers -> [Files -> 0..MaxEdits]]
    /\ versions \in Seq(VersionRow) /\ Len(versions) <= MaxVersions
    /\ clashed \subseteq 1..Len(versions)
    /\ job \in [Analysts -> JobType]

AnalysisInv ==
    /\ AnalysisType
    /\ \A i \in DOMAIN versions : RowOf(versions, i, disk)
    /\ Climbing(versions, clashed)
    /\ \A a \in Analysts : JobSound(job[a], versions, clashed, disk)

-----------------------------------------------------------------------------
\* The highest number of a producer's rows.
LEMMA TopFound ==
  ASSUME AnalysisInv, NEW p \in Producers
  PROVE  /\ Top(p) \in 0..Len(versions) /\ Ours(p) = OursIn(versions, p)
         /\ \A i \in Ours(p) : versions[i].version <= Top(p)
<1>1. Ours(p) = OursIn(versions, p)
  BY DEF Ours, OursIn
<1>2. /\ Len(versions) \in Nat /\ Ours(p) \subseteq 1..Len(versions)
      /\ \A i \in Ours(p) : versions[i].version \in 0..Len(versions)
  <2>1. \A i \in DOMAIN versions : versions[i].version \in 1..MaxVersions /\ versions[i].version <= i
    <3>1. \A i \in DOMAIN versions : versions[i] \in VersionRow /\ RowOf(versions, i, disk)
      BY DEF AnalysisInv, AnalysisType
    <3> QED BY <3>1 DEF RowOf, VersionRow
  <2>2. Len(versions) \in Nat /\ DOMAIN versions = 1..Len(versions)
    BY DEF AnalysisInv, AnalysisType
  <2> QED BY <2>1, <2>2 DEF Ours
<1>3. CASE Ours(p) = {}
  BY <1>1, <1>2, <1>3 DEF Top
<1>4. CASE Ours(p) # {}
  <2> DEFINE S == {versions[i].version : i \in Ours(p)}
             Greatest(v) == \A i \in Ours(p) : versions[i].version <= v
  <2>1. S \in SUBSET (0..Len(versions)) /\ S # {}
    BY <1>2, <1>4
  <2>2. PICK v \in S : \A w \in S : w <= v
    <3> HIDE DEF S
    <3> QED BY <1>2, <2>1, LargestOf
  <2>3. \E w \in S : Greatest(w)
    BY <2>2
  <2>4. (CHOOSE w \in S : Greatest(w)) \in S /\ Greatest(CHOOSE w \in S : Greatest(w))
    <3> HIDE DEF S, Greatest
    <3> QED BY <2>3, Zenon
  <2>5. Top(p) = CHOOSE w \in S : Greatest(w)
    BY <1>4 DEF Top
  <2>6. Top(p) \in S /\ Greatest(Top(p))
    BY <2>4, <2>5
  <2>7. Top(p) \in 0..Len(versions)
    BY <2>1, <2>6
  <2> QED BY <1>1, <2>6, <2>7
<1> QED BY <1>3, <1>4

\* How many rows a producer has.
LEMMA OursCounted ==
  ASSUME NEW V \in Seq(VersionRow), NEW p
  PROVE  /\ IsFiniteSet(OursIn(V, p)) /\ Cardinality(OursIn(V, p)) \in Nat
         /\ Cardinality(OursIn(V, p)) <= Len(V)
<1>1. IsFiniteSet(1..Len(V)) /\ Cardinality(1..Len(V)) = Len(V)
  <2>1. Len(V) \in Nat /\ 1 \in Int /\ Len(V) \in Int
    OBVIOUS
  <2>2. IsFiniteSet(1..Len(V)) /\ Cardinality(1..Len(V)) = IF 1 > Len(V) THEN 0 ELSE Len(V) - 1 + 1
    BY <2>1, FS_Interval
  <2> QED BY <2>1, <2>2
<1>2. OursIn(V, p) \subseteq 1..Len(V)
  BY DEF OursIn
<1> QED BY <1>1, <1>2, FS_Subset, FS_CardinalityType

\* A row more: the producer's own count goes up, others' rows and counts stay.
LEMMA VersionAdded ==
  ASSUME NEW V \in Seq(VersionRow), NEW r \in VersionRow, NEW p
  PROVE  /\ Append(V, r) \in Seq(VersionRow) /\ Len(Append(V, r)) = Len(V) + 1
         /\ \A i \in 1..Len(V) : Append(V, r)[i] = V[i]
         /\ Append(V, r)[Len(V) + 1] = r
         /\ OursIn(Append(V, r), p)
              = IF r.producer = p THEN OursIn(V, p) \union {Len(V) + 1} ELSE OursIn(V, p)
         /\ Cardinality(OursIn(Append(V, r), p))
              = IF r.producer = p THEN Cardinality(OursIn(V, p)) + 1 ELSE Cardinality(OursIn(V, p))
<1> DEFINE Q == Append(V, r)
<1>1. /\ Len(Q) = Len(V) + 1 /\ Q \in Seq(VersionRow)
      /\ \A i \in 1..Len(V) : Q[i] = V[i]
      /\ Q[Len(V) + 1] = r
  BY AppendProperties
<1> HIDE DEF Q
<1>2. OursIn(Q, p) = IF r.producer = p THEN OursIn(V, p) \union {Len(V) + 1} ELSE OursIn(V, p)
  <2>1. Len(V) \in Nat /\ DOMAIN V = 1..Len(V) /\ DOMAIN Q = 1..(Len(V) + 1)
    BY <1>1
  <2>2. \A i : i \in 1..(Len(V) + 1) <=> i \in 1..Len(V) \/ i = Len(V) + 1
    BY <2>1
  <2> QED BY <1>1, <2>1, <2>2 DEF OursIn
<1>3. Len(V) + 1 \notin OursIn(V, p)
  <2>1. Len(V) \in Nat /\ OursIn(V, p) \subseteq 1..Len(V)
    BY DEF OursIn
  <2> QED BY <2>1
<1>4. Cardinality(OursIn(V, p) \union {Len(V) + 1}) = Cardinality(OursIn(V, p)) + 1
  BY <1>3, OursCounted, FS_AddElement
<1> QED BY <1>1, <1>2, <1>4 DEF Q
-----------------------------------------------------------------------------
\* A step of one request.
LEMMA JobMoves ==
  ASSUME AnalysisInv, UNCHANGED <<disk, versions, clashed>>, NEW a \in Analysts,
         NEW to \in JobType, job' = [job EXCEPT ![a] = to],
         JobSound(to, versions, clashed, disk)
  PROVE  AnalysisInv'
<1>1. AnalysisType'
  BY DEF AnalysisInv, AnalysisType
<1>2. \A b \in Analysts : job'[b] = IF b = a THEN to ELSE job[b]
  BY DEF AnalysisInv, AnalysisType
<1>3. \A b \in Analysts : JobSound(job'[b], versions, clashed, disk)
  BY <1>2 DEF AnalysisInv
<1> QED BY <1>1, <1>3 DEF AnalysisInv

\* A request that is past its first reading and has not stored or shown anything yet.
LEMMA PlainJob ==
  ASSUME AnalysisInv, NEW j \in JobType, j.producer \in Producers, j.from <= Len(versions),
         \A f \in Files : j.src[f] <= disk[j.producer][f],
         j.pc \notin {"hash", "insert", "answered"}
  PROVE  JobSound(j, versions, clashed, disk)
BY DEF JobSound

\* The fields of a request, one by one.
LEMMA JobFields ==
  ASSUME NEW j \in JobType
  PROVE  /\ j.pc \in JobPcs /\ j.producer \in Producers \union {NoOne}
         /\ j.src \in [Files -> Unread..MaxEdits] /\ j.row \in 0..MaxVersions
         /\ j.next \in 0..(MaxVersions + 1) /\ j.from \in 0..MaxVersions
         /\ j.rest \in SUBSET Producers /\ j.guessed \in BOOLEAN /\ j.force \in BOOLEAN
BY DEF JobType

\* A thread that serves no request.
LEMMA NoJobTyped ==
  /\ NoJob \in JobType /\ NothingRead \in [Files -> Unread..MaxEdits]
  /\ NoJob.pc = "idle" /\ NoJob.src = NothingRead /\ NoJob.from = 0 /\ NoJob.row = 0
  /\ NoJob.stale = FALSE /\ NoJob.producer = NoOne
<1>1. /\ 0 \in 0..MaxVersions /\ 0 \in 0..(MaxVersions + 1)
  BY AnalysisAssumption
<1>2. NothingRead \in [Files -> Unread..MaxEdits]
  BY AnalysisAssumption DEF NothingRead, Unread
<1>3. NoJob \in JobType
  BY <1>1, <1>2 DEF NoJob, JobType, JobPcs
<1> QED BY <1>2, <1>3 DEF NoJob

\* Nothing read is older than anything.
LEMMA NothingIsOld ==
  ASSUME AnalysisInv, NEW p \in Producers, NEW f \in Files
  PROVE  NothingRead[f] <= disk[p][f]
<1>1. disk[p][f] \in 0..MaxEdits
  BY DEF AnalysisInv, AnalysisType
<1> QED BY <1>1, AnalysisAssumption DEF NothingRead, Unread

\* A request begins.
LEMMA BeganTyped ==
  ASSUME AnalysisInv, NEW p \in Producers, NEW force \in BOOLEAN
  PROVE  /\ Began(p, force) \in JobType
         /\ Began(p, force).pc = (IF force THEN "fetch" ELSE "load")
         /\ Began(p, force).producer = p /\ Began(p, force).src = NothingRead
         /\ Began(p, force).from \in 0..Len(versions) /\ Began(p, force).stale = FALSE
         /\ Began(p, force).row = 0
<1> DEFINE F == IF force THEN 0 ELSE Len(versions)
<1>1. F \in 0..Len(versions) /\ F \in 0..MaxVersions
  BY AnalysisAssumption DEF AnalysisInv, AnalysisType
<1>2. Began(p, force) = [NoJob EXCEPT !.pc = IF force THEN "fetch" ELSE "load", !.producer = p,
                                      !.force = force, !.from = F]
  BY DEF Began
<1> HIDE DEF F
<1>3. Began(p, force) \in JobType
  <2>1. (IF force THEN "fetch" ELSE "load") \in JobPcs
    BY DEF JobPcs
  <2> QED BY <1>1, <1>2, <2>1, NoJobTyped DEF JobType
<1> QED BY <1>1, <1>2, <1>3 DEF NoJob

\* A request that is answered, or that goes on to the next producer of a comparison.
Settled(j, V) ==
    /\ j \in JobType /\ j.producer \in Producers /\ j.src = NothingRead
    /\ j.from \in 0..Len(V) /\ j.stale = FALSE
    /\ \/ j.pc = "answered" /\ j.from = 0
       \/ j.pc \in {"fetch", "load"}

\* Finish leaves the thread so.
LEMMA FinishSettles ==
  ASSUME AnalysisInv, NEW a \in Analysts, NEW from, NEW answer \in {"stored", "llm", "unavailable"},
         job[a].producer \in Producers, Finish(a, from, answer)
  PROVE  \E to : /\ Settled(to, versions) /\ job[a].pc = from
                 /\ job' = [job EXCEPT ![a] = to]
<1>1. /\ job[a] \in JobType /\ Len(versions) \in Nat
  BY DEF AnalysisInv, AnalysisType
<1>2. CASE job[a].rest = {}
  <2> DEFINE to == [NoJob EXCEPT !.pc = "answered", !.producer = job[a].producer, !.answer = answer]
  <2>1. job[a].pc = from /\ job' = [job EXCEPT ![a] = to]
    BY <1>2 DEF Finish, JobStep
  <2>2. to \in JobType
    BY <1>1, NoJobTyped, JobFields DEF JobType, JobPcs
  <2>3. /\ to.producer = job[a].producer /\ to.src = NothingRead /\ to.from = 0
        /\ to.stale = FALSE /\ to.pc = "answered"
    BY DEF NoJob
  <2> HIDE DEF to
  <2>4. Settled(to, versions)
    BY <1>1, <2>2, <2>3 DEF Settled
  <2> QED BY <2>1, <2>4
<1>3. CASE job[a].rest # {}
  <2> DEFINE p == CHOOSE q \in job[a].rest : TRUE
             b == Began(p, job[a].force)
             to == [b EXCEPT !.routed = FALSE, !.rest = job[a].rest \ {p}]
  <2>1. job[a].pc = from /\ job' = [job EXCEPT ![a] = to]
    BY <1>3 DEF Finish, JobStep
  <2>2. p \in job[a].rest
    BY <1>3
  <2>3. p \in Producers /\ job[a].force \in BOOLEAN /\ job[a].rest \in SUBSET Producers
    BY <1>1, <2>2, JobFields
  <2> HIDE DEF p
  <2>4. /\ b \in JobType /\ b.pc = (IF job[a].force THEN "fetch" ELSE "load")
        /\ b.producer = p /\ b.src = NothingRead /\ b.from \in 0..Len(versions)
        /\ b.stale = FALSE
    BY <2>3, BeganTyped
  <2> HIDE DEF b
  <2>5. to \in JobType
    BY <2>3, <2>4 DEF JobType
  <2>6. /\ to.pc = b.pc /\ to.producer = p /\ to.src = NothingRead /\ to.from = b.from
        /\ to.stale = FALSE
    BY <2>4 DEF JobType
  <2> HIDE DEF to
  <2>7. Settled(to, versions)
    BY <2>3, <2>4, <2>5, <2>6 DEF Settled
  <2> QED BY <2>1, <2>7
<1> QED BY <1>2, <1>3

\* It is sound: it has read nothing and shows no row.
LEMMA SettledSound ==
  ASSUME AnalysisInv, NEW j, Settled(j, versions)
  PROVE  j \in JobType /\ JobSound(j, versions, clashed, disk)
<1>1. /\ versions \in Seq(VersionRow) /\ Len(versions) \in Nat /\ j \in JobType
      /\ j.from <= Len(versions) /\ j.stale = FALSE
  BY DEF AnalysisInv, AnalysisType, Settled
<1>2. \A f \in Files : j.src[f] <= disk[j.producer][f]
  BY NothingIsOld DEF Settled
<1>3. j.pc = "answered" => Unpassed(j, versions, clashed)
  <2> SUFFICES ASSUME j.pc = "answered", NEW i \in OursIn(versions, j.producer),
                      j.row < i, i <= j.from
               PROVE  FALSE
    BY DEF Unpassed
  <2>1. i \in 1..Len(versions) /\ j.from = 0
    BY <1>1 DEF OursIn, Settled
  <2> QED BY <1>1, <2>1
<1> QED BY <1>1, <1>2, <1>3 DEF JobSound, Settled

\* Such a step keeps the invariant.
LEMMA FinishStep ==
  ASSUME AnalysisInv, UNCHANGED <<disk, versions, clashed>>, NEW a \in Analysts, NEW from,
         NEW answer \in {"stored", "llm", "unavailable"},
         job[a].producer \in Producers, Finish(a, from, answer)
  PROVE  AnalysisInv'
<1>1. PICK to : Settled(to, versions) /\ job' = [job EXCEPT ![a] = to]
  BY FinishSettles
<1> QED BY <1>1, SettledSound, JobMoves

-----------------------------------------------------------------------------
\* The requests that begin.
LEMMA AskJobs ==
  ASSUME AnalysisInv
  PROVE  /\ \A p \in Producers, force \in BOOLEAN : AskAnalysis(p, force) => AnalysisInv'
         /\ AskTable => AnalysisInv'
         /\ \A a \in Pool, force \in BOOLEAN : AskCompare(a, force) => AnalysisInv'
         /\ \A a \in Pool, p \in Producers : AskDeep(a, p) => AnalysisInv'
<1>1. Loop \in Analysts /\ Pool \subseteq Analysts
  BY DEF Analysts
<1>2. ASSUME NEW p \in Producers, NEW force \in BOOLEAN, AskAnalysis(p, force) PROVE AnalysisInv'
  <2>1. /\ UNCHANGED <<disk, versions, clashed>>
        /\ job' = [job EXCEPT ![Loop] = Began(p, force)]
    BY <1>2 DEF AskAnalysis, JobStep
  <2>2. Settled(Began(p, force), versions)
    BY BeganTyped DEF Settled
  <2> QED BY <1>1, <2>1, <2>2, SettledSound, JobMoves
<1>3. ASSUME AskTable PROVE AnalysisInv'
  <2> DEFINE i == NewestRow
             to == [NoJob EXCEPT !.pc = "hash", !.routed = FALSE,
                                 !.producer = versions[i].producer, !.row = i, !.from = i]
  <2>1. /\ UNCHANGED <<disk, versions, clashed>> /\ versions # << >>
        /\ job' = [job EXCEPT ![Loop] = to]
    BY <1>3 DEF AskTable, JobStep
  <2>2. /\ versions \in Seq(VersionRow) /\ Len(versions) \in Nat /\ Len(versions) <= MaxVersions
        /\ i = Len(versions)
    BY DEF AnalysisInv, AnalysisType, NewestRow
  <2>3. i \in 1..Len(versions) /\ i \in 0..MaxVersions
    <3>1. Len(versions) # 0
      BY <2>1, <2>2, EmptySeq
    <3> QED BY <2>2, <3>1, AnalysisAssumption
  <2>4. versions[i] \in VersionRow
    BY <2>2, <2>3
  <2>5. versions[i].producer \in Producers
    BY <2>4 DEF VersionRow
  <2> HIDE DEF i
  <2>6. to \in JobType
    BY <2>3, <2>5, NoJobTyped DEF JobType, JobPcs
  <2>7. /\ to.pc = "hash" /\ to.producer = versions[i].producer /\ to.row = i /\ to.from = i
        /\ to.src = NothingRead
    BY DEF NoJob
  <2> HIDE DEF to
  <2>8. \A f \in Files : to.src[f] <= disk[to.producer][f]
    BY <2>5, <2>7, NothingIsOld
  <2>9. to.row \in OursIn(versions, to.producer)
    BY <2>2, <2>3, <2>7 DEF OursIn
  <2>10. Unpassed(to, versions, clashed)
    <3> SUFFICES ASSUME NEW k \in OursIn(versions, to.producer), to.row < k, k <= to.from
                 PROVE  FALSE
      BY DEF Unpassed
    <3>1. k \in 1..Len(versions) /\ i < k /\ k <= i
      BY <2>2, <2>7 DEF OursIn
    <3> QED BY <2>3, <3>1
  <2>11. JobSound(to, versions, clashed, disk)
    BY <2>2, <2>3, <2>5, <2>7, <2>8, <2>9, <2>10 DEF JobSound
  <2> QED BY <1>1, <2>1, <2>6, <2>11, JobMoves
<1>4. ASSUME NEW a \in Pool, NEW force \in BOOLEAN, AskCompare(a, force) PROVE AnalysisInv'
  <2> DEFINE p == CHOOSE q \in Producers : TRUE
             b == Began(p, force)
             to == [b EXCEPT !.routed = FALSE, !.rest = Producers \ {p}]
  <2>1. /\ UNCHANGED <<disk, versions, clashed>> /\ Cardinality(Producers) >= 2
        /\ job' = [job EXCEPT ![a] = to]
    BY <1>4 DEF AskCompare, JobStep
  <2>2. Producers # {}
    BY <2>1, FS_EmptySet
  <2>3. p \in Producers
    BY <2>2
  <2> HIDE DEF p
  <2>4. /\ b \in JobType /\ b.pc = (IF force THEN "fetch" ELSE "load")
        /\ b.producer = p /\ b.src = NothingRead /\ b.from \in 0..Len(versions)
        /\ b.stale = FALSE
    BY <2>3, BeganTyped
  <2> HIDE DEF b
  <2>5. to \in JobType
    BY <2>3, <2>4 DEF JobType
  <2>6. /\ to.pc = b.pc /\ to.producer = p /\ to.src = NothingRead /\ to.from = b.from
        /\ to.stale = FALSE
    BY <2>4 DEF JobType
  <2> HIDE DEF to
  <2>7. Settled(to, versions)
    BY <2>3, <2>4, <2>5, <2>6 DEF Settled
  <2> QED BY <1>1, <2>1, <2>7, SettledSound, JobMoves
<1>5. ASSUME NEW a \in Pool, NEW p \in Producers, AskDeep(a, p) PROVE AnalysisInv'
  <2> DEFINE b == Began(p, TRUE)
             to == [b EXCEPT !.deep = TRUE]
  <2>1. /\ UNCHANGED <<disk, versions, clashed>> /\ job' = [job EXCEPT ![a] = to]
    BY <1>5 DEF AskDeep, JobStep
  <2>2. /\ b \in JobType /\ b.pc = "fetch"
        /\ b.producer = p /\ b.src = NothingRead /\ b.from \in 0..Len(versions)
        /\ b.stale = FALSE
    BY BeganTyped
  <2> HIDE DEF b
  <2>3. to \in JobType
    BY <2>2 DEF JobType
  <2>4. /\ to.pc = b.pc /\ to.producer = p /\ to.src = NothingRead /\ to.from = b.from
        /\ to.stale = FALSE
    BY <2>2 DEF JobType
  <2> HIDE DEF to
  <2>5. Settled(to, versions)
    BY <2>2, <2>3, <2>4 DEF Settled
  <2> QED BY <1>1, <2>1, <2>5, SettledSound, JobMoves
<1> QED BY <1>2, <1>3, <1>4, <1>5

-----------------------------------------------------------------------------
\* What is known of a request under way.
LEMMA JobThere ==
  ASSUME AnalysisInv, NEW a \in Analysts, job[a].pc # "idle"
  PROVE  /\ job[a] \in JobType /\ job[a].producer \in Producers
         /\ job[a].from <= Len(versions) /\ JobSound(job[a], versions, clashed, disk)
         /\ \A f \in Files : job[a].src[f] <= disk[job[a].producer][f]
<1>1. job[a] \in JobType /\ JobSound(job[a], versions, clashed, disk)
  BY DEF AnalysisInv, AnalysisType
<1> QED BY <1>1 DEF JobSound

\* Of the newest version of a producer: no row passed it that did not clash.
LEMMA LoadStep ==
  ASSUME AnalysisInv, NEW a \in Analysts, Load(a)
  PROVE  AnalysisInv'
<1> DEFINE j == job[a]
<1>1. /\ j \in JobType /\ j.producer \in Producers /\ j.from <= Len(versions)
      /\ \A f \in Files : j.src[f] <= disk[j.producer][f]
      /\ UNCHANGED <<disk, versions, clashed>>
  BY JobThere DEF Load, JobStep
<1>2. ASSUME NEW i \in Latest(j.producer),
             job' = [job EXCEPT ![a] = [j EXCEPT !.pc = "hash", !.row = i]]
      PROVE  AnalysisInv'
  <2> DEFINE to == [j EXCEPT !.pc = "hash", !.row = i]
  <2>1. /\ Ours(j.producer) = OursIn(versions, j.producer)
        /\ \A k \in OursIn(versions, j.producer) : versions[k].version <= Top(j.producer)
        /\ i \in OursIn(versions, j.producer) /\ versions[i].version = Top(j.producer)
    BY <1>1, TopFound DEF Latest
  <2>2. /\ versions \in Seq(VersionRow) /\ Len(versions) \in Nat /\ Len(versions) <= MaxVersions
        /\ Climbing(versions, clashed)
    BY DEF AnalysisInv, AnalysisType
  <2>3. i \in 1..Len(versions) /\ i \in 0..MaxVersions
    <3>1. i \in 1..Len(versions)
      BY <2>1, <2>2 DEF OursIn
    <3> QED BY <2>2, <3>1, AnalysisAssumption
  <2>4. to \in JobType
    BY <1>1, <2>3 DEF JobType, JobPcs
  <2>5. /\ to.pc = "hash" /\ to.row = i /\ to.producer = j.producer /\ to.from = j.from
        /\ to.src = j.src
    BY <1>1 DEF JobType
  <2> HIDE DEF to, j
  <2>6. Unpassed(to, versions, clashed)
    <3> SUFFICES ASSUME NEW k \in OursIn(versions, j.producer), i < k, k \notin clashed
                 PROVE  FALSE
      BY <2>5 DEF Unpassed
    <3>1. k \in DOMAIN versions /\ i \in DOMAIN versions
          /\ versions[i].producer = versions[k].producer
      BY <2>1 DEF OursIn
    <3>2. versions[i].version < versions[k].version
      BY <2>2, <3>1 DEF Climbing
    <3>3. versions[i] \in VersionRow /\ versions[k] \in VersionRow
      BY <2>2, <3>1
    <3>4. versions[i].version \in Int /\ versions[k].version \in Int
      BY <3>3 DEF VersionRow
    <3>5. versions[k].version <= versions[i].version
      BY <2>1
    <3> QED BY <3>2, <3>4, <3>5
  <2>7. JobSound(to, versions, clashed, disk)
    BY <1>1, <2>1, <2>5, <2>6 DEF JobSound
  <2>8. job' = [job EXCEPT ![a] = to]
    BY <1>2 DEF to, j
  <2> QED BY <1>1, <2>4, <2>7, <2>8, JobMoves
<1>3. ASSUME job' = [job EXCEPT ![a] = [j EXCEPT !.pc = "fetch"]] PROVE AnalysisInv'
  <2> DEFINE to == [j EXCEPT !.pc = "fetch"]
  <2>1. to \in JobType
    BY <1>1 DEF JobType, JobPcs
  <2>2. /\ to.pc = "fetch" /\ to.producer = j.producer /\ to.from = j.from
        /\ to.src = j.src
    BY <1>1 DEF JobType
  <2>3. job' = [job EXCEPT ![a] = to]
    BY <1>3
  <2> HIDE DEF to, j
  <2>4. JobSound(to, versions, clashed, disk)
    BY <1>1, <2>1, <2>2, PlainJob
  <2> QED BY <1>1, <2>1, <2>3, <2>4, JobMoves
<1> QED BY <1>2, <1>3 DEF Load, JobStep

\* A file is read as it is, or not at all.
LEMMA ReadAsItIs ==
  ASSUME AnalysisInv, NEW j \in JobType, j.producer \in Producers, NEW src \in Readable(j)
  PROVE  /\ src \in [Files -> Unread..MaxEdits]
         /\ \A f \in Files : src[f] = Unread \/ src[f] = disk[j.producer][f]
         /\ \A f \in Files : src[f] <= disk[j.producer][f]
<1>1. \A f \in Files : /\ disk[j.producer][f] \in 0..MaxEdits
                       /\ disk[j.producer][f] \in Unread..MaxEdits /\ Unread \in Unread..MaxEdits
                       /\ Unread <= disk[j.producer][f] /\ disk[j.producer][f] <= disk[j.producer][f]
  <2>1. \A f \in Files : disk[j.producer][f] \in 0..MaxEdits
    BY DEF AnalysisInv, AnalysisType
  <2> QED BY <2>1, AnalysisAssumption DEF Unread
<1>2. CASE src = NothingRead
  BY <1>1, <1>2 DEF NothingRead
<1>3. CASE src # NothingRead
  <2>1. PICK denied : src = [f \in Files |-> IF f \in FilesOf[j.producer] \ denied
                                             THEN disk[j.producer][f] ELSE Unread]
    BY <1>3 DEF Readable
  <2> QED BY <1>1, <2>1
<1> QED BY <1>2, <1>3

\* A stored version is called stale for a reason.
LEMMA ShowStep ==
  ASSUME AnalysisInv, NEW a \in Analysts, ShowStored(a)
  PROVE  AnalysisInv'
<1> DEFINE j == job[a]
<1>1. /\ j \in JobType /\ j.producer \in Producers /\ j.from <= Len(versions)
      /\ JobSound(j, versions, clashed, disk) /\ j.pc = "hash"
      /\ UNCHANGED <<disk, versions, clashed>>
  BY JobThere DEF ShowStored, JobStep
<1>2. CASE Finish(a, "hash", "stored")
  BY <1>1, <1>2, FinishStep
<1>3. ASSUME NEW src \in Readable(j),
             job' = [job EXCEPT ![a] = [j EXCEPT !.pc = "answered", !.answer = "stored",
                        !.src = src, !.stale = IsStale(src, versions[j.row].src)]]
      PROVE  AnalysisInv'
  <2> DEFINE stale == IsStale(src, versions[j.row].src)
             to == [j EXCEPT !.pc = "answered", !.answer = "stored", !.src = src, !.stale = stale]
  <2>1. job' = [job EXCEPT ![a] = to]
    BY <1>3
  <2>2. stale \in BOOLEAN
    BY DEF IsStale
  <2>3. /\ src \in [Files -> Unread..MaxEdits]
        /\ \A f \in Files : src[f] = Unread \/ src[f] = disk[j.producer][f]
        /\ \A f \in Files : src[f] <= disk[j.producer][f]
    BY <1>1, ReadAsItIs
  <2>4. stale => src # NothingRead /\ src # versions[j.row].src
    BY DEF IsStale
  <2> HIDE DEF stale
  <2>5. to \in JobType
    BY <1>1, <2>2, <2>3 DEF JobType, JobPcs
  <2>6. /\ to.pc = "answered" /\ to.row = j.row /\ to.producer = j.producer /\ to.from = j.from
        /\ to.src = src /\ to.stale = stale
    BY <1>1 DEF JobType
  <2> HIDE DEF to, j
  <2>7. j.row \in OursIn(versions, j.producer) /\ Unpassed(j, versions, clashed)
    BY <1>1 DEF JobSound
  <2>8. Unpassed(to, versions, clashed)
    BY <2>6, <2>7 DEF Unpassed
  <2>9. stale => StaleFor(to, versions, disk)
    <3> SUFFICES ASSUME stale PROVE StaleFor(to, versions, disk)
      OBVIOUS
    <3> DEFINE old == versions[j.row].src
    <3>1. old \in [Files -> Unread..MaxEdits]
      <4>1. versions[j.row] \in VersionRow
        BY <2>7 DEF AnalysisInv, AnalysisType, OursIn
      <4> QED BY <4>1 DEF VersionRow
    <3>2. src # NothingRead /\ src # old
      BY <2>4
    <3> HIDE DEF old
    <3>3. PICK f \in Files : src[f] # old[f]
      BY <2>3, <3>1, <3>2
    <3>4. CASE src[f] = Unread
      <4>1. old[f] # Unread
        BY <3>3, <3>4
      <4>2. (src[f] = Unread) # (old[f] = Unread)
        BY <3>4, <4>1
      <4> QED BY <2>6, <2>7, <3>2, <4>2 DEF StaleFor, old
    <3>5. CASE src[f] # Unread /\ old[f] = Unread
      <4>1. (src[f] = Unread) # (old[f] = Unread)
        BY <3>5
      <4> QED BY <2>6, <2>7, <3>2, <4>1 DEF StaleFor, old
    <3>6. CASE src[f] # Unread /\ old[f] # Unread
      <4>1. disk[j.producer][f] # old[f]
        BY <2>3, <3>3, <3>6
      <4> QED BY <2>6, <2>7, <3>6, <4>1 DEF StaleFor, old
    <3> QED BY <3>4, <3>5, <3>6
  <2>10. JobSound(to, versions, clashed, disk)
    BY <1>1, <2>3, <2>6, <2>8, <2>9 DEF JobSound
  <2> QED BY <1>1, <2>1, <2>5, <2>10, JobMoves
<1> QED BY <1>2, <1>3 DEF ShowStored, JobStep

\* The steps between a reading and the answer.
LEMMA PlainSteps ==
  ASSUME AnalysisInv, NEW a \in Analysts
  PROVE  /\ Fetch(a) => AnalysisInv'
         /\ ReadConfig(a) => AnalysisInv'
         /\ AskLLM(a) => AnalysisInv'
         /\ AnalysisReturn(a) => AnalysisInv'
<1> DEFINE j == job[a]
<1>1. ASSUME Fetch(a) PROVE AnalysisInv'
  <2>1. /\ j \in JobType /\ j.producer \in Producers /\ j.from <= Len(versions)
        /\ UNCHANGED <<disk, versions, clashed>>
    BY <1>1, JobThere DEF Fetch
  <2>2. CASE Finish(a, "fetch", "unavailable")
    BY <2>1, <2>2, FinishStep
  <2>3. ASSUME NEW src \in Readable(j),
               job' = [job EXCEPT ![a] = [j EXCEPT !.pc = IF j.deep THEN "config" ELSE "llm",
                                                   !.src = src, !.from = 0]]
        PROVE  AnalysisInv'
    <3> DEFINE to == [j EXCEPT !.pc = IF j.deep THEN "config" ELSE "llm",
                               !.src = src, !.from = 0]
    <3>1. /\ src \in [Files -> Unread..MaxEdits]
          /\ \A f \in Files : src[f] <= disk[j.producer][f]
      BY <2>1, ReadAsItIs
    <3>2. 0 \in 0..MaxVersions /\ 0 <= Len(versions)
      BY AnalysisAssumption DEF AnalysisInv, AnalysisType
    <3>3. to \in JobType
      BY <2>1, <3>1, <3>2 DEF JobType, JobPcs
    <3>4. /\ to.pc \in {"config", "llm"} /\ to.producer = j.producer /\ to.src = src /\ to.from = 0
      BY <2>1 DEF JobType
    <3>5. job' = [job EXCEPT ![a] = to]
      BY <2>3
    <3> HIDE DEF to, j
    <3>6. JobSound(to, versions, clashed, disk)
      BY <2>1, <3>1, <3>2, <3>3, <3>4, PlainJob
    <3> QED BY <2>1, <3>3, <3>5, <3>6, JobMoves
  <2> QED BY <1>1, <2>2, <2>3 DEF Fetch, JobStep
\* On to the next stage with nothing else changed.
<1>2. ASSUME NEW pc \in {"llm", "number"}, NEW to,
             to = [j EXCEPT !.pc = pc] \/ to = [j EXCEPT !.pc = pc, !.deep = FALSE],
             job[a].pc # "idle", UNCHANGED <<disk, versions, clashed>>,
             job' = [job EXCEPT ![a] = to]
      PROVE  AnalysisInv'
  <2>1. /\ j \in JobType /\ j.producer \in Producers /\ j.from <= Len(versions)
        /\ \A f \in Files : j.src[f] <= disk[j.producer][f]
    BY <1>2, JobThere
  <2>2. to \in JobType
    <3>1. pc \in JobPcs /\ FALSE \in BOOLEAN
      BY DEF JobPcs
    <3>2. [j EXCEPT !.pc = pc] \in JobType
      BY <2>1, <3>1 DEF JobType
    <3>3. [j EXCEPT !.pc = pc, !.deep = FALSE] \in JobType
      BY <2>1, <3>1 DEF JobType
    <3> QED BY <1>2, <3>2, <3>3
  <2>3. to.pc = pc /\ to.producer = j.producer /\ to.src = j.src /\ to.from = j.from
    BY <1>2, <2>1 DEF JobType
  <2> HIDE DEF j
  <2>4. JobSound(to, versions, clashed, disk)
    BY <2>1, <2>2, <2>3, PlainJob
  <2> QED BY <1>2, <2>2, <2>4, JobMoves
<1>3. ASSUME ReadConfig(a) PROVE AnalysisInv'
  <2>1. j.producer \in Producers /\ UNCHANGED <<disk, versions, clashed>> /\ j.pc # "idle"
    BY <1>3, JobThere DEF ReadConfig, JobStep
  <2>2. CASE Finish(a, "config", "unavailable")
    BY <2>1, <2>2, FinishStep
  <2>3. CASE job' = [job EXCEPT ![a] = [j EXCEPT !.pc = "llm"]]
    BY <1>2, <2>1, <2>3
  <2> QED BY <1>3, <2>2, <2>3 DEF ReadConfig, JobStep
<1>4. ASSUME AskLLM(a) PROVE AnalysisInv'
  <2>1. j.producer \in Producers /\ UNCHANGED <<disk, versions, clashed>> /\ j.pc # "idle"
    BY <1>4, JobThere DEF AskLLM, JobStep
  <2>2. CASE Finish(a, "llm", "unavailable")
    BY <2>1, <2>2, FinishStep
  <2>3. CASE job' = [job EXCEPT ![a] = [j EXCEPT !.pc = "number", !.deep = FALSE]]
    BY <1>2, <2>1, <2>3
  <2> QED BY <1>4, <2>2, <2>3 DEF AskLLM, JobStep
<1>5. ASSUME AnalysisReturn(a) PROVE AnalysisInv'
  <2>1. job' = [job EXCEPT ![a] = NoJob] /\ UNCHANGED <<disk, versions, clashed>>
    BY <1>5 DEF AnalysisReturn, JobStep
  <2>2. 0 <= Len(versions)
    BY DEF AnalysisInv, AnalysisType
  <2>3. JobSound(NoJob, versions, clashed, disk)
    BY <2>2, NoJobTyped, NothingIsOld DEF JobSound
  <2> QED BY <2>1, <2>3, NoJobTyped, JobMoves
<1> QED BY <1>1, <1>3, <1>4, <1>5

\* The number is above all of the producer's, or its MAX has failed.
LEMMA NumberStep ==
  ASSUME AnalysisInv, NEW a \in Analysts, Number(a)
  PROVE  AnalysisInv'
<1> DEFINE j == job[a]
           p == j.producer
           count == Cardinality(OursIn(versions, p))
<1>1. /\ j \in JobType /\ p \in Producers /\ UNCHANGED <<disk, versions, clashed>>
      /\ \A f \in Files : j.src[f] <= disk[p][f]
  BY JobThere DEF Number
<1>2. /\ Top(p) \in 0..Len(versions) /\ Ours(p) = OursIn(versions, p)
      /\ \A i \in OursIn(versions, p) : versions[i].version <= Top(p)
  BY <1>1, TopFound
<1>3. /\ versions \in Seq(VersionRow) /\ Len(versions) \in Nat /\ Len(versions) <= MaxVersions
      /\ MaxVersions \in Nat
  BY AnalysisAssumption DEF AnalysisInv, AnalysisType
<1>4. count \in 0..MaxVersions /\ count <= Len(versions)
  <2>1. count \in Nat /\ count <= Len(versions)
    BY <1>3, OursCounted
  <2> HIDE DEF count
  <2> QED BY <1>3, <2>1
<1>5. Top(p) + 1 \in 0..(MaxVersions + 1) /\ 1 \in 0..(MaxVersions + 1)
  BY <1>2, <1>3
<1>6. \A i \in OursIn(versions, p) : versions[i].version < Top(p) + 1
  <2> SUFFICES ASSUME NEW i \in OursIn(versions, p) PROVE versions[i].version < Top(p) + 1
    OBVIOUS
  <2>1. versions[i] \in VersionRow
    BY <1>3 DEF OursIn
  <2>2. versions[i].version \in Nat
    BY <2>1 DEF VersionRow
  <2>3. versions[i].version <= Top(p) /\ Top(p) \in Nat
    BY <1>2, <1>3
  <2> QED BY <2>2, <2>3
<1>7. ASSUME NEW next \in 0..(MaxVersions + 1), NEW guessed \in BOOLEAN,
             1 <= next, next <= Len(versions) + 1,
             ~guessed => \A i \in OursIn(versions, p) : versions[i].version < next,
             job' = [job EXCEPT ![a] = [j EXCEPT !.pc = "insert", !.from = count, !.next = next,
                                                 !.guessed = guessed]]
      PROVE  AnalysisInv'
  <2> DEFINE to == [j EXCEPT !.pc = "insert", !.from = count, !.next = next, !.guessed = guessed]
  <2>1. job' = [job EXCEPT ![a] = to]
    BY <1>7
  <2> HIDE DEF count
  <2>2. to \in JobType
    BY <1>1, <1>4 DEF JobType, JobPcs
  <2>3. /\ to.pc = "insert" /\ to.from = count /\ to.next = next /\ to.guessed = guessed
        /\ to.producer = p /\ to.src = j.src
    BY <1>1 DEF JobType
  <2> HIDE DEF to
  <2>4. NumberedRight(to, versions)
    BY <1>4, <1>7, <2>3 DEF NumberedRight, count
  <2>5. JobSound(to, versions, clashed, disk)
    BY <1>1, <1>4, <2>3, <2>4 DEF JobSound
  <2> QED BY <1>1, <2>1, <2>2, <2>5, JobMoves
<1>8. ASSUME job' = [job EXCEPT ![a] = [[j EXCEPT !.pc = "insert", !.from = Cardinality(Ours(p))]
                                         EXCEPT !.next = NextVersion(p)]]
      PROVE  AnalysisInv'
  <2>1. job' = [job EXCEPT ![a] = [j EXCEPT !.pc = "insert", !.from = count,
                                            !.next = Top(p) + 1, !.guessed = j.guessed]]
    BY <1>1, <1>2, <1>8 DEF NextVersion, JobType
  <2>2. j.guessed \in BOOLEAN
    BY <1>1, JobFields
  <2>3. 1 <= Top(p) + 1 /\ Top(p) + 1 <= Len(versions) + 1
    BY <1>2, <1>3
  <2> QED BY <1>5, <1>6, <1>7, <2>1, <2>2, <2>3
<1>9. ASSUME job' = [job EXCEPT ![a] = [[j EXCEPT !.pc = "insert", !.from = Cardinality(Ours(p))]
                                         EXCEPT !.next = 1, !.guessed = TRUE]]
      PROVE  AnalysisInv'
  <2>1. job' = [job EXCEPT ![a] = [j EXCEPT !.pc = "insert", !.from = count,
                                            !.next = 1, !.guessed = TRUE]]
    BY <1>1, <1>2, <1>9 DEF JobType
  <2>2. 1 <= 1 /\ 1 <= Len(versions) + 1
    BY <1>3
  <2>3. ~TRUE => \A i \in OursIn(versions, p) : versions[i].version < 1
    OBVIOUS
  <2>4. TRUE \in BOOLEAN
    OBVIOUS
  <2> HIDE DEF j, p, count
  <2> QED BY <1>5, <1>7, <2>1, <2>2, <2>3, <2>4, Zenon
<1>10. \/ job' = [job EXCEPT ![a] = [[j EXCEPT !.pc = "insert", !.from = Cardinality(Ours(p))]
                                         EXCEPT !.next = NextVersion(p)]]
       \/ job' = [job EXCEPT ![a] = [[j EXCEPT !.pc = "insert", !.from = Cardinality(Ours(p))]
                                         EXCEPT !.next = 1, !.guessed = TRUE]]
  <2>1. [j EXCEPT !.pc = "insert", !.from = Cardinality(Ours(p))].producer = p
    BY <1>1 DEF JobType
  <2> QED BY <2>1 DEF Number, JobStep
<1> QED BY <1>8, <1>9, <1>10

\* A request is as sound as before when a row is added.
LEMMA RowSurvived ==
  ASSUME NEW V \in Seq(VersionRow), NEW r \in VersionRow, NEW C, NEW D, NEW C2, C \subseteq C2,
         NEW j \in JobType, JobSound(j, V, C, D)
  PROVE  JobSound(j, Append(V, r), C2, D)
<1> DEFINE W == Append(V, r)
           p == j.producer
<1>1. /\ Len(W) = Len(V) + 1 /\ \A i \in 1..Len(V) : W[i] = V[i]
      /\ OursIn(W, p) = IF r.producer = p THEN OursIn(V, p) \union {Len(V) + 1} ELSE OursIn(V, p)
      /\ Cardinality(OursIn(W, p))
           = IF r.producer = p THEN Cardinality(OursIn(V, p)) + 1 ELSE Cardinality(OursIn(V, p))
  <2> HIDE DEF p, W
  <2>1. Len(Append(V, r)) = Len(V) + 1 /\ \A i \in 1..Len(V) : Append(V, r)[i] = V[i]
    BY VersionAdded
  <2>2. OursIn(Append(V, r), p)
          = IF r.producer = p THEN OursIn(V, p) \union {Len(V) + 1} ELSE OursIn(V, p)
    BY VersionAdded
  <2>3. Cardinality(OursIn(Append(V, r), p))
          = IF r.producer = p THEN Cardinality(OursIn(V, p)) + 1 ELSE Cardinality(OursIn(V, p))
    BY VersionAdded
  <2> QED BY <2>1, <2>2, <2>3 DEF W
<1>2. /\ Len(V) \in Nat /\ DOMAIN V = 1..Len(V) /\ OursIn(V, p) \subseteq 1..Len(V)
      /\ Cardinality(OursIn(V, p)) \in Nat /\ j.from \in Int /\ j.next \in Int
  <2>1. Len(V) \in Nat /\ DOMAIN V = 1..Len(V) /\ OursIn(V, p) \subseteq 1..Len(V)
    BY DEF OursIn
  <2>2. j.from \in Int /\ j.next \in Int
    BY JobFields, AnalysisAssumption
  <2> QED BY <2>1, <2>2, OursCounted
<1> HIDE DEF W
<1>3. /\ j.pc # "idle" => p \in Producers
      /\ p \in Producers => \A f \in Files : j.src[f] <= D[p][f]
      /\ j.from <= Len(V)
      /\ j.pc = "hash" => j.row \in OursIn(V, p)
      /\ j.pc \in {"hash", "answered"} => Unpassed(j, V, C)
      /\ j.pc = "insert" => NumberedRight(j, V)
      /\ j.pc = "answered" /\ j.stale => StaleFor(j, V, D)
  BY DEF JobSound
<1>4. OursIn(V, p) \subseteq OursIn(W, p)
  BY <1>1
<1>5. ASSUME Unpassed(j, V, C) PROVE Unpassed(j, W, C2)
  <2> SUFFICES ASSUME NEW i \in OursIn(W, p), j.row < i, i <= j.from
               PROVE  i \in C2
    BY DEF Unpassed
  <2>1. i \in OursIn(V, p)
    BY <1>1, <1>2, <1>3
  <2> QED BY <1>5, <2>1 DEF Unpassed
<1>6. ASSUME NumberedRight(j, V) PROVE NumberedRight(j, W)
  <2>1. /\ 1 <= j.next /\ j.next <= Len(V) + 1 /\ j.from <= Cardinality(OursIn(V, p))
        /\ ~j.guessed /\ j.from = Cardinality(OursIn(V, p)) =>
             \A i \in OursIn(V, p) : V[i].version < j.next
    BY <1>6 DEF NumberedRight
  <2>2. CASE r.producer = p
    <3>1. j.from < Cardinality(OursIn(W, p))
      BY <1>1, <1>2, <2>1, <2>2
    <3> QED BY <1>1, <1>2, <2>1, <3>1 DEF NumberedRight
  <2>3. CASE r.producer # p
    <3>1. OursIn(W, p) = OursIn(V, p) /\ \A i \in OursIn(V, p) : W[i] = V[i]
      BY <1>1, <1>2, <2>3
    <3>2. j.next <= Len(W) + 1
      BY <1>1, <1>2, <2>1
    <3> QED BY <2>1, <3>1, <3>2 DEF NumberedRight
  <2> QED BY <2>2, <2>3
<1>7. ASSUME StaleFor(j, V, D) PROVE StaleFor(j, W, D)
  <2>1. j.row \in OursIn(W, p) /\ W[j.row] = V[j.row]
    BY <1>1, <1>2, <1>4, <1>7 DEF StaleFor
  <2> QED BY <1>7, <2>1 DEF StaleFor
<1>8. j.from <= Len(W)
  BY <1>1, <1>2, <1>3
<1> QED BY <1>3, <1>4, <1>5, <1>6, <1>7, <1>8 DEF JobSound, W

\* The row is numbered above its producer's others, or it has clashed.
LEMMA InsertStep ==
  ASSUME AnalysisInv, NEW a \in Analysts, InsertVersion(a)
  PROVE  AnalysisInv'
<1> DEFINE j == job[a]
           p == j.producer
           r == [producer |-> p, version |-> j.next, src |-> j.src]
           beside == j.guessed \/ j.from # Cardinality(Ours(p))
<1>1. /\ j \in JobType /\ p \in Producers /\ JobSound(j, versions, clashed, disk)
      /\ j.pc = "insert" /\ disk' = disk
      /\ \A f \in Files : j.src[f] <= disk[p][f]
  BY JobThere DEF InsertVersion
<1>2. Finish(a, "insert", "llm")
  BY DEF InsertVersion
<1>3. CASE UNCHANGED <<versions, clashed>>
  BY <1>1, <1>2, <1>3, FinishStep
<1>4. ASSUME Len(versions) < MaxVersions, versions' = Append(versions, r),
             clashed' = IF beside THEN clashed \union {Len(versions')} ELSE clashed
      PROVE  AnalysisInv'
  <2>1. /\ versions \in Seq(VersionRow) /\ Len(versions) \in Nat /\ clashed \subseteq 1..Len(versions)
        /\ job \in [Analysts -> JobType] /\ disk \in [Producers -> [Files -> 0..MaxEdits]]
        /\ Climbing(versions, clashed) /\ \A i \in DOMAIN versions : RowOf(versions, i, disk)
        /\ \A b \in Analysts : JobSound(job[b], versions, clashed, disk)
    BY DEF AnalysisInv, AnalysisType
  <2>2. NumberedRight(j, versions)
    BY <1>1 DEF JobSound
  <2>3. j.next \in 1..MaxVersions /\ j.next <= Len(versions) + 1
    BY <1>1, <1>4, <2>1, <2>2, JobFields, AnalysisAssumption DEF NumberedRight
  <2>4. r \in VersionRow /\ r.producer = p /\ r.version = j.next /\ r.src = j.src
    <3>1. j.src \in [Files -> Unread..MaxEdits]
      BY <1>1, JobFields
    <3> QED BY <1>1, <2>3, <3>1 DEF VersionRow
  <2>5. beside <=> j.guessed \/ j.from # Cardinality(OursIn(versions, p))
    BY DEF Ours, OursIn
  <2>6. PICK to : Settled(to, versions) /\ job' = [job EXCEPT ![a] = to]
    BY <1>1, <1>2, FinishSettles
  <2>7. to \in JobType /\ JobSound(to, versions, clashed, disk)
    BY <2>6, SettledSound
  <2> HIDE DEF r, beside, j, p
  <2>8. /\ versions' \in Seq(VersionRow) /\ Len(versions') = Len(versions) + 1
        /\ \A i \in 1..Len(versions) : versions'[i] = versions[i]
        /\ versions'[Len(versions) + 1] = r
        /\ DOMAIN versions' = 1..(Len(versions) + 1) /\ DOMAIN versions = 1..Len(versions)
    <3>1. /\ versions' \in Seq(VersionRow) /\ Len(versions') = Len(versions) + 1
          /\ \A i \in 1..Len(versions) : versions'[i] = versions[i]
          /\ versions'[Len(versions) + 1] = r
      BY <1>4, <2>1, <2>4, VersionAdded
    <3> QED BY <2>1, <3>1
  <2>9. clashed \subseteq clashed' /\ clashed' \subseteq 1..(Len(versions) + 1)
        /\ (beside => Len(versions) + 1 \in clashed')
    <3>1. Len(versions) + 1 \in 1..(Len(versions) + 1) /\ clashed \subseteq 1..(Len(versions) + 1)
      BY <2>1
    <3>2. CASE beside
      <4>1. clashed' = clashed \union {Len(versions) + 1}
        BY <1>4, <2>8, <3>2
      <4> QED BY <3>1, <4>1
    <3>3. CASE ~beside
      <4>1. clashed' = clashed
        BY <1>4, <3>3
      <4> QED BY <3>1, <3>3, <4>1
    <3> QED BY <3>2, <3>3
  <2>10. AnalysisType'
    <3>1. job' \in [Analysts -> JobType]
      BY <2>1, <2>6, <2>7
    <3>2. Len(versions') <= MaxVersions
      BY <1>4, <2>1, <2>8, AnalysisAssumption
    <3> QED BY <1>1, <2>1, <2>8, <2>9, <3>1, <3>2 DEF AnalysisType
  <2>11. \A i \in DOMAIN versions' : RowOf(versions', i, disk)
    <3> SUFFICES ASSUME NEW i \in DOMAIN versions' PROVE RowOf(versions', i, disk)
      OBVIOUS
    <3>1. CASE i \in 1..Len(versions)
      BY <2>1, <2>8, <3>1 DEF RowOf
    <3>2. CASE i = Len(versions) + 1
      BY <1>1, <2>3, <2>4, <2>8, <3>2 DEF RowOf
    <3> QED BY <2>1, <2>8, <3>1, <3>2
  <2>12. Climbing(versions', clashed')
    <3> SUFFICES ASSUME NEW i \in DOMAIN versions', NEW k \in DOMAIN versions', i < k,
                        versions'[i].producer = versions'[k].producer, k \notin clashed'
                 PROVE  versions'[i].version < versions'[k].version
      BY DEF Climbing
    <3>1. i \in 1..Len(versions)
      BY <2>1, <2>8
    <3>2. CASE k \in 1..Len(versions)
      BY <2>1, <2>8, <2>9, <3>1, <3>2 DEF Climbing
    <3>3. CASE k = Len(versions) + 1
      <4>1. ~j.guessed /\ j.from = Cardinality(OursIn(versions, p))
        BY <2>5, <2>9, <3>3
      <4>2. i \in OursIn(versions, p)
        BY <2>4, <2>8, <3>1, <3>3 DEF OursIn
      <4>3. versions[i].version < j.next
        BY <2>2, <4>1, <4>2 DEF NumberedRight, p
      <4> QED BY <2>4, <2>8, <3>1, <3>3, <4>3
    <3> QED BY <2>1, <2>8, <3>2, <3>3
  <2>13. ASSUME NEW b \in Analysts
         PROVE  JobSound(job'[b], versions', clashed', disk)
    <3>1. job'[b] \in JobType /\ JobSound(job'[b], versions, clashed, disk)
      BY <2>1, <2>6, <2>7
    <3> QED BY <1>4, <2>1, <2>4, <2>9, <3>1, RowSurvived
  <2> QED BY <1>1, <2>10, <2>11, <2>12, <2>13 DEF AnalysisInv
<1> QED BY <1>1, <1>3, <1>4 DEF InsertVersion

\* A file only moves away from what was read of it.
LEMMA EditStep ==
  ASSUME AnalysisInv, NEW e \in Producers \X Files, Edit(e[1], e[2])
  PROVE  AnalysisInv'
<1> DEFINE p == e[1]
           f == e[2]
<1>1. /\ p \in Producers /\ f \in Files /\ disk[p][f] < MaxEdits
      /\ disk' = [disk EXCEPT ![p][f] = @ + 1] /\ UNCHANGED <<versions, job, clashed>>
  BY DEF Edit
<1> HIDE DEF p, f
<1>2. \A q \in Producers, g \in Files : disk[q][g] \in 0..MaxEdits
  BY DEF AnalysisInv, AnalysisType
<1>3. \A q \in Producers, g \in Files :
         disk'[q][g] = IF q = p /\ g = f THEN disk[q][g] + 1 ELSE disk[q][g]
  BY <1>1 DEF AnalysisInv, AnalysisType
<1>4. disk' \in [Producers -> [Files -> 0..MaxEdits]]
  <2>1. disk[p][f] + 1 \in 0..MaxEdits
    BY <1>1, <1>2, AnalysisAssumption
  <2> QED BY <1>1, <2>1 DEF AnalysisInv, AnalysisType
<1>5. ASSUME NEW q \in Producers, NEW g \in Files, NEW n \in Int, n <= disk[q][g]
      PROVE  n <= disk'[q][g] /\ (disk[q][g] # n => disk'[q][g] # n)
  BY <1>2, <1>3, <1>5
<1>6. \A i \in DOMAIN versions :
         /\ versions[i] \in VersionRow /\ versions[i].producer \in Producers
         /\ versions[i].version <= i
         /\ \A g \in Files : /\ versions[i].src[g] \in Int
                             /\ versions[i].src[g] <= disk[versions[i].producer][g]
  <2> SUFFICES ASSUME NEW i \in DOMAIN versions
               PROVE  /\ versions[i] \in VersionRow /\ versions[i].producer \in Producers
                      /\ versions[i].version <= i
                      /\ \A g \in Files : /\ versions[i].src[g] \in Int
                                          /\ versions[i].src[g] <= disk[versions[i].producer][g]
    OBVIOUS
  <2>1. versions[i] \in VersionRow /\ RowOf(versions, i, disk)
    BY DEF AnalysisInv, AnalysisType
  <2>2. versions[i].producer \in Producers /\ versions[i].src \in [Files -> Unread..MaxEdits]
    BY <2>1 DEF VersionRow
  <2>3. \A n \in Unread..MaxEdits : n \in Int
    OBVIOUS
  <2> QED BY <2>1, <2>2, <2>3 DEF RowOf
<1>7. \A i \in DOMAIN versions : RowOf(versions, i, disk')
  BY <1>5, <1>6 DEF RowOf
<1>8. ASSUME NEW a \in Analysts PROVE JobSound(job[a], versions, clashed, disk')
  <2> DEFINE j == job[a]
  <2>1. j \in JobType /\ JobSound(j, versions, clashed, disk)
    BY DEF AnalysisInv, AnalysisType
  <2>2. \A g \in Files : j.src[g] \in Int
    <3>1. j.src \in [Files -> Unread..MaxEdits]
      BY <2>1, JobFields
    <3> QED BY <3>1
  <2> HIDE DEF j
  <2>3. j.producer \in Producers => \A g \in Files : j.src[g] <= disk'[j.producer][g]
    BY <1>5, <2>1, <2>2 DEF JobSound
  <2>4. ASSUME j.pc = "answered", StaleFor(j, versions, disk)
        PROVE  StaleFor(j, versions, disk')
    <3> DEFINE old == versions[j.row].src
               unlike == \E g \in Files : (j.src[g] = Unread) # (old[g] = Unread) /\ j.src # NothingRead
    <3>1. /\ j.row \in DOMAIN versions /\ versions[j.row].producer = j.producer
          /\ j.row \in OursIn(versions, j.producer)
      BY <2>4 DEF StaleFor, OursIn
    <3>2. CASE unlike
      BY <3>1, <3>2 DEF StaleFor
    <3>3. CASE \E g \in Files : disk[j.producer][g] # old[g] /\ old[g] # Unread
      <4>1. PICK g \in Files : disk[j.producer][g] # old[g] /\ old[g] # Unread
        BY <3>3
      <4>2. j.producer \in Producers /\ old[g] \in Int /\ old[g] <= disk[j.producer][g]
        BY <1>6, <3>1
      <4>3. disk'[j.producer][g] # old[g]
        BY <1>5, <4>1, <4>2
      <4> QED BY <3>1, <4>1, <4>3 DEF StaleFor
    <3>4. \/ \E g \in Files : disk[j.producer][g] # old[g] /\ old[g] # Unread
          \/ unlike
      BY <2>4 DEF StaleFor
    <3> QED BY <3>2, <3>3, <3>4
  <2>5. JobSound(j, versions, clashed, disk')
    BY <2>1, <2>3, <2>4 DEF JobSound
  <2> QED BY <2>5 DEF j
<1> QED BY <1>1, <1>4, <1>7, <1>8 DEF AnalysisInv, AnalysisType

\* Nothing is stored and nothing is asked at the start.
LEMMA AnalysisStarts == AnalysisInit => AnalysisInv
<1> SUFFICES ASSUME AnalysisInit PROVE AnalysisInv
  OBVIOUS
<1>1. /\ disk = [p \in Producers |-> [f \in Files |-> 0]] /\ versions = << >>
      /\ job = [a \in Analysts |-> NoJob] /\ clashed = {}
  BY DEF AnalysisInit
<1>2. Len(versions) = 0 /\ versions \in Seq(VersionRow) /\ DOMAIN versions = {}
  BY <1>1
<1>3. AnalysisType
  <2>1. disk \in [Producers -> [Files -> 0..MaxEdits]]
    BY <1>1, AnalysisAssumption
  <2> QED BY <1>1, <1>2, <2>1, NoJobTyped, AnalysisAssumption DEF AnalysisType
<1>4. \A a \in Analysts : JobSound(job[a], versions, clashed, disk)
  <2>1. \A p \in Producers, f \in Files : NoJob.src[f] <= disk[p][f]
    BY <1>1, NoJobTyped DEF NothingRead, Unread
  <2> QED BY <1>1, <1>2, <2>1, NoJobTyped DEF JobSound
<1> QED BY <1>2, <1>3, <1>4 DEF AnalysisInv, Climbing

\* Every step keeps the invariant.
LEMMA AnalysisSteps == AnalysisInv /\ [AnalysisNext]_analysisVars => AnalysisInv'
<1> SUFFICES ASSUME AnalysisInv, [AnalysisNext]_analysisVars PROVE AnalysisInv'
  OBVIOUS
<1>1. ASSUME UNCHANGED analysisVars PROVE AnalysisInv'
  <2>1. UNCHANGED <<disk, versions, job, clashed>>
    BY <1>1 DEF analysisVars
  <2> QED BY <2>1 DEF AnalysisInv, AnalysisType
<1>2. ASSUME NEW p \in Producers, NEW force \in BOOLEAN, AskAnalysis(p, force) PROVE AnalysisInv'
  BY <1>2, AskJobs
<1>3. ASSUME AskTable PROVE AnalysisInv'
  BY <1>3, AskJobs
<1>4. ASSUME NEW a \in Pool, NEW force \in BOOLEAN, AskCompare(a, force) PROVE AnalysisInv'
  BY <1>4, AskJobs
<1>5. ASSUME NEW a \in Pool, NEW p \in Producers, AskDeep(a, p) PROVE AnalysisInv'
  BY <1>5, AskJobs
<1>6. ASSUME NEW a \in Analysts, Load(a) PROVE AnalysisInv'
  BY <1>6, LoadStep
<1>7. ASSUME NEW a \in Analysts, ShowStored(a) PROVE AnalysisInv'
  BY <1>7, ShowStep
<1>8. ASSUME NEW a \in Analysts, Fetch(a) \/ ReadConfig(a) \/ AskLLM(a) \/ AnalysisReturn(a)
      PROVE  AnalysisInv'
  BY <1>8, PlainSteps
<1>9. ASSUME NEW a \in Analysts, Number(a) PROVE AnalysisInv'
  BY <1>9, NumberStep
<1>10. ASSUME NEW a \in Analysts, InsertVersion(a) PROVE AnalysisInv'
  BY <1>10, InsertStep
<1>11. ASSUME NEW e \in Edited, Edit(e[1], e[2]) PROVE AnalysisInv'
  BY <1>11, EditStep, AnalysisAssumption
<1> QED
  BY <1>1, <1>2, <1>3, <1>4, <1>5, <1>6, <1>7, <1>8, <1>9, <1>10, <1>11 DEF AnalysisNext

\* A stored analysis that is shown is the newest, and is called stale for a reason.
LEMMA SoundIsCurrent == AnalysisInv => StoredIsCurrent
<1> SUFFICES ASSUME AnalysisInv PROVE StoredIsCurrent
  OBVIOUS
<1>1. \A a \in Analysts : JobSound(job[a], versions, clashed, disk)
  BY DEF AnalysisInv
<1>2. LoadShowsNewest
  BY <1>1 DEF LoadShowsNewest, JobSound, Unpassed, Ours, OursIn
<1>3. StaleMeansChanged
  BY <1>1 DEF StaleMeansChanged, JobSound, StaleFor
<1> QED BY <1>2, <1>3 DEF StoredIsCurrent

\* The rows and the requests keep their types, whatever the number of producers, files,
\* threads and rows.
THEOREM AnalysisTypeCorrect == AnalysisSpec => []AnalysisTypeOK
<1>1. AnalysisInv => AnalysisTypeOK
  <2> SUFFICES ASSUME AnalysisInv PROVE AnalysisTypeOK
    OBVIOUS
  <2>1. \A i \in DOMAIN versions : versions[i] \in VersionRow
    BY DEF AnalysisInv, AnalysisType
  <2>2. Len(versions) \in Nat /\ Len(versions) <= MaxVersions
    BY DEF AnalysisInv, AnalysisType
  <2>3. clashed \subseteq 1..MaxVersions
    BY <2>2, AnalysisAssumption DEF AnalysisInv, AnalysisType
  <2>4. disk \in [Producers -> [Files -> 0..MaxEdits]] /\ job \in [Analysts -> JobType]
    BY DEF AnalysisInv, AnalysisType
  <2> QED BY <2>1, <2>2, <2>3, <2>4 DEF AnalysisTypeOK, VersionRow, JobType, JobPcs
<1> QED BY <1>1, AnalysisStarts, AnalysisSteps, PTL DEF AnalysisSpec

\* A request that begins after a version was saved is not shown an older one, unless the
\* save clashed, and the stale flag is raised only for a file that was edited, or
\* that could be read on one of the two occasions and not on the other.
THEOREM StoredIsCurrentHolds == AnalysisSpec => []StoredIsCurrent
BY AnalysisStarts, AnalysisSteps, SoundIsCurrent, PTL DEF AnalysisSpec
=============================================================================
