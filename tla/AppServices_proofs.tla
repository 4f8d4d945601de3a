------------------------- MODULE AppServices_proofs -------------------------
(***************************************************************************)
(* Four services, for any number of their callers, scans, runs and         *)
(* sources: the reports kept per table, the alerts of the watcher, the     *)
(* store of sublineage hops and the extraction phase of a run. At the end, *)
(* the types of all nine services that run side by side.                   *)
(***************************************************************************)
EXTENDS MCAppServices, TableReports, SharedTables_proofs, Limits_proofs

-----------------------------------------------------------------------------
(***************************************************************************)
(* Stored reports: a request keeps in hand what it read, a stored report is *)
(* no older than the last computation its table was cleared for.           *)
(***************************************************************************)
\* A request, with values of V in the fields that do not matter here.
RequestOf(V) ==
    [pc : {"idle", "look", "walk", "store", "answered"}, tab : Tabs \union {"none"},
     hops : V, hop : V, frontier : V, visited : V, broken : V, of : V, began : Nat, report : V]

\* A report of tab b that is no older than the last one stored alone.
FreshReport(m, b) == m.tab = b /\ m.began \in floor[b]..computed

\* What a request has in hand.
RequestSound(r) ==
    /\ r.pc \in {"look", "walk", "store"} => r.tab \in Tabs
    /\ r.pc = "walk" => r.began \in floor[r.tab]..computed
    /\ r.pc = "store" => FreshReport(r.report, r.tab)

\* The inductive invariant.
StoredSound ==
    /\ computed \in Nat
    /\ \E V : call \in [Callers -> RequestOf(V)]
    /\ floor \in [Tabs -> Nat] /\ \A b \in Tabs : floor[b] <= computed
    /\ \E V : stored \in [Tabs -> V]
    /\ \A b \in Tabs : \A m \in stored[b] : FreshReport(m, b)
    /\ \A m \in landing : m.tab \in Tabs /\ FreshReport(m, m.tab)
    /\ \A c \in Callers : RequestSound(call[c])

-----------------------------------------------------------------------------
LEMMA RequestsOfMore ==
  ASSUME NEW V, NEW W, NEW r \in RequestOf(V)
  PROVE  r \in RequestOf(V \union W)
BY DEF RequestOf

\* A step of caller c to the request r keeps what is stored as fresh as it was.
LEMMA RequestMoves ==
  ASSUME StoredSound, NEW c \in Callers, NEW W, NEW r \in RequestOf(W),
         call' = [call EXCEPT ![c] = r],
         r.pc \in {"look", "walk", "store"} => r.tab \in Tabs,
         r.pc = "walk" => r.began \in floor[r.tab]..computed',
         r.pc = "store" => FreshReport(r.report, r.tab),
         UNCHANGED <<stored, landing, floor>>,
         computed' \in Nat, computed <= computed'
  PROVE  StoredSound'
<1>1. PICK V : call \in [Callers -> RequestOf(V)]
  BY DEF StoredSound
<1>2. call' \in [Callers -> RequestOf(V \union W)]
  <2>1. r \in RequestOf(V \union W)
    <3>1. r \in RequestOf(W \union V) /\ W \union V = V \union W
      BY RequestsOfMore
    <3> QED BY <3>1
  <2>2. \A d \in Callers : call[d] \in RequestOf(V \union W)
    BY <1>1, RequestsOfMore
  <2>3. call = [d \in Callers |-> call[d]]
    BY <1>1
  <2> QED BY <2>1, <2>2, <2>3
<1>3. \A d \in Callers : call'[d] = IF d = c THEN r ELSE call[d]
  BY <1>1
<1>4. \A b \in Tabs : floor[b] \in Nat /\ floor[b] <= computed
  BY DEF StoredSound
<1>5. \A b \in Tabs : floor[b]..computed \subseteq floor[b]..computed'
  BY <1>4 DEF StoredSound
<1>6. \A m : \A b \in Tabs : FreshReport(m, b) => FreshReport(m, b)'
  BY <1>5 DEF FreshReport
<1>7. \A d \in Callers : RequestSound(call[d])'
  <2> SUFFICES ASSUME NEW d \in Callers PROVE RequestSound(call[d])'
    OBVIOUS
  <2>1. CASE d = c
    <3>1. call'[d] = r
      BY <1>3, <2>1
    <3>2. r.pc = "store" => /\ r.tab \in Tabs /\ r.report.tab = r.tab
                            /\ r.report.began \in floor[r.tab]..computed'
      BY <1>5 DEF FreshReport
    <3> QED BY <3>1, <3>2 DEF RequestSound, FreshReport
  <2>2. CASE d # c
    <3>1. call'[d] = call[d]
      BY <1>3, <2>2
    <3>2. RequestSound(call[d])
      BY DEF StoredSound
    <3>3. call[d].pc \in {"look", "walk", "store"} => call[d].tab \in Tabs
      BY <3>2 DEF RequestSound
    <3>4. call[d].pc = "walk" => call[d].began \in floor'[call[d].tab]..computed'
      BY <1>5, <3>2, <3>3 DEF RequestSound
    <3>5. call[d].pc = "store" => FreshReport(call[d].report, call[d].tab)'
      <4>1. call[d].pc = "store" => /\ call[d].report.tab = call[d].tab
                                    /\ call[d].report.began \in floor[call[d].tab]..computed
        BY <3>2 DEF RequestSound, FreshReport
      <4> QED BY <1>5, <3>1, <3>3, <4>1 DEF FreshReport
    <3> QED BY <3>1, <3>3, <3>4, <3>5 DEF RequestSound, FreshReport
  <2> QED BY <2>1, <2>2
<1>8. \A b \in Tabs : floor'[b] <= computed'
  BY <1>4 DEF StoredSound
<1>9. (\A b \in Tabs : \A m \in stored[b] : FreshReport(m, b))'
  BY <1>6 DEF StoredSound, FreshReport
<1>10. (\A m \in landing : m.tab \in Tabs /\ FreshReport(m, m.tab))'
  BY <1>6 DEF StoredSound, FreshReport
<1>11. (\E X : stored \in [Tabs -> X])' /\ (floor \in [Tabs -> Nat])'
  BY DEF StoredSound
<1> QED BY <1>2, <1>7, <1>8, <1>9, <1>10, <1>11 DEF StoredSound

LEMMA NewRequests ==
  ASSUME StoredSound
  PROVE  /\ NoCall \in RequestOf({0, FALSE, {}, << >>, NoStored})
         /\ \A b \in Tabs : \A h : Begun(b, h) \in RequestOf({0, h, FALSE, {}, << >>, {Focus}, lineageRows, NoStored})
         /\ \A m : Answered(m).pc = "answered"
<1>1. computed + 1 \in Nat
  BY DEF StoredSound
<1> QED BY <1>1 DEF NoCall, Begun, Answered, RequestOf
\* A walk that goes on, or ends with a report of its own.
LEMMA WalkGoesOn ==
  ASSUME StoredSound, NEW c \in Callers, call[c].pc = "walk",
         NEW W, NEW to \in RequestOf(W),
         to.pc = "walk", to.tab = call[c].tab, to.began = call[c].began,
         call' = [call EXCEPT ![c] = to], UNCHANGED <<stored, landing, computed, floor>>
  PROVE  StoredSound'
<1>1. RequestSound(call[c]) /\ computed' \in Nat /\ computed <= computed'
  BY DEF StoredSound
<1>2. to.tab \in Tabs /\ to.began \in floor[to.tab]..computed'
  BY <1>1 DEF RequestSound
<1> QED BY <1>1, <1>2, RequestMoves

LEMMA WalkReports ==
  ASSUME StoredSound, NEW c \in Callers, call[c].pc = "walk",
         NEW m, m.tab = call[c].tab, m.began = call[c].began,
         ToStore(c, m), UNCHANGED <<stored, landing, computed, floor>>
  PROVE  StoredSound'
<1> DEFINE r == call[c]
           to == [NoCall EXCEPT !.pc = "store", !.tab = m.tab, !.report = m]
<1>1. RequestSound(r) /\ computed \in Nat
  BY DEF StoredSound
<1>2. r.tab \in Tabs /\ FreshReport(m, r.tab)
  BY <1>1 DEF RequestSound, FreshReport
<1>3. to \in RequestOf({0, FALSE, {}, << >>, m})
  BY <1>2 DEF RequestOf, NoCall
<1>4. to.pc = "store" /\ to.tab = m.tab /\ to.report = m
  BY DEF NoCall
<1>5. call' = [call EXCEPT ![c] = to] /\ computed' \in Nat /\ computed <= computed'
  BY <1>1 DEF ToStore
<1> HIDE DEF to
<1>6. /\ to.pc \in {"look", "walk", "store"} => to.tab \in Tabs
      /\ to.pc = "walk" => to.began \in floor[to.tab]..computed'
      /\ to.pc = "store" => FreshReport(to.report, to.tab)
  BY <1>2, <1>4
<1>7. UNCHANGED <<stored, landing, floor>>
  OBVIOUS
<1> QED BY <1>3, <1>5, <1>6, <1>7, RequestMoves

\* The steps that leave reports, landing and floors alone.
LEMMA RequestSteps ==
  ASSUME StoredSound, NEW c \in Callers
  PROVE  /\ \A b \in Tabs, h \in HopLimits : Ask(c, b, h) \/ AskAgain(c, b, h) => StoredSound'
         /\ ServeStored(c) \/ MissStored(c) \/ WalkLevel(c) \/ LevelFails(c) => StoredSound'
         /\ ReportImpact(c) \/ ReportRootCause(c) \/ EndCall(c) => StoredSound'
<1> DEFINE r == call[c]
<1>1. /\ RequestSound(r) /\ computed \in Nat /\ computed + 1 \in Nat /\ computed <= computed
      /\ computed <= computed + 1
  BY DEF StoredSound
<1>2. \A b \in Tabs : floor[b] \in Nat /\ floor[b] <= computed + 1
  BY DEF StoredSound
<1>3. ASSUME NEW b \in Tabs, NEW h \in HopLimits, Ask(c, b, h) PROVE StoredSound'
  <2> DEFINE to == [NoCall EXCEPT !.pc = "look", !.tab = b, !.hops = h]
  <2>1. /\ call' = [call EXCEPT ![c] = to] /\ UNCHANGED <<stored, landing, computed, floor>>
    BY <1>3 DEF Ask
  <2>2. to \in RequestOf({0, h, FALSE, {}, << >>, NoStored}) /\ to.pc = "look" /\ to.tab = b
    BY DEF NoCall, RequestOf
  <2> HIDE DEF to
  <2> QED BY <1>1, <2>1, <2>2, RequestMoves
<1>4. ASSUME NEW b \in Tabs, NEW h, call' = [call EXCEPT ![c] = Begun(b, h)], computed' = computed + 1,
             UNCHANGED <<stored, landing, floor>>
      PROVE  StoredSound'
  <2> DEFINE to == Begun(b, h)
  <2>1. to \in RequestOf({0, h, FALSE, {}, << >>, {Focus}, lineageRows, NoStored})
    BY NewRequests
  <2>2. to.pc = "walk" /\ to.tab = b /\ to.began = computed + 1
    BY DEF Begun, NoCall
  <2>3. call' = [call EXCEPT ![c] = to] /\ computed' = computed + 1
    BY <1>4
  <2> HIDE DEF to
  <2>4. to.pc = "walk" => to.began \in floor[to.tab]..computed'
    BY <1>1, <1>2, <2>2, <2>3
  <2> QED BY <1>1, <1>4, <2>1, <2>2, <2>3, <2>4, RequestMoves
<1>5. ASSUME NEW b \in Tabs, NEW h \in HopLimits, AskAgain(c, b, h) PROVE StoredSound'
  <2>1. /\ call' = [call EXCEPT ![c] = Begun(b, h)] /\ computed' = computed + 1
        /\ UNCHANGED <<stored, landing, floor>>
    BY <1>5 DEF AskAgain
  <2> QED BY <1>4, <2>1
<1>6. ASSUME ServeStored(c) PROVE StoredSound'
  <2>1. PICK m \in stored[r.tab] : call' = [call EXCEPT ![c] = Answered(m)]
    BY <1>6 DEF ServeStored
  <2>2. UNCHANGED <<stored, landing, computed, floor>> /\ r.pc = "look"
    BY <1>6 DEF ServeStored
  <2>3. r.tab \in Tabs /\ FreshReport(m, r.tab)
    BY <1>1, <2>1, <2>2 DEF RequestSound, StoredSound
  <2> DEFINE to == Answered(m)
  <2>4. to \in RequestOf({0, FALSE, {}, << >>, m}) /\ to.pc = "answered"
    BY <2>3 DEF Answered, NoCall, RequestOf, FreshReport
  <2>5. call' = [call EXCEPT ![c] = to]
    BY <2>1
  <2> HIDE DEF to
  <2> QED BY <1>1, <2>2, <2>4, <2>5, RequestMoves
<1>7. ASSUME MissStored(c) PROVE StoredSound'
  <2>1. /\ call' = [call EXCEPT ![c] = Begun(r.tab, r.hops)] /\ computed' = computed + 1
        /\ UNCHANGED <<stored, landing, floor>> /\ r.pc = "look"
    BY <1>7 DEF MissStored
  <2>2. r.tab \in Tabs
    BY <1>1, <2>1 DEF RequestSound
  <2> QED BY <1>4, <2>1, <2>2
<1>8. PICK U : call \in [Callers -> RequestOf(U)]
  BY DEF StoredSound
<1>9. ASSUME WalkLevel(c) PROVE StoredSound'
  <2> DEFINE level == Further(lineageRows, r.tab, r.frontier)
             v == Visited(r.visited, level, r.hop + 1)
             f == level \ ({Focus} \union DOMAIN r.visited)
             n == r.hop + 1
  <2>1. call' = [call EXCEPT ![c].hop = n, ![c].visited = v, ![c].frontier = f]
        /\ r.pc = "walk" /\ UNCHANGED <<stored, landing, computed, floor>>
    BY <1>9 DEF WalkLevel, MayWalk
  <2> HIDE DEF v, f, n
  <2> DEFINE to == [r EXCEPT !.hop = n, !.visited = v, !.frontier = f]
  <2>2. r \in RequestOf(U)
    BY <1>8
  <2>3. to \in RequestOf(U \union {n, v, f}) /\ to.pc = r.pc /\ to.tab = r.tab /\ to.began = r.began
    BY <2>2 DEF RequestOf
  <2>4. call' = [call EXCEPT ![c] = to]
    BY <2>1
  <2> HIDE DEF to
  <2> QED BY <2>1, <2>3, <2>4, WalkGoesOn
<1>10. ASSUME LevelFails(c) PROVE StoredSound'
  <2>1. call' = [call EXCEPT ![c].frontier = {}, ![c].broken = TRUE]
        /\ r.pc = "walk" /\ UNCHANGED <<stored, landing, computed, floor>>
    BY <1>10 DEF LevelFails, MayWalk
  <2> DEFINE to == [r EXCEPT !.frontier = {}, !.broken = TRUE]
  <2>2. r \in RequestOf(U)
    BY <1>8
  <2>3. to \in RequestOf(U \union {{}, TRUE}) /\ to.pc = r.pc /\ to.tab = r.tab /\ to.began = r.began
    BY <2>2 DEF RequestOf
  <2>4. call' = [call EXCEPT ![c] = to]
    BY <2>1
  <2> HIDE DEF to
  <2> QED BY <2>1, <2>3, <2>4, WalkGoesOn
<1>11. ASSUME NEW entities, NEW path, NEW prime
       PROVE  /\ Report(c, entities, path, prime).tab = r.tab
              /\ Report(c, entities, path, prime).began = r.began
              /\ \A b : [Report(c, entities, path, prime) EXCEPT !.broken = b].tab = r.tab
              /\ \A b : [Report(c, entities, path, prime) EXCEPT !.broken = b].began = r.began
  BY DEF Report
<1>12. ASSUME ReportImpact(c) PROVE StoredSound'
  <2>1. \E m : m.tab = r.tab /\ m.began = r.began /\ ToStore(c, m)
    <3> DEFINE m1 == Report(c, Readers(call[c].visited), {}, NoStored)
               m2 == [Report(c, {}, {}, NoStored) EXCEPT !.broken = TRUE]
    <3>1. ToStore(c, m1) \/ ToStore(c, m2)
      BY <1>12 DEF ReportImpact
    <3>2. m1.tab = r.tab /\ m1.began = r.began /\ m2.tab = r.tab /\ m2.began = r.began
      BY <1>11
    <3> HIDE DEF m1, m2, r
    <3> QED BY <3>1, <3>2, Zenon
  <2>2. r.pc = "walk" /\ UNCHANGED <<stored, landing, computed, floor>>
    BY <1>12 DEF ReportImpact, WalkOver
  <2> QED BY <2>1, <2>2, WalkReports
<1>13. ASSUME ReportRootCause(c) PROVE StoredSound'
  <2>1. \E entities, path, prime, b : ToStore(c, [Report(c, entities, path, prime) EXCEPT !.broken = b])
    <3>1. PICK unread : LET F == Flagged(call[c].visited, unread)
                            marked(m) == [m EXCEPT !.broken = @ \/ unread # {}]
                        IN \/ F = {} /\ ToStore(c, marked(Report(c, {}, {}, NoStored)))
                           \/ \E prime \in Primes(F) :
                                ToStore(c, marked(Report(c, F, FailurePath(F, prime), prime)))
      BY <1>13 DEF ReportRootCause
    <3> DEFINE F == Flagged(call[c].visited, unread)
               wider(m) == m.broken \/ unread # {}
    <3>2. CASE F = {} /\ ToStore(c, [Report(c, {}, {}, NoStored) EXCEPT !.broken = @ \/ unread # {}])
      <4>1. ToStore(c, [Report(c, {}, {}, NoStored) EXCEPT !.broken = wider(Report(c, {}, {}, NoStored))])
        BY <3>2
      <4> HIDE DEF wider
      <4> QED BY <4>1
    <3>3. CASE \E prime \in Primes(F) :
                  ToStore(c, [Report(c, F, FailurePath(F, prime), prime) EXCEPT !.broken = @ \/ unread # {}])
      <4>1. PICK prime \in Primes(F) :
                  ToStore(c, [Report(c, F, FailurePath(F, prime), prime) EXCEPT !.broken = wider(Report(c, F, FailurePath(F, prime), prime))])
        BY <3>3
      <4> HIDE DEF wider, F
      <4> QED BY <4>1
    <3> QED BY <3>1, <3>2, <3>3
  <2>2. \E m : m.tab = r.tab /\ m.began = r.began /\ ToStore(c, m)
    <3>1. PICK entities, path, prime, b :
              ToStore(c, [Report(c, entities, path, prime) EXCEPT !.broken = b])
      BY <2>1
    <3> DEFINE m1 == [Report(c, entities, path, prime) EXCEPT !.broken = b]
    <3>2. ToStore(c, m1) /\ m1.tab = r.tab /\ m1.began = r.began
      BY <1>11, <3>1
    <3> HIDE DEF m1, r
    <3> QED BY <3>2, Zenon
  <2>3. r.pc = "walk" /\ UNCHANGED <<stored, landing, computed, floor>>
    BY <1>13 DEF ReportRootCause, WalkOver
  <2> QED BY <2>2, <2>3, WalkReports
<1>14. ASSUME EndCall(c) PROVE StoredSound'
  <2>1. call' = [call EXCEPT ![c] = NoCall] /\ UNCHANGED <<stored, landing, computed, floor>>
    BY <1>14 DEF EndCall
  <2>2. NoCall.pc = "idle"
    BY DEF NoCall
  <2>3. NoCall \in RequestOf({0, FALSE, {}, << >>, NoStored})
    BY NewRequests
  <2> QED BY <1>1, <2>1, <2>2, <2>3, RequestMoves
<1> QED BY <1>3, <1>5, <1>6, <1>7, <1>9, <1>10, <1>12, <1>13, <1>14
\* What of the invariant speaks of the requests, floors and computations: the steps
\* that store change the rest themselves.
LEMMA ReportAnswered ==
  ASSUME StoredSound, NEW c \in Callers, call[c].pc = "store"
  PROVE  /\ call[c].tab \in Tabs /\ FreshReport(call[c].report, call[c].tab)
         /\ \E W : Answered(call[c].report) \in RequestOf(W)
         /\ Answered(call[c].report).pc = "answered"
         /\ Answered(call[c].report).report = call[c].report
<1>1. RequestSound(call[c])
  BY DEF StoredSound
<1> DEFINE m == call[c].report
<1>2. call[c].tab \in Tabs /\ FreshReport(m, call[c].tab)
  BY <1>1 DEF RequestSound
<1>3. m.tab \in Tabs
  BY <1>2 DEF FreshReport
<1> HIDE DEF m
<1>4. Answered(m) \in RequestOf({0, FALSE, {}, << >>, m}) /\ Answered(m).pc = "answered" /\ Answered(m).report = m
  BY <1>3 DEF Answered, NoCall, RequestOf
<1> QED BY <1>2, <1>4 DEF m

\* The floor rises only when no other report of the tab can come to be stored.
LEMMA ReportStored ==
  ASSUME StoredSound, NEW c \in Callers, StoreReport(c)
  PROVE  StoredSound'
<1> DEFINE tab == call[c].tab
           m == call[c].report
<1>1. /\ call[c].pc = "store" /\ call' = [call EXCEPT ![c] = Answered(m)]
      /\ stored' = [stored EXCEPT ![tab] = {m}]
      /\ floor' = IF Others(c, tab) THEN floor ELSE [floor EXCEPT ![tab] = m.began]
      /\ UNCHANGED <<landing, computed>>
  BY DEF StoreReport, Merged
<1>2. tab \in Tabs /\ FreshReport(m, tab) /\ Answered(m).pc = "answered"
  BY <1>1, ReportAnswered
<1>3. PICK W : Answered(m) \in RequestOf(W)
  BY <1>1, ReportAnswered
<1>4. PICK V : call \in [Callers -> RequestOf(V)]
  BY DEF StoredSound
<1>5. PICK X : stored \in [Tabs -> X]
  BY DEF StoredSound
<1> DEFINE to == Answered(m)
<1>6. to \in RequestOf(W) /\ to.pc = "answered" /\ call' = [call EXCEPT ![c] = to]
  BY <1>1, <1>2, <1>3
<1> HIDE DEF to, m, tab
<1>7. (\E Y : call \in [Callers -> RequestOf(Y)])'
  <2>1. to \in RequestOf(V \union W)
    <3>1. to \in RequestOf(W \union V) /\ W \union V = V \union W
      BY <1>6, RequestsOfMore
    <3> QED BY <3>1
  <2>2. \A d \in Callers : call[d] \in RequestOf(V \union W)
    BY <1>4, RequestsOfMore
  <2>3. call' \in [Callers -> RequestOf(V \union W)]
    BY <1>4, <1>6, <2>1, <2>2
  <2> QED BY <2>3
<1>8. (\E Y : stored \in [Tabs -> Y])'
  <2>1. stored' \in [Tabs -> X \union {{m}}]
    BY <1>1, <1>2, <1>5
  <2> QED BY <2>1
<1>9. \A b \in Tabs : floor[b] \in Nat /\ floor[b] <= computed
  BY DEF StoredSound
<1>10. m.began \in Nat /\ m.began <= computed /\ computed \in Nat /\ m.tab = tab
  BY <1>2, <1>9 DEF FreshReport, StoredSound
<1>11. /\ floor' \in [Tabs -> Nat] /\ \A b \in Tabs : floor'[b] <= computed
       /\ \A b \in Tabs : b # tab => floor'[b] = floor[b]
       /\ floor'[tab] <= m.began
  <2>1. floor \in [Tabs -> Nat] /\ floor[tab] <= m.began
    BY <1>2 DEF StoredSound, FreshReport
  <2>2. CASE Others(c, tab)
    BY <1>1, <1>9, <1>10, <2>1, <2>2
  <2>3. CASE ~Others(c, tab)
    <3>1. floor' = [floor EXCEPT ![tab] = m.began]
      BY <1>1, <2>3
    <3> QED BY <1>2, <1>9, <1>10, <2>1, <3>1
  <2> QED BY <2>2, <2>3
<1>12. \A b \in Tabs : \A n \in stored'[b] : n.tab = b /\ n.began \in floor'[b]..computed
  <2> SUFFICES ASSUME NEW b \in Tabs, NEW n \in stored'[b]
               PROVE  n.tab = b /\ n.began \in floor'[b]..computed
    OBVIOUS
  <2>1. CASE b = tab
    <3>1. n = m
      BY <1>1, <1>5, <2>1
    <3>2. floor'[b] \in Nat
      BY <1>11
    <3> QED BY <1>10, <1>11, <2>1, <3>1, <3>2
  <2>2. CASE b # tab
    <3>1. n \in stored[b]
      BY <1>1, <1>5, <2>2
    <3>2. FreshReport(n, b)
      BY <3>1 DEF StoredSound
    <3> QED BY <1>11, <2>2, <3>2 DEF FreshReport
  <2> QED BY <2>1, <2>2
<1>13. \A n \in landing : n.tab \in Tabs /\ n.began \in floor'[n.tab]..computed
  <2> SUFFICES ASSUME NEW n \in landing
               PROVE  n.tab \in Tabs /\ n.began \in floor'[n.tab]..computed
    OBVIOUS
  <2>1. n.tab \in Tabs /\ n.began \in floor[n.tab]..computed
    BY DEF StoredSound, FreshReport
  <2>2. floor' = floor
    BY <1>1 DEF Others
  <2> QED BY <2>1, <2>2
<1>14. ASSUME NEW d \in Callers
       PROVE  /\ call'[d].pc \in {"look", "walk", "store"} => call'[d].tab \in Tabs
              /\ call'[d].pc = "walk" => call'[d].began \in floor'[call'[d].tab]..computed
              /\ call'[d].pc = "store" => /\ call'[d].report.tab = call'[d].tab
                                          /\ call'[d].report.began \in floor'[call'[d].tab]..computed
  <2>1. CASE d = c
    BY <1>4, <1>6, <2>1
  <2>2. CASE d # c
    <3>1. call'[d] = call[d]
      BY <1>4, <1>6, <2>2
    <3>2. /\ call[d].pc \in {"look", "walk", "store"} => call[d].tab \in Tabs
          /\ call[d].pc = "walk" => call[d].began \in floor[call[d].tab]..computed
          /\ call[d].pc = "store" => /\ call[d].report.tab = call[d].tab
                                     /\ call[d].report.began \in floor[call[d].tab]..computed
      BY DEF StoredSound, RequestSound, FreshReport
    <3>3. call[d].pc \in {"walk", "store"} => floor'[call[d].tab] = floor[call[d].tab]
      <4>1. CASE call[d].tab = tab /\ call[d].pc \in {"walk", "store"}
        <5>1. Others(c, tab)
          BY <2>2, <4>1 DEF Others
        <5> QED BY <1>1, <5>1
      <4>2. CASE call[d].tab # tab
        BY <1>11, <3>2, <4>2
      <4> QED BY <4>1, <4>2
    <3> QED BY <3>1, <3>2, <3>3
  <2> QED BY <2>1, <2>2
<1>15. (\A d \in Callers : RequestSound(call[d]))'
  BY <1>1, <1>14 DEF RequestSound, FreshReport
<1>16. (\A b \in Tabs : \A n \in stored[b] : FreshReport(n, b))'
       /\ (\A n \in landing : n.tab \in Tabs /\ FreshReport(n, n.tab))'
  BY <1>1, <1>12, <1>13 DEF FreshReport
<1>17. (computed \in Nat /\ floor \in [Tabs -> Nat] /\ \A b \in Tabs : floor[b] <= computed)'
  BY <1>1, <1>10, <1>11
<1> QED BY <1>7, <1>8, <1>15, <1>16, <1>17 DEF StoredSound

\* A store that fails leaves its report to land later, at most.
LEMMA ReportNotStored ==
  ASSUME StoredSound, NEW c \in Callers, StoreFails(c)
  PROVE  StoredSound'
<1> DEFINE m == call[c].report
<1>1. /\ call[c].pc = "store" /\ call' = [call EXCEPT ![c] = Answered(m)]
      /\ landing' \subseteq landing \union {m}
      /\ UNCHANGED <<stored, computed, floor>>
  BY DEF StoreFails
<1>2. call[c].tab \in Tabs /\ FreshReport(m, call[c].tab) /\ Answered(m).pc = "answered"
  BY <1>1, ReportAnswered
<1>3. PICK W : Answered(m) \in RequestOf(W)
  BY <1>1, ReportAnswered
<1>4. PICK V : call \in [Callers -> RequestOf(V)]
  BY DEF StoredSound
<1> DEFINE to == Answered(m)
<1>5. to \in RequestOf(W) /\ to.pc = "answered" /\ call' = [call EXCEPT ![c] = to]
  BY <1>1, <1>2, <1>3
<1>6. m.tab \in Tabs /\ FreshReport(m, m.tab)
  BY <1>2 DEF FreshReport
<1> HIDE DEF to, m
<1>7. (\E Y : call \in [Callers -> RequestOf(Y)])'
  <2>1. to \in RequestOf(V \union W)
    <3>1. to \in RequestOf(W \union V) /\ W \union V = V \union W
      BY <1>5, RequestsOfMore
    <3> QED BY <3>1
  <2>2. \A d \in Callers : call[d] \in RequestOf(V \union W)
    BY <1>4, RequestsOfMore
  <2>3. call' \in [Callers -> RequestOf(V \union W)]
    BY <1>4, <1>5, <2>1, <2>2
  <2> QED BY <2>3
<1>8. (\A n \in landing : n.tab \in Tabs /\ FreshReport(n, n.tab))'
  <2>1. \A n \in landing : n.tab \in Tabs /\ FreshReport(n, n.tab)
    BY DEF StoredSound
  <2>2. \A n \in landing' : n.tab \in Tabs /\ FreshReport(n, n.tab)
    BY <1>1, <1>6, <2>1
  <2> QED BY <1>1, <2>2 DEF FreshReport
<1>9. (\A d \in Callers : RequestSound(call[d]))'
  <2>1. \A d \in Callers : RequestSound(call[d])
    BY DEF StoredSound
  <2>2. RequestSound(to)
    BY <1>5 DEF RequestSound
  <2>3. \A d \in Callers : RequestSound(call'[d])
    BY <1>4, <1>5, <2>1, <2>2
  <2> QED BY <1>1, <2>3 DEF RequestSound, FreshReport
<1>10. (/\ computed \in Nat /\ floor \in [Tabs -> Nat] /\ \A b \in Tabs : floor[b] <= computed
        /\ \E X : stored \in [Tabs -> X]
        /\ \A b \in Tabs : \A n \in stored[b] : FreshReport(n, b))'
  BY <1>1 DEF StoredSound, FreshReport
<1> QED BY <1>7, <1>8, <1>9, <1>10 DEF StoredSound

LEMMA ReportLands ==
  ASSUME StoredSound, NEW m \in landing, StoreLands(m)
  PROVE  StoredSound'
<1>1. /\ landing' \subseteq landing /\ stored' = [stored EXCEPT ![m.tab] = {m}]
      /\ UNCHANGED <<call, computed, floor>>
  BY DEF StoreLands, Merged
<1>2. m.tab \in Tabs /\ FreshReport(m, m.tab)
  BY DEF StoredSound
<1>3. PICK X : stored \in [Tabs -> X]
  BY DEF StoredSound
<1>4. stored' \in [Tabs -> X \union {{m}}]
  BY <1>1, <1>2, <1>3
<1>5. \A b \in Tabs : \A n \in stored'[b] : FreshReport(n, b)
  <2> SUFFICES ASSUME NEW b \in Tabs, NEW n \in stored'[b] PROVE FreshReport(n, b)
    OBVIOUS
  <2>1. CASE b = m.tab
    <3>1. n = m
      BY <1>1, <1>3, <2>1
    <3> QED BY <1>2, <2>1, <3>1
  <2>2. CASE b # m.tab
    <3>1. n \in stored[b]
      BY <1>1, <1>3, <2>2
    <3> QED BY <3>1 DEF StoredSound
  <2> QED BY <2>1, <2>2
<1>6. (\A b \in Tabs : \A n \in stored[b] : FreshReport(n, b))'
  BY <1>1, <1>5 DEF FreshReport
<1>7. (/\ computed \in Nat /\ floor \in [Tabs -> Nat] /\ \A b \in Tabs : floor[b] <= computed
       /\ \E V : call \in [Callers -> RequestOf(V)]
       /\ \A d \in Callers : RequestSound(call[d]))'
  BY <1>1 DEF StoredSound, FreshReport, RequestSound
<1>8. (\A n \in landing : n.tab \in Tabs /\ FreshReport(n, n.tab))'
  BY <1>1 DEF StoredSound, FreshReport
<1> QED BY <1>4, <1>6, <1>7, <1>8 DEF StoredSound

LEMMA ReportsEvicted ==
  ASSUME StoredSound, NEW B \in SUBSET Tabs, EvictReports(B)
  PROVE  StoredSound'
<1>1. /\ stored' = [b \in Tabs |-> IF b \in B THEN {} ELSE stored[b]]
      /\ UNCHANGED <<call, landing, computed, floor>>
  BY DEF EvictReports
<1>2. PICK X : stored \in [Tabs -> X]
  BY DEF StoredSound
<1>3. stored' \in [Tabs -> X \union {{}}]
  BY <1>1, <1>2
<1>4. \A b \in Tabs : \A n \in stored'[b] : FreshReport(n, b)
  BY <1>1 DEF StoredSound
<1>5. (\A b \in Tabs : \A n \in stored[b] : FreshReport(n, b))'
  BY <1>1, <1>4 DEF FreshReport
<1>6. (/\ computed \in Nat /\ floor \in [Tabs -> Nat] /\ \A b \in Tabs : floor[b] <= computed
       /\ \E V : call \in [Callers -> RequestOf(V)]
       /\ \A n \in landing : n.tab \in Tabs /\ FreshReport(n, n.tab)
       /\ \A d \in Callers : RequestSound(call[d]))'
  BY <1>1 DEF StoredSound, FreshReport, RequestSound
<1> QED BY <1>3, <1>5, <1>6 DEF StoredSound

LEMMA StoredInit == TableReportsInit => StoredSound
<1> SUFFICES ASSUME TableReportsInit PROVE StoredSound
  OBVIOUS
<1>1. /\ call = [c \in Callers |-> NoCall] /\ stored = [b \in Tabs |-> {}]
      /\ landing = {} /\ floor = [b \in Tabs |-> 0] /\ computed = 0
  BY DEF TableReportsInit
<1>2. NoCall \in RequestOf({0, FALSE, {}, << >>, NoStored}) /\ NoCall.pc = "idle"
  BY DEF NoCall, RequestOf
<1> HIDE DEF NoCall
<1>3. call \in [Callers -> RequestOf({0, FALSE, {}, << >>, NoStored})]
  BY <1>1, <1>2
<1>4. stored \in [Tabs -> {{}}] /\ \A b \in Tabs : stored[b] = {}
  BY <1>1
<1>5. floor \in [Tabs -> Nat] /\ \A b \in Tabs : floor[b] <= computed
  BY <1>1
<1>6. \A c \in Callers : RequestSound(call[c])
  BY <1>1, <1>2 DEF RequestSound
<1> QED BY <1>1, <1>3, <1>4, <1>5, <1>6 DEF StoredSound

LEMMA StoredNext == StoredSound /\ [TableReportsNext]_reportVars => StoredSound'
<1> SUFFICES ASSUME StoredSound, [TableReportsNext]_reportVars PROVE StoredSound'
  OBVIOUS
<1>1. ASSUME NEW c \in Callers,
             \/ \E b \in Tabs, h \in HopLimits : Ask(c, b, h) \/ AskAgain(c, b, h)
             \/ ServeStored(c) \/ MissStored(c) \/ WalkLevel(c) \/ LevelFails(c)
             \/ ReportImpact(c) \/ ReportRootCause(c)
             \/ StoreReport(c) \/ StoreFails(c) \/ EndCall(c)
      PROVE  StoredSound'
  BY <1>1, RequestSteps, ReportStored, ReportNotStored
<1>2. ASSUME NEW m \in landing, StoreLands(m) PROVE StoredSound'
  BY <1>2, ReportLands
<1>3. ASSUME NEW B \in SUBSET Tabs, EvictReports(B) PROVE StoredSound'
  BY <1>3, ReportsEvicted
<1>4. CASE UNCHANGED <<call, stored, landing, computed, floor>>
  BY <1>4 DEF StoredSound, FreshReport, RequestSound
<1>5. \A r \in MoreRows : RecordRow(r) => UNCHANGED <<call, stored, landing, computed, floor>>
  BY DEF RecordRow
<1>6. UNCHANGED reportVars => UNCHANGED <<call, stored, landing, computed, floor>>
  BY DEF reportVars
<1> QED BY <1>1, <1>2, <1>3, <1>4, <1>5, <1>6 DEF TableReportsNext

\* serve_or_compute (server/capability_cache.py): every report stored, about to
\* be or in hand is of its tab and was begun no earlier than the last one stored alone.
THEOREM StoredReportsSound == TableReportsSpec => []StoredSound
<1> QED BY StoredInit, StoredNext, PTL DEF TableReportsSpec

\* An answer comes from what is stored or from the computation at hand.
LEMMA AnswerStep ==
  ASSUME StoredSound, [TableReportsNext]_reportVars, NEW c \in Callers,
         call[c].pc # "answered", call'[c].pc = "answered"
  PROVE  call'[c].report.began >= floor[call[c].tab]
<1>1. PICK V : call \in [Callers -> RequestOf(V)]
  BY DEF StoredSound
<1>2. ASSUME NEW m, FreshReport(m, call[c].tab), call[c].tab \in Tabs,
             call' = [call EXCEPT ![c] = Answered(m)]
      PROVE  call'[c].report.began >= floor[call[c].tab]
  <2>1. call'[c] = Answered(m) /\ Answered(m).report = m
    BY <1>1, <1>2 DEF Answered, NoCall
  <2>2. m.began \in floor[call[c].tab]..computed /\ floor[call[c].tab] \in Nat /\ computed \in Nat
    BY <1>2 DEF FreshReport, StoredSound
  <2> QED BY <2>1, <2>2
<1>3. ASSUME NEW d \in Callers, NEW r, r.pc # "answered", call' = [call EXCEPT ![d] = r] PROVE FALSE
  BY <1>1, <1>3
<1>4. ASSUME NEW d \in Callers, d # c, NEW r, call' = [call EXCEPT ![d] = r] PROVE FALSE
  BY <1>1, <1>4
<1>5. CASE ServeStored(c)
  <2>1. PICK m \in stored[call[c].tab] : call' = [call EXCEPT ![c] = Answered(m)]
    BY <1>5 DEF ServeStored
  <2>2. call[c].tab \in Tabs
    BY <1>5 DEF ServeStored, StoredSound, RequestSound
  <2>3. FreshReport(m, call[c].tab)
    BY <2>1, <2>2 DEF StoredSound
  <2> QED BY <1>2, <2>1, <2>2, <2>3
<1>6. CASE StoreReport(c) \/ StoreFails(c)
  <2>1. call[c].pc = "store" /\ call' = [call EXCEPT ![c] = Answered(call[c].report)]
    BY <1>6 DEF StoreReport, StoreFails
  <2> QED BY <1>2, <2>1, ReportAnswered
<1>7. ASSUME NEW d \in Callers, ServeStored(d) \/ StoreReport(d) \/ StoreFails(d), d # c PROVE FALSE
  <2>1. \E m : call' = [call EXCEPT ![d] = Answered(m)]
    BY <1>7 DEF ServeStored, StoreReport, StoreFails
  <2> QED BY <1>4, <1>7, <2>1
<1>8. NoCall.pc = "idle" /\ \A b : \A h : Begun(b, h).pc = "walk"
  BY DEF NoCall, Begun
<1>9. ASSUME NEW d \in Callers,
             \/ \E b \in Tabs, h \in HopLimits : Ask(d, b, h) \/ AskAgain(d, b, h)
             \/ MissStored(d) \/ EndCall(d)
      PROVE  FALSE
  <2>1. \A b, h : [NoCall EXCEPT !.pc = "look", !.tab = b, !.hops = h].pc = "look"
    BY DEF NoCall
  <2>2. \E r : r.pc # "answered" /\ call' = [call EXCEPT ![d] = r]
    <3>1. CASE \E b \in Tabs, h \in HopLimits : Ask(d, b, h)
      <4>1. PICK b \in Tabs, h \in HopLimits : Ask(d, b, h)
        BY <3>1
      <4> DEFINE to == [NoCall EXCEPT !.pc = "look", !.tab = b, !.hops = h]
      <4>2. to.pc = "look" /\ call' = [call EXCEPT ![d] = to]
        BY <2>1, <4>1 DEF Ask
      <4> HIDE DEF to
      <4> QED BY <4>2
    <3>2. CASE \E b \in Tabs, h \in HopLimits : AskAgain(d, b, h)
      <4>1. PICK b \in Tabs, h \in HopLimits : AskAgain(d, b, h)
        BY <3>2
      <4>2. call' = [call EXCEPT ![d] = Begun(b, h)]
        BY <4>1 DEF AskAgain
      <4> QED BY <1>8, <4>2
    <3>3. CASE MissStored(d)
      <4>1. call' = [call EXCEPT ![d] = Begun(call[d].tab, call[d].hops)]
        BY <3>3 DEF MissStored
      <4> QED BY <1>8, <4>1
    <3>4. CASE EndCall(d)
      <4>1. call' = [call EXCEPT ![d] = NoCall]
        BY <3>4 DEF EndCall
      <4> QED BY <1>8, <4>1
    <3> QED BY <1>9, <3>1, <3>2, <3>3, <3>4
  <2> QED BY <1>3, <2>2
<1>10. ASSUME NEW d \in Callers, WalkLevel(d) \/ LevelFails(d) PROVE FALSE
  <2>1. call[d].pc = "walk" /\ call'[d].pc = "walk" /\ (d # c => call'[c] = call[c])
    <3>1. CASE LevelFails(d)
      <4>1. call' = [call EXCEPT ![d].frontier = {}, ![d].broken = TRUE] /\ call[d].pc = "walk"
        BY <3>1 DEF LevelFails, MayWalk
      <4> QED BY <1>1, <4>1 DEF RequestOf
    <3>2. CASE WalkLevel(d)
      <4> DEFINE level == Further(lineageRows, call[d].tab, call[d].frontier)
                 v == Visited(call[d].visited, level, call[d].hop + 1)
                 f == level \ ({Focus} \union DOMAIN call[d].visited)
                 n == call[d].hop + 1
      <4>1. call' = [call EXCEPT ![d].hop = n, ![d].visited = v, ![d].frontier = f]
            /\ call[d].pc = "walk"
        BY <3>2 DEF WalkLevel, MayWalk
      <4> HIDE DEF v, f, n
      <4> QED BY <1>1, <4>1 DEF RequestOf
    <3> QED BY <1>10, <3>1, <3>2
  <2> QED BY <2>1
<1>11. ASSUME NEW d \in Callers, ReportImpact(d) \/ ReportRootCause(d) PROVE FALSE
  <2>1. \E m : ToStore(d, m)
    <3>1. CASE ReportImpact(d)
      BY <3>1 DEF ReportImpact
    <3>2. CASE ReportRootCause(d)
      <4>1. PICK unread : LET F == Flagged(call[d].visited, unread)
                            marked(m) == [m EXCEPT !.broken = @ \/ unread # {}]
                        IN \/ F = {} /\ ToStore(d, marked(Report(d, {}, {}, NoStored)))
                           \/ \E prime \in Primes(F) :
                                ToStore(d, marked(Report(d, F, FailurePath(F, prime), prime)))
        BY <3>2 DEF ReportRootCause
      <4> DEFINE marked(m) == [m EXCEPT !.broken = @ \/ unread # {}]
      <4>2. \E m : ToStore(d, marked(m))
        BY <4>1
      <4> HIDE DEF marked
      <4> QED BY <4>2
    <3> QED BY <1>11, <3>1, <3>2
  <2>2. PICK m : ToStore(d, m)
    BY <2>1
  <2> DEFINE to == [NoCall EXCEPT !.pc = "store", !.tab = m.tab, !.report = m]
  <2>3. to.pc = "store" /\ call' = [call EXCEPT ![d] = to]
    BY <2>2 DEF ToStore, NoCall
  <2> HIDE DEF to
  <2> QED BY <1>3, <2>3
<1>12. call' # call
  OBVIOUS
<1>13. /\ \A m \in landing : ~StoreLands(m)
       /\ \A B \in SUBSET Tabs : ~EvictReports(B)
       /\ \A r \in MoreRows : ~RecordRow(r)
       /\ ~UNCHANGED reportVars
  BY <1>12 DEF StoreLands, EvictReports, RecordRow, reportVars
<1>14. TableReportsNext
  BY <1>13
<1>15. PICK d \in Callers :
         \/ \E b \in Tabs, h \in HopLimits : Ask(d, b, h) \/ AskAgain(d, b, h)
         \/ ServeStored(d) \/ MissStored(d) \/ WalkLevel(d) \/ LevelFails(d)
         \/ ReportImpact(d) \/ ReportRootCause(d)
         \/ StoreReport(d) \/ StoreFails(d) \/ EndCall(d)
  BY <1>13, <1>14 DEF TableReportsNext
<1> QED BY <1>5, <1>6, <1>7, <1>9, <1>10, <1>11, <1>15

\* "Only an explicit refresh or admin eviction replaces it" (server/capability_cache.py),
\* as far as it goes: once a report is stored while no other is being made or may
\* still land, no later answer is older, for any number of callers and rows.
THEOREM AnswersHold == TableReportsSpec => AnswersDoNotGoBack
<1>1. ASSUME StoredSound, [TableReportsNext]_reportVars
      PROVE  [\A c \in Callers :
                (call[c].pc # "answered" /\ call'[c].pc = "answered")
                    => call'[c].report.began >= floor[call[c].tab]]_reportVars
  BY <1>1, AnswerStep
<1> QED BY <1>1, StoredReportsSound, PTL DEF TableReportsSpec, AnswersDoNotGoBack

-----------------------------------------------------------------------------
(***************************************************************************)
(* How far a walk reaches: the tables within n rows of the focus, level by *)
(* level, and what a walk under way knows of them.                         *)
(***************************************************************************)
\* The tables within n rows of the focus, as Within computes them level by level.
ReachOf(R, b, n) ==
    LET reach[i \in 0..n] == IF i = 0 THEN {Focus}
                             ELSE reach[i - 1] \union Further(R, b, reach[i - 1])
    IN  reach
IsReach(f, R, b, n) ==
    f = [i \in 0..n |-> IF i = 0 THEN {Focus} ELSE f[i - 1] \union Further(R, b, f[i - 1])]
Level(R, b, n) == ReachOf(R, b, n)[n]

\* There is such a function: a least n without one would have one, made from that of n - 1.
LEMMA ReachExists ==
  ASSUME NEW R, NEW b, NEW n \in Nat
  PROVE  IsReach(ReachOf(R, b, n), R, b, n)
<1> DEFINE S == {m \in Nat : ~ \E f : IsReach(f, R, b, m)}
<1>1. S = {}
  <2> SUFFICES ASSUME S # {} PROVE FALSE
    OBVIOUS
  <2>1. PICK m \in S : \A k \in S : m <= k
    <3>1. S \in SUBSET Nat
      OBVIOUS
    <3> HIDE DEF S
    <3> QED BY <3>1, SmallestOf
  <2>2. m \in Nat /\ ~ \E f : IsReach(f, R, b, m)
    BY <2>1
  <2>3. CASE m = 0
    <3> DEFINE f == [i \in 0..m |-> {Focus}]
    <3>1. f = [i \in 0..m |-> IF i = 0 THEN {Focus} ELSE f[i - 1] \union Further(R, b, f[i - 1])]
      BY <2>3
    <3> HIDE DEF f
    <3> QED BY <2>2, <3>1 DEF IsReach
  <2>4. CASE m # 0
    <3>1. m - 1 \in Nat /\ m - 1 < m
      BY <2>2, <2>4
    <3>2. m - 1 \notin S
      BY <2>1, <2>2, <3>1
    <3>3. PICK g : IsReach(g, R, b, m - 1)
      BY <3>1, <3>2
    <3>4. g = [i \in 0..m - 1 |-> IF i = 0 THEN {Focus} ELSE g[i - 1] \union Further(R, b, g[i - 1])]
      BY <3>3 DEF IsReach
    <3>5. \A i \in 0..m - 1 : g[i] = IF i = 0 THEN {Focus} ELSE g[i - 1] \union Further(R, b, g[i - 1])
      BY <3>4
    <3> DEFINE f == [i \in 0..m |-> IF i = m THEN g[m - 1] \union Further(R, b, g[m - 1]) ELSE g[i]]
               h == [i \in 0..m |-> IF i = 0 THEN {Focus} ELSE f[i - 1] \union Further(R, b, f[i - 1])]
    <3>6. \A i \in 0..m : f[i] = IF i = m THEN g[m - 1] \union Further(R, b, g[m - 1]) ELSE g[i]
      OBVIOUS
    <3>7. \A i \in 0..m : i # 0 => f[i - 1] = g[i - 1]
      <4> SUFFICES ASSUME NEW i \in 0..m, i # 0 PROVE f[i - 1] = g[i - 1]
        OBVIOUS
      <4>1. i - 1 \in 0..m /\ i - 1 # m
        BY <2>2
      <4> HIDE DEF f
      <4> QED BY <3>6, <4>1
    <3>8. \A i \in 0..m : f[i] = IF i = 0 THEN {Focus} ELSE f[i - 1] \union Further(R, b, f[i - 1])
      <4> SUFFICES ASSUME NEW i \in 0..m
                   PROVE  f[i] = IF i = 0 THEN {Focus} ELSE f[i - 1] \union Further(R, b, f[i - 1])
        OBVIOUS
      <4> HIDE DEF f
      <4>1. CASE i = m
        BY <2>4, <3>6, <3>7, <4>1
      <4>2. CASE i # m
        <5>1. i \in 0..m - 1
          BY <2>2, <4>2
        <5> QED BY <3>5, <3>6, <3>7, <4>2, <5>1
      <4> QED BY <4>1, <4>2
    <3>9. f = h
      <4>1. \A i \in 0..m : f[i] = h[i]
        BY <3>8
      <4>2. DOMAIN f = 0..m /\ f = [i \in 0..m |-> f[i]]
        OBVIOUS
      <4>3. h = [i \in 0..m |-> f[i]]
        <5> HIDE DEF f
        <5> QED BY <3>8
      <4> QED BY <4>2, <4>3
    <3>10. IsReach(f, R, b, m)
      BY <3>9 DEF IsReach
    <3> HIDE DEF f
    <3> QED BY <2>2, <3>10
  <2> QED BY <2>3, <2>4
<1>2. \E f : IsReach(f, R, b, n)
  BY <1>1
<1>3. ReachOf(R, b, n) = CHOOSE f : IsReach(f, R, b, n)
  BY DEF ReachOf, IsReach
<1> QED BY <1>2, <1>3, Zenon

\* What such a function is at each depth.
LEMMA ReachSteps ==
  ASSUME NEW R, NEW b, NEW n \in Nat
  PROVE  /\ ReachOf(R, b, n)[0] = {Focus}
         /\ \A i \in 1..n : ReachOf(R, b, n)[i] = ReachOf(R, b, n)[i - 1] \union Further(R, b, ReachOf(R, b, n)[i - 1])
<1> DEFINE f == ReachOf(R, b, n)
<1>1. f = [i \in 0..n |-> IF i = 0 THEN {Focus} ELSE f[i - 1] \union Further(R, b, f[i - 1])]
  BY ReachExists DEF IsReach
<1> HIDE DEF f
<1>2. \A i \in 0..n : f[i] = IF i = 0 THEN {Focus} ELSE f[i - 1] \union Further(R, b, f[i - 1])
  BY <1>1
<1>3. f[0] = {Focus}
  <2>1. 0 \in 0..n
    OBVIOUS
  <2> QED BY <1>2, <2>1
<1>4. ASSUME NEW i \in 1..n PROVE f[i] = f[i - 1] \union Further(R, b, f[i - 1])
  <2>1. i \in 0..n /\ i # 0
    OBVIOUS
  <2> QED BY <1>2, <2>1
<1> QED BY <1>3, <1>4 DEF f

\* How far the function is computed does not matter.
LEMMA ReachAgrees ==
  ASSUME NEW R, NEW b, NEW n \in Nat, NEW i \in 0..n
  PROVE  ReachOf(R, b, n)[i] = Level(R, b, i)
<1> DEFINE S == {m \in Nat : \E k \in Nat : m <= k /\ ReachOf(R, b, k)[m] # Level(R, b, m)}
<1>1. S = {}
  <2> SUFFICES ASSUME S # {} PROVE FALSE
    OBVIOUS
  <2>1. PICK m \in S : \A k \in S : m <= k
    <3>1. S \in SUBSET Nat
      OBVIOUS
    <3> HIDE DEF S
    <3> QED BY <3>1, SmallestOf
  <2>2. PICK k \in Nat : m \in Nat /\ m <= k /\ ReachOf(R, b, k)[m] # Level(R, b, m)
    BY <2>1
  <2>3. CASE m = 0
    <3>1. ReachOf(R, b, k)[0] = {Focus} /\ ReachOf(R, b, 0)[0] = {Focus}
      BY <2>2, ReachSteps
    <3> QED BY <2>2, <2>3, <3>1 DEF Level
  <2>4. CASE m # 0
    <3>1. m - 1 \in Nat /\ m - 1 < m /\ m - 1 <= k /\ m \in 1..k /\ m \in 1..m /\ m - 1 <= m
      BY <2>2, <2>4
    <3>2. m - 1 \notin S
      BY <2>1, <2>2, <3>1
    <3>3. ReachOf(R, b, k)[m - 1] = Level(R, b, m - 1) /\ ReachOf(R, b, m)[m - 1] = Level(R, b, m - 1)
      BY <2>2, <3>1, <3>2
    <3>4. /\ ReachOf(R, b, k)[m] = ReachOf(R, b, k)[m - 1] \union Further(R, b, ReachOf(R, b, k)[m - 1])
          /\ ReachOf(R, b, m)[m] = ReachOf(R, b, m)[m - 1] \union Further(R, b, ReachOf(R, b, m)[m - 1])
      BY <2>2, <3>1, ReachSteps
    <3> QED BY <2>2, <3>3, <3>4 DEF Level
  <2> QED BY <2>3, <2>4
<1>2. i \in Nat /\ i <= n
  OBVIOUS
<1> QED BY <1>1, <1>2

\* The levels, one after the other.
LEMMA Levels ==
  ASSUME NEW R, NEW b
  PROVE  /\ Level(R, b, 0) = {Focus}
         /\ \A n \in Nat : Level(R, b, n + 1) = Level(R, b, n) \union Further(R, b, Level(R, b, n))
<1>1. Level(R, b, 0) = {Focus}
  BY ReachSteps DEF Level
<1>2. ASSUME NEW n \in Nat PROVE Level(R, b, n + 1) = Level(R, b, n) \union Further(R, b, Level(R, b, n))
  <2>1. n + 1 \in Nat /\ n + 1 \in 1..n + 1 /\ (n + 1) - 1 = n /\ n \in 0..n + 1
    OBVIOUS
  <2>2. Level(R, b, n + 1) = ReachOf(R, b, n + 1)[n] \union Further(R, b, ReachOf(R, b, n + 1)[n])
    BY <2>1, ReachSteps DEF Level
  <2>3. ReachOf(R, b, n + 1)[n] = Level(R, b, n)
    BY <2>1, ReachAgrees
  <2> QED BY <2>2, <2>3
<1> QED BY <1>1, <1>2

\* Within says a table is in its level.
LEMMA WithinLevel ==
  ASSUME NEW R, NEW b, NEW t, NEW n \in Nat
  PROVE  Within(R, b, t, n) <=> t \in Level(R, b, n)
BY DEF Within, Level, ReachOf

\* More rows and a wider frontier lead to no fewer tables.
LEMMA FurtherGrows ==
  ASSUME NEW R, NEW Q, R \subseteq Q, NEW b, NEW F, NEW G, F \subseteq G
  PROVE  Further(R, b, F) \subseteq Further(Q, b, G)
BY DEF Further

\* More rows bring no table farther away.
LEMMA LevelsGrow ==
  ASSUME NEW R, NEW Q, R \subseteq Q, NEW b, NEW n \in Nat
  PROVE  Level(R, b, n) \subseteq Level(Q, b, n)
<1> DEFINE S == {m \in Nat : ~ (Level(R, b, m) \subseteq Level(Q, b, m))}
<1>1. S = {}
  <2> SUFFICES ASSUME S # {} PROVE FALSE
    OBVIOUS
  <2>1. PICK m \in S : \A k \in S : m <= k
    <3>1. S \in SUBSET Nat
      OBVIOUS
    <3> HIDE DEF S
    <3> QED BY <3>1, SmallestOf
  <2>2. m \in Nat /\ ~ (Level(R, b, m) \subseteq Level(Q, b, m))
    BY <2>1
  <2>3. CASE m = 0
    BY <2>2, <2>3, Levels
  <2>4. CASE m # 0
    <3>1. m - 1 \in Nat /\ m - 1 < m /\ (m - 1) + 1 = m
      BY <2>2, <2>4
    <3>2. Level(R, b, m - 1) \subseteq Level(Q, b, m - 1)
      BY <2>1, <2>2, <3>1
    <3>3. Further(R, b, Level(R, b, m - 1)) \subseteq Further(Q, b, Level(Q, b, m - 1))
      BY <3>2, FurtherGrows
    <3>4. Level(R, b, (m - 1) + 1) = Level(R, b, m - 1) \union Further(R, b, Level(R, b, m - 1))
      BY <3>1, Levels
    <3>5. Level(Q, b, (m - 1) + 1) = Level(Q, b, m - 1) \union Further(Q, b, Level(Q, b, m - 1))
      BY <3>1, Levels
    <3> QED BY <2>2, <3>1, <3>2, <3>3, <3>4, <3>5
  <2> QED BY <2>3, <2>4
<1> QED BY <1>1

-----------------------------------------------------------------------------
\* The tables a walk or a report knows.
Known(v) == {Focus} \union DOMAIN v

\* What v tells is no nearer than it is by the rows R, and, of the rows Q, nothing within
\* h is missing or told farther.
NoneNearer(v, R, b, h) == \A t \in DOMAIN v : v[t] \in 1..h /\ t \in Level(R, b, v[t])
NoneMissing(v, Q, b, h) ==
    \A n \in 0..h : \A t \in Level(Q, b, n) \ {Focus} : t \in DOMAIN v /\ v[t] <= n

\* A walk under way, at its level.
WalkSound(r, R) ==
    /\ r.hops \in Nat /\ r.hop \in 0..r.hops /\ r.broken \in BOOLEAN
    /\ r.of \subseteq R /\ Focus \notin DOMAIN r.visited
    /\ r.frontier \subseteq Level(R, r.tab, r.hop)
    /\ NoneNearer(r.visited, R, r.tab, r.hop)
    /\ ~ r.broken => /\ Further(r.of, r.tab, Known(r.visited) \ r.frontier) \subseteq Known(r.visited)
                     /\ NoneMissing(r.visited, r.of, r.tab, r.hop)

\* A report that is made.
ReportSound(m, R) ==
    /\ m.hops \in Nat /\ NoneNearer(m.tables, R, m.tab, m.hops)
    /\ ~ m.broken => NoneMissing(m.tables, m.of, m.tab, m.hops)

CallSound(r, R) ==
    /\ r.pc = "look" => r.hops \in Nat
    /\ r.pc = "walk" => WalkSound(r, R)
    /\ r.pc \in {"store", "answered"} => ReportSound(r.report, R)

\* The inductive invariant.
WalksSound ==
    /\ \A c \in Callers : CallSound(call[c], lineageRows)
    /\ \A b \in Tabs : \A m \in stored[b] : ReportSound(m, lineageRows)
    /\ \A m \in landing : ReportSound(m, lineageRows)

-----------------------------------------------------------------------------
\* One row further from F: from a table outside G, or from one inside it.
LEMMA FurtherIs ==
  ASSUME NEW R, NEW b, NEW F, NEW t \in Further(R, b, F), NEW G,
         NEW Q, R \subseteq Q
  PROVE  t \in Further(R, b, F \ G) \/ t \in Further(Q, b, F \intersect G)
BY DEF Further

\* One more level: what is new is h + 1 away, and nothing of that level is missing.
LEMMA LevelWalked ==
  ASSUME NEW R, NEW b, NEW r, WalkSound(r, R), r.tab = b, r.hop < r.hops,
         NEW v, NEW f, NEW to,
         v = Visited(r.visited, Further(R, b, r.frontier), r.hop + 1),
         f = Further(R, b, r.frontier) \ Known(r.visited),
         to.hops = r.hops, to.hop = r.hop + 1, to.broken = r.broken, to.of = r.of, to.tab = b,
         to.visited = v, to.frontier = f
  PROVE  WalkSound(to, R)
<1> DEFINE F == Further(R, b, r.frontier)
           h == r.hop
<1>1. /\ r.hops \in Nat /\ h \in 0..r.hops /\ h \in Nat /\ h + 1 \in 0..r.hops
      /\ r.of \subseteq R /\ Focus \notin DOMAIN r.visited
      /\ r.frontier \subseteq Level(R, b, h) /\ NoneNearer(r.visited, R, b, h)
  BY DEF WalkSound
<1>2. DOMAIN v = DOMAIN r.visited \union (F \ {Focus})
  BY DEF Visited
<1>3. \A t \in DOMAIN v : v[t] = IF t \in DOMAIN r.visited THEN r.visited[t] ELSE h + 1
  BY DEF Visited
<1>4. Known(v) = Known(r.visited) \union F
  BY <1>2 DEF Known
<1> HIDE DEF h
<1>5. F \subseteq Level(R, b, h + 1)
  <2>1. F \subseteq Further(R, b, Level(R, b, h))
    BY <1>1, FurtherGrows
  <2>2. Level(R, b, h + 1) = Level(R, b, h) \union Further(R, b, Level(R, b, h))
    BY <1>1, Levels
  <2> QED BY <2>1, <2>2
<1> HIDE DEF F
<1>6. NoneNearer(v, R, b, h + 1)
  <2> SUFFICES ASSUME NEW t \in DOMAIN v PROVE v[t] \in 1..h + 1 /\ t \in Level(R, b, v[t])
    BY DEF NoneNearer
  <2>1. CASE t \in DOMAIN r.visited
    BY <1>1, <1>3, <2>1 DEF NoneNearer
  <2>2. CASE t \notin DOMAIN r.visited
    <3>1. v[t] = h + 1 /\ t \in F
      BY <1>2, <1>3, <2>2
    <3> QED BY <1>1, <1>5, <3>1
  <2> QED BY <2>1, <2>2
<1>7. f \subseteq Level(R, b, h + 1) /\ Focus \notin DOMAIN v
  BY <1>1, <1>2, <1>5 DEF F
<1>8. ASSUME ~ r.broken
      PROVE  /\ Further(r.of, b, Known(v) \ f) \subseteq Known(v)
             /\ NoneMissing(v, r.of, b, h + 1)
  <2>1. /\ Further(r.of, b, Known(r.visited) \ r.frontier) \subseteq Known(r.visited)
        /\ NoneMissing(r.visited, r.of, b, h)
    BY <1>8 DEF WalkSound, h
  <2>2. Further(r.of, b, Known(r.visited)) \subseteq Known(v)
    <3> SUFFICES ASSUME NEW t \in Further(r.of, b, Known(r.visited)) PROVE t \in Known(v)
      OBVIOUS
    <3>1. \/ t \in Further(r.of, b, Known(r.visited) \ r.frontier)
          \/ t \in Further(R, b, Known(r.visited) \intersect r.frontier)
      BY <1>1, FurtherIs
    <3>2. Further(R, b, Known(r.visited) \intersect r.frontier) \subseteq F
      <4>1. R \subseteq R /\ Known(r.visited) \intersect r.frontier \subseteq r.frontier
        OBVIOUS
      <4> QED BY <4>1, FurtherGrows DEF F
    <3> QED BY <1>4, <2>1, <3>1, <3>2
  <2>3. Further(r.of, b, Known(v) \ f) \subseteq Known(v)
    <3>1. Known(v) \ f \subseteq Known(r.visited)
      BY <1>4 DEF F
    <3>2. Further(r.of, b, Known(v) \ f) \subseteq Further(r.of, b, Known(r.visited))
      BY <3>1, FurtherGrows
    <3> QED BY <2>2, <3>2
  <2>4. ASSUME NEW n \in 0..h + 1, NEW t \in Level(r.of, b, n) \ {Focus}
        PROVE  t \in DOMAIN v /\ v[t] <= n
    <3>1. CASE n \in 0..h
      <4>1. t \in DOMAIN r.visited /\ r.visited[t] <= n
        BY <2>1, <2>4, <3>1 DEF NoneMissing
      <4> QED BY <1>2, <1>3, <4>1
    <3>2. CASE n = h + 1
      <4>1. Level(r.of, b, h + 1) = Level(r.of, b, h) \union Further(r.of, b, Level(r.of, b, h))
        <5> DEFINE O == r.of
        <5> HIDE DEF O
        <5>1. Level(O, b, h + 1) = Level(O, b, h) \union Further(O, b, Level(O, b, h))
          BY <1>1, Levels
        <5> QED BY <5>1 DEF O
      <4>2. h \in 0..h
        BY <1>1
      <4>3. Level(r.of, b, h) \subseteq Known(r.visited)
        BY <2>1, <4>2 DEF NoneMissing, Known
      <4>4. Further(r.of, b, Level(r.of, b, h)) \subseteq Further(r.of, b, Known(r.visited))
        BY <4>3, FurtherGrows
      <4>5. t \in Known(v)
        BY <1>4, <2>2, <2>4, <3>2, <4>1, <4>3, <4>4
      <4>6. t \in DOMAIN v
        BY <2>4, <4>5 DEF Known
      <4>7. v[t] \in 1..h + 1
        BY <1>6, <4>6 DEF NoneNearer
      <4> QED BY <1>1, <3>2, <4>6, <4>7
    <3>3. n \in 0..h \/ n = h + 1
      BY <1>1
    <3> QED BY <3>1, <3>2, <3>3
  <2> QED BY <2>3, <2>4 DEF NoneMissing
<1> QED BY <1>1, <1>6, <1>7, <1>8 DEF WalkSound, h

\* A walk that is over, because its depth is used up or nothing new was met, has it all:
\* what is within some depth beyond its last level would be beyond a closed set.
LEMMA WalkEnded ==
  ASSUME NEW R, NEW r, WalkSound(r, R), r.frontier = {} \/ r.hop = r.hops
  PROVE  /\ NoneNearer(r.visited, R, r.tab, r.hops)
         /\ ~ r.broken => NoneMissing(r.visited, r.of, r.tab, r.hops)
<1>1. r.hops \in Nat /\ r.hop \in 0..r.hops /\ NoneNearer(r.visited, R, r.tab, r.hop)
  BY DEF WalkSound
<1>2. NoneNearer(r.visited, R, r.tab, r.hops)
  BY <1>1 DEF NoneNearer
<1>3. ASSUME ~ r.broken PROVE NoneMissing(r.visited, r.of, r.tab, r.hops)
  <2>1. NoneMissing(r.visited, r.of, r.tab, r.hop)
    BY <1>3 DEF WalkSound
  <2>2. CASE r.hop = r.hops
    BY <2>1, <2>2
  <2>3. CASE r.frontier = {}
    <3> DEFINE K == Known(r.visited)
               S == {n \in Nat : ~ (Level(r.of, r.tab, n) \subseteq K)}
    <3>1. Further(r.of, r.tab, K) \subseteq K
      <4>1. K \ r.frontier = K
        BY <2>3
      <4> HIDE DEF K
      <4> QED BY <1>3, <4>1 DEF WalkSound, K
    <3>2. S = {}
      <4> SUFFICES ASSUME S # {} PROVE FALSE
        OBVIOUS
      <4>1. PICK n \in S : \A k \in S : n <= k
        <5>1. S \in SUBSET Nat
          OBVIOUS
        <5> HIDE DEF S
        <5> QED BY <5>1, SmallestOf
      <4>2. n \in Nat /\ ~ (Level(r.of, r.tab, n) \subseteq K)
        BY <4>1
      <4>3. CASE n = 0
        <5>1. Focus \in K
          BY DEF Known
        <5>2. Level(r.of, r.tab, 0) = {Focus}
          BY Levels
        <5> HIDE DEF K
        <5> QED BY <4>2, <4>3, <5>1, <5>2
      <4>4. CASE n # 0
        <5>1. n - 1 \in Nat /\ n - 1 < n /\ (n - 1) + 1 = n
          BY <4>2, <4>4
        <5>2. Level(r.of, r.tab, n - 1) \subseteq K
          BY <4>1, <4>2, <5>1
        <5> HIDE DEF K
        <5>3. Further(r.of, r.tab, Level(r.of, r.tab, n - 1)) \subseteq Further(r.of, r.tab, K)
          BY <5>2, FurtherGrows
        <5>4. Level(r.of, r.tab, (n - 1) + 1)
                = Level(r.of, r.tab, n - 1) \union Further(r.of, r.tab, Level(r.of, r.tab, n - 1))
          BY <5>1, Levels
        <5> QED BY <3>1, <4>2, <5>1, <5>2, <5>3, <5>4
      <4> QED BY <4>3, <4>4
    <3> SUFFICES ASSUME NEW n \in 0..r.hops, NEW t \in Level(r.of, r.tab, n) \ {Focus}
                 PROVE  t \in DOMAIN r.visited /\ r.visited[t] <= n
      BY DEF NoneMissing
    <3>3. CASE n \in 0..r.hop
      BY <2>1, <3>3 DEF NoneMissing
    <3>4. CASE n \notin 0..r.hop
      <4>1. n \in Nat /\ r.hop \in Nat /\ r.hop <= n
        BY <1>1, <3>4
      <4>2. t \in K
        BY <3>2, <4>1
      <4>3. t \in DOMAIN r.visited
        BY <4>2 DEF Known
      <4>4. r.visited[t] \in 1..r.hop
        BY <1>1, <4>3 DEF NoneNearer
      <4> QED BY <4>1, <4>3, <4>4
    <3> QED BY <3>3, <3>4
  <2> QED BY <2>2, <2>3
<1> QED BY <1>2, <1>3

\* Rows that are recorded leave all of it right.
LEMMA RowsAdded ==
  ASSUME NEW R, NEW Q, R \subseteq Q
  PROVE  /\ \A v, b, h : h \in Nat /\ NoneNearer(v, R, b, h) => NoneNearer(v, Q, b, h)
         /\ \A m : ReportSound(m, R) => ReportSound(m, Q)
         /\ \A r : CallSound(r, R) => CallSound(r, Q)
<1>1. ASSUME NEW v, NEW b, NEW h \in Nat, NoneNearer(v, R, b, h) PROVE NoneNearer(v, Q, b, h)
  <2> SUFFICES ASSUME NEW t \in DOMAIN v PROVE v[t] \in 1..h /\ t \in Level(Q, b, v[t])
    BY DEF NoneNearer
  <2>1. v[t] \in 1..h /\ t \in Level(R, b, v[t]) /\ v[t] \in Nat
    BY <1>1 DEF NoneNearer
  <2> QED BY <2>1, LevelsGrow
<1>2. ASSUME NEW m, ReportSound(m, R) PROVE ReportSound(m, Q)
  BY <1>1, <1>2 DEF ReportSound
<1>3. ASSUME NEW r, WalkSound(r, R) PROVE WalkSound(r, Q)
  <2>1. r.hops \in Nat /\ r.hop \in Nat /\ NoneNearer(r.visited, R, r.tab, r.hop)
    BY <1>3 DEF WalkSound
  <2>2. NoneNearer(r.visited, Q, r.tab, r.hop)
    BY <1>1, <2>1
  <2>3. Level(R, r.tab, r.hop) \subseteq Level(Q, r.tab, r.hop)
    BY <2>1, LevelsGrow
  <2> QED BY <1>3, <2>2, <2>3 DEF WalkSound
<1>4. ASSUME NEW r, CallSound(r, R) PROVE CallSound(r, Q)
  BY <1>2, <1>3, <1>4 DEF CallSound
<1> QED BY <1>1, <1>2, <1>4

-----------------------------------------------------------------------------
\* A caller's step to a request that is sound.
LEMMA CallMoves ==
  ASSUME WalksSound, DOMAIN call = Callers, NEW c \in Callers, NEW r, call' = [call EXCEPT ![c] = r],
         CallSound(r, lineageRows), UNCHANGED <<lineageRows, stored, landing>>
  PROVE  WalksSound'
<1>1. \A d \in Callers : call'[d] = IF d = c THEN r ELSE call[d]
  OBVIOUS
<1>2. \A d \in Callers : CallSound(call'[d], lineageRows)
  BY <1>1 DEF WalksSound
<1> QED BY <1>2 DEF WalksSound

\* compute() begins.
LEMMA WalkBegun ==
  ASSUME StoredSound, NEW b \in Tabs, NEW h \in Nat
  PROVE  CallSound(Begun(b, h), lineageRows)
<1> DEFINE r == Begun(b, h)
<1>1. /\ r.pc = "walk" /\ r.tab = b /\ r.hops = h /\ r.hop = 0 /\ r.frontier = {Focus}
      /\ r.visited = << >> /\ r.broken = FALSE /\ r.of = lineageRows
  BY DEF Begun, NoCall
<1> HIDE DEF r
<1>2. DOMAIN r.visited = {}
  BY <1>1
<1>3. \A R : Level(R, b, 0) = {Focus}
  BY Levels
<1>4. NoneNearer(r.visited, lineageRows, b, 0)
  BY <1>2 DEF NoneNearer
<1>5. NoneMissing(r.visited, lineageRows, b, 0)
  BY <1>3 DEF NoneMissing
<1>6. Further(lineageRows, b, Known(r.visited) \ {Focus}) \subseteq Known(r.visited)
  <2>1. Known(r.visited) \ {Focus} = {}
    BY <1>2 DEF Known
  <2> QED BY <2>1 DEF Further
<1>7. WalkSound(r, lineageRows)
  <2>1. r.hops \in Nat /\ r.hop \in 0..r.hops
    <3>1. 0 \in 0..h
      OBVIOUS
    <3>2. r.hops = h /\ r.hop = 0
      BY <1>1
    <3> QED BY <3>1, <3>2
  <2>7. r.broken \in BOOLEAN
    BY <1>1, Zenon
  <2>2. r.of \subseteq lineageRows /\ Focus \notin DOMAIN r.visited
    BY <1>1, <1>2
  <2>3. r.frontier \subseteq Level(lineageRows, r.tab, r.hop)
    BY <1>1, <1>3
  <2>4. NoneNearer(r.visited, lineageRows, r.tab, r.hop)
    BY <1>1, <1>4
  <2>5. Further(r.of, r.tab, Known(r.visited) \ r.frontier) \subseteq Known(r.visited)
    BY <1>1, <1>6
  <2>6. NoneMissing(r.visited, r.of, r.tab, r.hop)
    BY <1>1, <1>5
  <2> QED BY <2>1, <2>2, <2>3, <2>4, <2>5, <2>6, <2>7 DEF WalkSound
<1> QED BY <1>1, <1>7 DEF CallSound, r

\* The report of a walk that is over.
LEMMA ReportMade ==
  ASSUME WalksSound, NEW c \in Callers, WalkOver(c),
         NEW m, m.tab = call[c].tab, m.hops = call[c].hops, m.tables = call[c].visited, m.of = call[c].of,
         ~ m.broken => ~ call[c].broken
  PROVE  ReportSound(m, lineageRows)
<1> DEFINE r == call[c]
<1>1. WalkSound(r, lineageRows) /\ (r.frontier = {} \/ r.hop = r.hops)
  BY DEF WalksSound, CallSound, WalkOver
<1>2. r.hops \in Nat
  BY <1>1 DEF WalkSound
<1>3. /\ NoneNearer(r.visited, lineageRows, r.tab, r.hops)
      /\ ~ r.broken => NoneMissing(r.visited, r.of, r.tab, r.hops)
  <2> HIDE DEF r
  <2> QED BY <1>1, WalkEnded
<1> QED BY <1>2, <1>3 DEF ReportSound

\* A caller that goes to store a report that is sound.
LEMMA ReportKept ==
  ASSUME WalksSound, DOMAIN call = Callers, NEW c \in Callers, NEW m, ReportSound(m, lineageRows), ToStore(c, m),
         UNCHANGED <<lineageRows, stored, landing>>
  PROVE  WalksSound'
<1> DEFINE to == [NoCall EXCEPT !.pc = "store", !.tab = m.tab, !.report = m]
<1>1. to.pc = "store" /\ to.report = m /\ call' = [call EXCEPT ![c] = to]
  BY DEF ToStore, NoCall
<1> HIDE DEF to
<1>2. CallSound(to, lineageRows)
  BY <1>1 DEF CallSound
<1> QED BY <1>1, <1>2, CallMoves

\* Every step of a caller.
LEMMA WalkSteps ==
  ASSUME StoredSound, WalksSound, NEW c \in Callers
  PROVE  /\ \A b \in Tabs, h \in HopLimits : Ask(c, b, h) \/ AskAgain(c, b, h) => WalksSound'
         /\ ServeStored(c) \/ MissStored(c) \/ WalkLevel(c) \/ LevelFails(c) => WalksSound'
         /\ ReportImpact(c) \/ ReportRootCause(c) \/ EndCall(c) => WalksSound'
         /\ StoreReport(c) \/ StoreFails(c) => WalksSound'
<1> DEFINE r == call[c]
<1>1. DOMAIN call = Callers /\ RequestSound(r) /\ CallSound(r, lineageRows) /\ HopLimits \subseteq Nat
  BY ReportBounds DEF StoredSound, WalksSound
<1>2. PICK U : call \in [Callers -> RequestOf(U)]
  BY DEF StoredSound
<1>3. r \in RequestOf(U)
  BY <1>2
<1>4. ASSUME NEW b \in Tabs, NEW h \in HopLimits, Ask(c, b, h) PROVE WalksSound'
  <2> DEFINE to == [NoCall EXCEPT !.pc = "look", !.tab = b, !.hops = h]
  <2>1. to.pc = "look" /\ to.hops \in Nat
    BY <1>1 DEF NoCall
  <2>2. call' = [call EXCEPT ![c] = to] /\ UNCHANGED <<lineageRows, stored, landing>>
    BY <1>4 DEF Ask
  <2> HIDE DEF to
  <2>3. CallSound(to, lineageRows)
    BY <2>1 DEF CallSound
  <2> QED BY <1>1, <2>2, <2>3, CallMoves
<1>5. ASSUME NEW b \in Tabs, NEW h \in Nat, call' = [call EXCEPT ![c] = Begun(b, h)],
             UNCHANGED <<lineageRows, stored, landing>>
      PROVE  WalksSound'
  BY <1>1, <1>5, WalkBegun, CallMoves
<1>6. ASSUME NEW b \in Tabs, NEW h \in HopLimits, AskAgain(c, b, h) PROVE WalksSound'
  <2>1. call' = [call EXCEPT ![c] = Begun(b, h)] /\ UNCHANGED <<lineageRows, stored, landing>>
    BY <1>6 DEF AskAgain
  <2> QED BY <1>1, <1>5, <2>1
<1>7. ASSUME ServeStored(c) PROVE WalksSound'
  <2>1. PICK m \in stored[r.tab] : call' = [call EXCEPT ![c] = Answered(m)]
    BY <1>7 DEF ServeStored
  <2>2. UNCHANGED <<lineageRows, stored, landing>> /\ r.pc = "look"
    BY <1>7 DEF ServeStored
  <2>3. r.tab \in Tabs
    BY <1>1, <2>2 DEF RequestSound
  <2>4. ReportSound(m, lineageRows)
    BY <2>1, <2>3 DEF WalksSound
  <2>5. Answered(m).pc = "answered" /\ Answered(m).report = m
    BY DEF Answered, NoCall
  <2>6. CallSound(Answered(m), lineageRows)
    BY <2>4, <2>5 DEF CallSound
  <2> QED BY <1>1, <2>1, <2>2, <2>6, CallMoves
<1>8. ASSUME MissStored(c) PROVE WalksSound'
  <2>1. /\ call' = [call EXCEPT ![c] = Begun(r.tab, r.hops)] /\ UNCHANGED <<lineageRows, stored, landing>>
        /\ r.pc = "look"
    BY <1>8 DEF MissStored
  <2>2. r.tab \in Tabs /\ r.hops \in Nat
    BY <1>1, <2>1 DEF RequestSound, CallSound
  <2> QED BY <1>5, <2>1, <2>2
<1>9. ASSUME WalkLevel(c) PROVE WalksSound'
  <2> DEFINE v == Visited(r.visited, Further(lineageRows, r.tab, r.frontier), r.hop + 1)
             f == Further(lineageRows, r.tab, r.frontier) \ Known(r.visited)
             n == r.hop + 1
  <2>1. /\ call' = [call EXCEPT ![c].hop = n, ![c].visited = v, ![c].frontier = f]
        /\ r.pc = "walk" /\ r.hop < r.hops /\ UNCHANGED <<lineageRows, stored, landing>>
    BY <1>9 DEF WalkLevel, MayWalk, Known
  <2>2. WalkSound(r, lineageRows)
    BY <1>1, <2>1 DEF CallSound
  <2> DEFINE to == [r EXCEPT !.hop = n, !.visited = v, !.frontier = f]
  <2> HIDE DEF v, f, n
  <2>3. /\ to.pc = "walk" /\ to.hops = r.hops /\ to.hop = n /\ to.broken = r.broken /\ to.of = r.of
        /\ to.tab = r.tab /\ to.visited = v /\ to.frontier = f
    BY <1>3, <2>1 DEF RequestOf
  <2>4. call' = [call EXCEPT ![c] = to]
    BY <2>1
  <2> HIDE DEF to, r
  <2>5. WalkSound(to, lineageRows)
    BY <2>1, <2>2, <2>3, LevelWalked DEF v, f, n
  <2>6. CallSound(to, lineageRows)
    BY <2>3, <2>5 DEF CallSound
  <2> QED BY <1>1, <2>1, <2>4, <2>6, CallMoves
<1>10. ASSUME LevelFails(c) PROVE WalksSound'
  <2>1. /\ call' = [call EXCEPT ![c].frontier = {}, ![c].broken = TRUE]
        /\ r.pc = "walk" /\ UNCHANGED <<lineageRows, stored, landing>>
    BY <1>10 DEF LevelFails, MayWalk
  <2>2. WalkSound(r, lineageRows)
    BY <1>1, <2>1 DEF CallSound
  <2> DEFINE to == [r EXCEPT !.frontier = {}, !.broken = TRUE]
  <2>3. /\ to.pc = "walk" /\ to.hops = r.hops /\ to.hop = r.hop /\ to.broken = TRUE /\ to.of = r.of
        /\ to.tab = r.tab /\ to.visited = r.visited /\ to.frontier = {}
    BY <1>3, <2>1 DEF RequestOf
  <2>4. call' = [call EXCEPT ![c] = to]
    BY <2>1
  <2> HIDE DEF to
  <2>5. WalkSound(to, lineageRows)
    BY <2>2, <2>3 DEF WalkSound
  <2>6. CallSound(to, lineageRows)
    BY <2>3, <2>5 DEF CallSound
  <2> QED BY <1>1, <2>1, <2>4, <2>6, CallMoves
<1>11. ASSUME NEW entities, NEW path, NEW prime, NEW b
       PROVE  LET m == [Report(c, entities, path, prime) EXCEPT !.broken = b]
              IN  /\ m.tab = r.tab /\ m.hops = r.hops /\ m.tables = r.visited /\ m.of = r.of
                  /\ m.broken = b
  BY DEF Report
<1>12. ASSUME NEW entities, NEW path, NEW prime
       PROVE  LET m == Report(c, entities, path, prime)
              IN  /\ m.tab = r.tab /\ m.hops = r.hops /\ m.tables = r.visited /\ m.of = r.of
                  /\ m.broken = r.broken
  BY DEF Report
<1>13. ASSUME ReportImpact(c) PROVE WalksSound'
  <2>1. WalkOver(c) /\ UNCHANGED <<lineageRows, stored, landing>>
    BY <1>13 DEF ReportImpact
  <2>2. CASE ToStore(c, Report(c, Readers(r.visited), {}, NoStored))
    <3> DEFINE m == Report(c, Readers(r.visited), {}, NoStored)
    <3>1. m.tab = r.tab /\ m.hops = r.hops /\ m.tables = r.visited /\ m.of = r.of /\ m.broken = r.broken
      BY <1>12
    <3>2. ToStore(c, m)
      BY <2>2
    <3> HIDE DEF m
    <3>3. ReportSound(m, lineageRows)
      BY <2>1, <3>1, ReportMade
    <3> QED BY <1>1, <2>1, <3>2, <3>3, ReportKept
  <2>3. CASE ToStore(c, [Report(c, {}, {}, NoStored) EXCEPT !.broken = TRUE])
    <3> DEFINE m == [Report(c, {}, {}, NoStored) EXCEPT !.broken = TRUE]
    <3>1. m.tab = r.tab /\ m.hops = r.hops /\ m.tables = r.visited /\ m.of = r.of /\ m.broken = TRUE
      BY <1>11
    <3>2. ToStore(c, m)
      BY <2>3
    <3> HIDE DEF m
    <3>3. ReportSound(m, lineageRows)
      BY <2>1, <3>1, ReportMade
    <3> QED BY <1>1, <2>1, <3>2, <3>3, ReportKept
  <2> QED BY <1>13, <2>2, <2>3 DEF ReportImpact
<1>14. ASSUME ReportRootCause(c) PROVE WalksSound'
  <2>1. WalkOver(c) /\ UNCHANGED <<lineageRows, stored, landing>>
    BY <1>14 DEF ReportRootCause
  <2>2. \E entities, path, prime, d :
            ToStore(c, [Report(c, entities, path, prime) EXCEPT !.broken = r.broken \/ d])
    <3>1. PICK unread : LET F == Flagged(call[c].visited, unread)
                            marked(m) == [m EXCEPT !.broken = @ \/ unread # {}]
                        IN \/ F = {} /\ ToStore(c, marked(Report(c, {}, {}, NoStored)))
                           \/ \E prime \in Primes(F) :
                                ToStore(c, marked(Report(c, F, FailurePath(F, prime), prime)))
      BY <1>14 DEF ReportRootCause
    <3> DEFINE F == Flagged(call[c].visited, unread)
               d == unread # {}
    <3>2. CASE F = {} /\ ToStore(c, [Report(c, {}, {}, NoStored) EXCEPT !.broken = @ \/ d])
      <4> DEFINE m == Report(c, {}, {}, NoStored)
      <4>1. ToStore(c, [m EXCEPT !.broken = m.broken \/ d]) /\ m.broken = r.broken
        BY <1>12, <3>2
      <4> HIDE DEF d, m
      <4>2. ToStore(c, [m EXCEPT !.broken = r.broken \/ d])
        BY <4>1
      <4> QED BY <4>2 DEF m
    <3>3. CASE \E prime \in Primes(F) :
                  ToStore(c, [Report(c, F, FailurePath(F, prime), prime) EXCEPT !.broken = @ \/ d])
      <4>1. PICK prime \in Primes(F) :
                  ToStore(c, [Report(c, F, FailurePath(F, prime), prime) EXCEPT !.broken = @ \/ d])
        BY <3>3
      <4> DEFINE m == Report(c, F, FailurePath(F, prime), prime)
      <4>2. ToStore(c, [m EXCEPT !.broken = m.broken \/ d]) /\ m.broken = r.broken
        BY <1>12, <4>1
      <4> HIDE DEF d, m, F
      <4>3. ToStore(c, [m EXCEPT !.broken = r.broken \/ d])
        BY <4>2
      <4> QED BY <4>3 DEF m
    <3> QED BY <3>1, <3>2, <3>3
  <2>3. PICK entities, path, prime, d :
            ToStore(c, [Report(c, entities, path, prime) EXCEPT !.broken = r.broken \/ d])
    BY <2>2
  <2> DEFINE m == [Report(c, entities, path, prime) EXCEPT !.broken = r.broken \/ d]
  <2>4. m.tab = r.tab /\ m.hops = r.hops /\ m.tables = r.visited /\ m.of = r.of /\ m.broken = (r.broken \/ d)
    BY <1>11
  <2>5. ToStore(c, m)
    BY <2>3
  <2> HIDE DEF m, r
  <2>6. ~ m.broken => ~ r.broken
    BY <2>4
  <2>7. ReportSound(m, lineageRows)
    BY <2>1, <2>4, <2>6, ReportMade DEF r
  <2> QED BY <1>1, <2>1, <2>5, <2>7, ReportKept
<1>15. ASSUME EndCall(c) PROVE WalksSound'
  <2>1. call' = [call EXCEPT ![c] = NoCall] /\ UNCHANGED <<lineageRows, stored, landing>>
    BY <1>15 DEF EndCall
  <2>2. CallSound(NoCall, lineageRows)
    BY DEF CallSound, NoCall
  <2> QED BY <1>1, <2>1, <2>2, CallMoves
<1>16. ASSUME StoreReport(c) \/ StoreFails(c) PROVE WalksSound'
  <2> DEFINE m == r.report
             to == Answered(m)
  <2>1. /\ r.pc = "store" /\ call' = [call EXCEPT ![c] = to] /\ UNCHANGED lineageRows
        /\ \/ stored' = [stored EXCEPT ![r.tab] = {m}] /\ landing' = landing
           \/ stored' = stored /\ landing' \subseteq landing \union {m}
    BY <1>16 DEF StoreReport, StoreFails, Merged
  <2>2. ReportSound(m, lineageRows)
    BY <1>1, <2>1 DEF CallSound
  <2>3. to.pc = "answered" /\ to.report = m
    BY DEF Answered, NoCall
  <2> HIDE DEF m, to
  <2>4. CallSound(to, lineageRows)
    BY <2>2, <2>3 DEF CallSound
  <2>5. \A d \in Callers : call'[d] = IF d = c THEN to ELSE call[d]
    BY <1>1, <2>1
  <2>6. \A d \in Callers : CallSound(call'[d], lineageRows)
    BY <2>4, <2>5 DEF WalksSound
  <2>7. \A b \in Tabs : \A x \in stored'[b] : ReportSound(x, lineageRows)
    <3>1. DOMAIN stored = Tabs
      BY DEF StoredSound
    <3>2. \A b \in Tabs : \A x \in stored'[b] : x \in stored[b] \/ x = m
      BY <2>1, <3>1
    <3> QED BY <2>2, <3>2 DEF WalksSound
  <2>8. \A x \in landing' : ReportSound(x, lineageRows)
    BY <2>1, <2>2 DEF WalksSound
  <2> QED BY <2>1, <2>6, <2>7, <2>8 DEF WalksSound
<1> QED BY <1>4, <1>6, <1>7, <1>8, <1>9, <1>10, <1>13, <1>14, <1>15, <1>16

\* Before any call there is nothing to be wrong.
LEMMA WalksStart == TableReportsInit => WalksSound
BY DEF TableReportsInit, WalksSound, CallSound, NoCall

\* Every step of the module.
LEMMA WalksNext == StoredSound /\ WalksSound /\ [TableReportsNext]_reportVars => WalksSound'
<1> SUFFICES ASSUME StoredSound, WalksSound, [TableReportsNext]_reportVars PROVE WalksSound'
  OBVIOUS
<1>1. ASSUME NEW c \in Callers,
             \/ \E b \in Tabs, h \in HopLimits : Ask(c, b, h) \/ AskAgain(c, b, h)
             \/ ServeStored(c) \/ MissStored(c) \/ WalkLevel(c) \/ LevelFails(c)
             \/ ReportImpact(c) \/ ReportRootCause(c)
             \/ StoreReport(c) \/ StoreFails(c) \/ EndCall(c)
      PROVE  WalksSound'
  BY <1>1, WalkSteps
<1>2. ASSUME NEW m \in landing, StoreLands(m) PROVE WalksSound'
  <2>1. /\ ReportSound(m, lineageRows) /\ landing' \subseteq landing /\ UNCHANGED <<lineageRows, call>>
        /\ stored' = [stored EXCEPT ![m.tab] = {m}]
    BY <1>2 DEF WalksSound, StoreLands, Merged
  <2>2. DOMAIN stored = Tabs
    BY DEF StoredSound
  <2>3. \A b \in Tabs : \A x \in stored'[b] : x \in stored[b] \/ x = m
    BY <2>1, <2>2
  <2> QED BY <2>1, <2>3 DEF WalksSound
<1>3. ASSUME NEW B \in SUBSET Tabs, EvictReports(B) PROVE WalksSound'
  <2>1. /\ UNCHANGED <<lineageRows, call, landing>>
        /\ \A b \in Tabs : stored'[b] \subseteq stored[b]
    BY <1>3 DEF EvictReports
  <2> QED BY <2>1 DEF WalksSound
<1>4. ASSUME NEW x \in MoreRows, RecordRow(x) PROVE WalksSound'
  <2>1. lineageRows \subseteq lineageRows' /\ UNCHANGED <<call, stored, landing>>
    BY <1>4 DEF RecordRow
  <2>2. /\ \A m : ReportSound(m, lineageRows) => ReportSound(m, lineageRows')
        /\ \A r : CallSound(r, lineageRows) => CallSound(r, lineageRows')
    BY <2>1, RowsAdded
  <2> QED BY <2>1, <2>2 DEF WalksSound
<1>5. ASSUME UNCHANGED reportVars PROVE WalksSound'
  BY <1>5 DEF reportVars, WalksSound
<1> QED BY <1>1, <1>2, <1>3, <1>4, <1>5 DEF TableReportsNext

\* _bfs_downstream (routes/impact.py) and _walk_upstream_tables (root_cause.py): whatever
\* the rows are, whatever is recorded meanwhile and whichever queries fail, an answer
\* whose walk was not cut lacks no table within its depth and tells none farther or nearer
\* than it was.
THEOREM ReportsReach == TableReportsSpec => []ReportsReachAll
<1>1. StoredSound /\ WalksSound => ReportsReachAll
  <2> SUFFICES ASSUME WalksSound, NEW c \in Callers, call[c].pc = "answered", NEW t \in ReportTables \ {Focus}
               PROVE  LET m == call[c].report
                      IN  /\ ~m.broken => \A n \in 0..m.hops :
                                Within(m.of, m.tab, t, n) => t \in DOMAIN m.tables /\ m.tables[t] <= n
                          /\ t \in DOMAIN m.tables => Within(lineageRows, m.tab, t, m.tables[t])
    BY DEF ReportsReachAll, ReportAnswers
  <2> DEFINE m == call[c].report
  <2>1. ReportSound(m, lineageRows)
    BY DEF WalksSound, CallSound
  <2> HIDE DEF m
  <2>2. ASSUME ~ m.broken, NEW n \in 0..m.hops, Within(m.of, m.tab, t, n)
        PROVE  t \in DOMAIN m.tables /\ m.tables[t] <= n
    <3>1. n \in Nat
      BY <2>1 DEF ReportSound
    <3>2. t \in Level(m.of, m.tab, n)
      BY <2>2, <3>1, WithinLevel
    <3> QED BY <2>1, <2>2, <3>2 DEF ReportSound, NoneMissing
  <2>3. ASSUME t \in DOMAIN m.tables PROVE Within(lineageRows, m.tab, t, m.tables[t])
    <3>1. m.tables[t] \in Nat /\ t \in Level(lineageRows, m.tab, m.tables[t])
      BY <2>1, <2>3 DEF ReportSound, NoneNearer
    <3> QED BY <3>1, WithinLevel
  <2> QED BY <2>2, <2>3 DEF m
<1> QED BY <1>1, StoredInit, StoredNext, WalksStart, WalksNext, PTL DEF TableReportsSpec

-----------------------------------------------------------------------------
(***************************************************************************)
(* The types of a request: a walk stays within its depth and the tables.   *)
(***************************************************************************)
RowsKnown == \A q \in lineageRows : q.src \in ReportTables /\ q.tgt \in ReportTables
CallTyped(r, n) ==
    /\ r.hops \in Nat /\ r.hop \in 0..r.hops /\ r.began \in 0..n
    /\ DOMAIN r.visited \subseteq ReportTables \ {Focus}

\* The inductive invariant, beside StoredSound.
CallsTyped == RowsKnown /\ \A c \in Callers : CallTyped(call[c], computed)

\* A caller's step to a request that is typed.
LEMMA TypedCallMoves ==
  ASSUME StoredSound, CallsTyped, NEW c \in Callers, NEW r, call' = [call EXCEPT ![c] = r],
         computed' \in Nat, computed <= computed', CallTyped(r, computed'), lineageRows' = lineageRows
  PROVE  CallsTyped'
<1>1. \A d \in Callers : call'[d] = IF d = c THEN r ELSE call[d]
  BY DEF StoredSound
<1>2. ASSUME NEW q, CallTyped(q, computed) PROVE CallTyped(q, computed')
  <2>1. computed \in Nat /\ q.began \in 0..computed'
    BY <1>2 DEF StoredSound, CallTyped
  <2> QED BY <1>2, <2>1 DEF CallTyped
<1>3. \A d \in Callers : CallTyped(call'[d], computed')
  BY <1>1, <1>2 DEF CallsTyped
<1> QED BY <1>3 DEF CallsTyped, RowsKnown

\* Requests that have not walked.
LEMMA FreshCallsTyped ==
  ASSUME StoredSound
  PROVE  /\ CallTyped(NoCall, computed)
         /\ \A b, h : h \in Nat => /\ CallTyped([NoCall EXCEPT !.pc = "look", !.tab = b, !.hops = h], computed)
                                   /\ CallTyped(Begun(b, h), computed + 1)
         /\ \A m : CallTyped(Answered(m), computed)
         /\ \A m : CallTyped([NoCall EXCEPT !.pc = "store", !.tab = m.tab, !.report = m], computed)
<1>1. computed \in Nat /\ computed + 1 \in 0..computed + 1 /\ 0 \in 0..computed
  BY DEF StoredSound
<1>2. ASSUME NEW r, NEW n \in Nat, r.hops \in Nat, r.hop = 0, r.began \in 0..n, r.visited = << >>
      PROVE  CallTyped(r, n)
  <2>1. DOMAIN r.visited = {}
    BY <1>2
  <2>2. r.hop \in 0..r.hops
    BY <1>2
  <2> QED BY <1>2, <2>1, <2>2 DEF CallTyped
<1>3. CallTyped(NoCall, computed)
  <2>1. NoCall.hops = 0 /\ NoCall.hop = 0 /\ NoCall.began = 0 /\ NoCall.visited = << >>
    BY DEF NoCall
  <2> QED BY <1>1, <1>2, <2>1
<1>4. ASSUME NEW b, NEW h \in Nat
      PROVE  /\ CallTyped([NoCall EXCEPT !.pc = "look", !.tab = b, !.hops = h], computed)
             /\ CallTyped(Begun(b, h), computed + 1)
  <2> DEFINE r == [NoCall EXCEPT !.pc = "look", !.tab = b, !.hops = h]
             q == Begun(b, h)
  <2>1. r.hops = h /\ r.hop = 0 /\ r.began = 0 /\ r.visited = << >>
    BY DEF NoCall
  <2>2. q.hops = h /\ q.hop = 0 /\ q.began = computed + 1 /\ q.visited = << >>
    BY DEF Begun, NoCall
  <2> HIDE DEF r, q
  <2>3. CallTyped(r, computed)
    BY <1>1, <1>2, <2>1
  <2>4. CallTyped(q, computed + 1)
    BY <1>1, <1>2, <2>2
  <2> QED BY <2>3, <2>4 DEF r, q
<1>5. ASSUME NEW m PROVE CallTyped(Answered(m), computed)
  <2> DEFINE r == Answered(m)
  <2>1. r.hops = 0 /\ r.hop = 0 /\ r.began = 0 /\ r.visited = << >>
    BY DEF Answered, NoCall
  <2> HIDE DEF r
  <2>2. CallTyped(r, computed)
    BY <1>1, <1>2, <2>1
  <2> QED BY <2>2 DEF r
<1>6. ASSUME NEW m PROVE CallTyped([NoCall EXCEPT !.pc = "store", !.tab = m.tab, !.report = m], computed)
  <2> DEFINE r == [NoCall EXCEPT !.pc = "store", !.tab = m.tab, !.report = m]
  <2>1. r.hops = 0 /\ r.hop = 0 /\ r.began = 0 /\ r.visited = << >>
    BY DEF NoCall
  <2> HIDE DEF r
  <2>2. CallTyped(r, computed)
    BY <1>1, <1>2, <2>1
  <2> QED BY <2>2 DEF r
<1> QED BY <1>3, <1>4, <1>5, <1>6

\* Every step of a caller.
LEMMA TypedCallSteps ==
  ASSUME StoredSound, CallsTyped, NEW c \in Callers
  PROVE  /\ \A b \in Tabs, h \in HopLimits : Ask(c, b, h) \/ AskAgain(c, b, h) => CallsTyped'
         /\ ServeStored(c) \/ MissStored(c) \/ WalkLevel(c) \/ LevelFails(c) => CallsTyped'
         /\ ReportImpact(c) \/ ReportRootCause(c) => CallsTyped'
         /\ StoreReport(c) \/ StoreFails(c) \/ EndCall(c) => CallsTyped'
<1> DEFINE r == call[c]
<1>1. /\ computed \in Nat /\ computed + 1 \in Nat /\ computed <= computed + 1 /\ computed <= computed
      /\ CallTyped(r, computed) /\ HopLimits \subseteq Nat
  BY ReportBounds DEF StoredSound, CallsTyped
<1>2. PICK U : call \in [Callers -> RequestOf(U)]
  BY DEF StoredSound
<1>3. r \in RequestOf(U)
  BY <1>2
<1>4. ASSUME NEW q, call' = [call EXCEPT ![c] = q], CallTyped(q, computed), UNCHANGED <<lineageRows, computed>>
      PROVE  CallsTyped'
  BY <1>1, <1>4, TypedCallMoves
<1>5. ASSUME NEW b, NEW h \in Nat, call' = [call EXCEPT ![c] = Begun(b, h)], computed' = computed + 1,
             lineageRows' = lineageRows
      PROVE  CallsTyped'
  <2>1. CallTyped(Begun(b, h), computed')
    BY <1>5, FreshCallsTyped
  <2> QED BY <1>1, <1>5, <2>1, TypedCallMoves
<1>6. ASSUME NEW m, ToStore(c, m), UNCHANGED <<lineageRows, computed>> PROVE CallsTyped'
  BY <1>4, <1>6, FreshCallsTyped DEF ToStore
<1>7. ASSUME NEW b \in Tabs, NEW h \in HopLimits, Ask(c, b, h) PROVE CallsTyped'
  <2> DEFINE q == [NoCall EXCEPT !.pc = "look", !.tab = b, !.hops = h]
  <2>1. call' = [call EXCEPT ![c] = q] /\ UNCHANGED <<lineageRows, computed>>
    BY <1>7 DEF Ask
  <2>2. CallTyped(q, computed)
    BY <1>1, FreshCallsTyped
  <2> HIDE DEF q
  <2> QED BY <1>4, <2>1, <2>2
<1>8. ASSUME NEW b \in Tabs, NEW h \in HopLimits, AskAgain(c, b, h) PROVE CallsTyped'
  <2>1. call' = [call EXCEPT ![c] = Begun(b, h)] /\ computed' = computed + 1 /\ lineageRows' = lineageRows
    BY <1>8 DEF AskAgain
  <2> QED BY <1>1, <1>5, <2>1
<1>9. ASSUME ServeStored(c) PROVE CallsTyped'
  <2>1. PICK m : call' = [call EXCEPT ![c] = Answered(m)]
    BY <1>9 DEF ServeStored
  <2>2. UNCHANGED <<lineageRows, computed>>
    BY <1>9 DEF ServeStored
  <2>3. CallTyped(Answered(m), computed)
    BY FreshCallsTyped
  <2> QED BY <1>4, <2>1, <2>2, <2>3
<1>10. ASSUME MissStored(c) PROVE CallsTyped'
  <2>1. call' = [call EXCEPT ![c] = Begun(r.tab, r.hops)] /\ computed' = computed + 1 /\ lineageRows' = lineageRows
    BY <1>10 DEF MissStored
  <2>2. r.hops \in Nat
    BY <1>1 DEF CallTyped
  <2> QED BY <1>5, <2>1, <2>2
<1>11. ASSUME WalkLevel(c) PROVE CallsTyped'
  <2> DEFINE level == Further(lineageRows, r.tab, r.frontier)
             v == Visited(r.visited, level, r.hop + 1)
             f == level \ ({Focus} \union DOMAIN r.visited)
             n == r.hop + 1
             q == [r EXCEPT !.hop = n, !.visited = v, !.frontier = f]
  <2>1. /\ call' = [call EXCEPT ![c].hop = n, ![c].visited = v, ![c].frontier = f]
        /\ r.hop < r.hops /\ UNCHANGED <<lineageRows, computed>>
    BY <1>11 DEF WalkLevel, MayWalk
  <2>2. level \subseteq ReportTables
    BY DEF Further, CallsTyped, RowsKnown
  <2>3. DOMAIN v \subseteq ReportTables \ {Focus}
    <3>1. DOMAIN v = DOMAIN r.visited \union (level \ {Focus})
      BY DEF Visited
    <3>2. DOMAIN r.visited \subseteq ReportTables \ {Focus}
      BY <1>1 DEF CallTyped
    <3> QED BY <2>2, <3>1, <3>2
  <2>4. r.hops \in Nat /\ n \in 0..r.hops
    BY <1>1, <2>1 DEF CallTyped
  <2> HIDE DEF v, f, n, level
  <2>5. q.hops = r.hops /\ q.hop = n /\ q.began = r.began /\ q.visited = v
    BY <1>3 DEF RequestOf
  <2>6. call' = [call EXCEPT ![c] = q]
    BY <2>1
  <2> HIDE DEF q
  <2>7. CallTyped(q, computed)
    BY <1>1, <2>3, <2>4, <2>5 DEF CallTyped
  <2> QED BY <1>4, <2>1, <2>6, <2>7
<1>12. ASSUME LevelFails(c) PROVE CallsTyped'
  <2> DEFINE q == [r EXCEPT !.frontier = {}, !.broken = TRUE]
  <2>1. call' = [call EXCEPT ![c].frontier = {}, ![c].broken = TRUE] /\ UNCHANGED <<lineageRows, computed>>
    BY <1>12 DEF LevelFails
  <2>2. q.hops = r.hops /\ q.hop = r.hop /\ q.began = r.began /\ q.visited = r.visited
    BY <1>3 DEF RequestOf
  <2>3. call' = [call EXCEPT ![c] = q]
    BY <2>1
  <2> HIDE DEF q
  <2>4. CallTyped(q, computed)
    BY <1>1, <2>2 DEF CallTyped
  <2> QED BY <1>4, <2>1, <2>3, <2>4
<1>13. ASSUME ReportImpact(c) PROVE CallsTyped'
  <2>1. \E m : ToStore(c, m)
    BY <1>13, Zenon DEF ReportImpact
  <2>2. UNCHANGED <<lineageRows, computed>>
    BY <1>13 DEF ReportImpact
  <2> QED BY <1>6, <2>1, <2>2
<1>14. ASSUME ReportRootCause(c) PROVE CallsTyped'
  <2>1. \E m : ToStore(c, m)
    BY <1>14, Zenon DEF ReportRootCause
  <2>2. UNCHANGED <<lineageRows, computed>>
    BY <1>14 DEF ReportRootCause
  <2> QED BY <1>6, <2>1, <2>2
<1>15. ASSUME StoreReport(c) \/ StoreFails(c) PROVE CallsTyped'
  <2>1. call' = [call EXCEPT ![c] = Answered(r.report)] /\ UNCHANGED <<lineageRows, computed>>
    BY <1>15 DEF StoreReport, StoreFails
  <2>2. CallTyped(Answered(r.report), computed)
    BY FreshCallsTyped
  <2> QED BY <1>4, <2>1, <2>2
<1>16. ASSUME EndCall(c) PROVE CallsTyped'
  <2>1. call' = [call EXCEPT ![c] = NoCall] /\ UNCHANGED <<lineageRows, computed>>
    BY <1>16 DEF EndCall
  <2> QED BY <1>4, <2>1, FreshCallsTyped
<1> QED BY <1>7, <1>8, <1>9, <1>10, <1>11, <1>12, <1>13, <1>14, <1>15, <1>16

LEMMA TypedCallsStart == TableReportsInit => CallsTyped
<1> SUFFICES ASSUME TableReportsInit PROVE CallsTyped
  OBVIOUS
<1>1. RowsKnown
  BY RowsBetweenTables DEF TableReportsInit, RowsKnown
<1>2. \A c \in Callers : CallTyped(call[c], computed)
  <2>1. StoredSound
    BY StoredInit
  <2>2. \A c \in Callers : call[c] = NoCall
    BY DEF TableReportsInit
  <2> QED BY <2>1, <2>2, FreshCallsTyped
<1> QED BY <1>1, <1>2 DEF CallsTyped

LEMMA TypedCallsNext == StoredSound /\ CallsTyped /\ [TableReportsNext]_reportVars => CallsTyped'
<1> SUFFICES ASSUME StoredSound, CallsTyped, [TableReportsNext]_reportVars PROVE CallsTyped'
  OBVIOUS
<1>1. ASSUME NEW c \in Callers,
             \/ \E b \in Tabs, h \in HopLimits : Ask(c, b, h) \/ AskAgain(c, b, h)
             \/ ServeStored(c) \/ MissStored(c) \/ WalkLevel(c) \/ LevelFails(c)
             \/ ReportImpact(c) \/ ReportRootCause(c)
             \/ StoreReport(c) \/ StoreFails(c) \/ EndCall(c)
      PROVE  CallsTyped'
  BY <1>1, TypedCallSteps
<1>2. ASSUME NEW m \in landing, StoreLands(m) PROVE CallsTyped'
  BY <1>2 DEF StoreLands, CallsTyped, RowsKnown
<1>3. ASSUME NEW B \in SUBSET Tabs, EvictReports(B) PROVE CallsTyped'
  BY <1>3 DEF EvictReports, CallsTyped, RowsKnown
<1>4. ASSUME NEW x \in MoreRows, RecordRow(x) PROVE CallsTyped'
  <2>1. lineageRows' = lineageRows \union {x} /\ UNCHANGED <<call, computed>>
    BY <1>4 DEF RecordRow
  <2>2. x.src \in ReportTables /\ x.tgt \in ReportTables
    BY RowsBetweenTables
  <2> QED BY <2>1, <2>2 DEF CallsTyped, RowsKnown
<1>5. ASSUME UNCHANGED reportVars PROVE CallsTyped'
  BY <1>5 DEF reportVars, CallsTyped, RowsKnown
<1> QED BY <1>1, <1>2, <1>3, <1>4, <1>5 DEF TableReportsNext

\* Requests keep their types: a walk takes no more levels than it may and meets tables
\* only, never the one it started from, and no report is from a later computation than the
\* last.
THEOREM ReportTypesCorrect == TableReportsSpec => []TableReportsTypeOK
<1>1. StoredSound /\ CallsTyped => TableReportsTypeOK
  <2> SUFFICES ASSUME StoredSound, CallsTyped PROVE TableReportsTypeOK
    OBVIOUS
  <2>1. \A b \in Tabs : floor[b] \in 0..computed
    BY DEF StoredSound
  <2>2. ASSUME NEW c \in Callers
        PROVE  call[c].pc \in {"idle", "look", "walk", "store", "answered"}
    <3>1. PICK V : call \in [Callers -> RequestOf(V)]
      BY DEF StoredSound
    <3>2. call[c] \in RequestOf(V)
      BY <3>1
    <3> QED BY <3>2 DEF RequestOf
  <2>3. \A c \in Callers : CallTyped(call[c], computed)
    BY DEF CallsTyped
  <2> QED BY <2>1, <2>2, <2>3 DEF TableReportsTypeOK, CallTyped
<1> QED BY <1>1, StoredInit, StoredNext, TypedCallsStart, TypedCallsNext, PTL DEF TableReportsSpec

-----------------------------------------------------------------------------
(***************************************************************************)
(* Alerts: one live row per trouble, and a prune that keeps the newest.    *)
(***************************************************************************)
AlertKeys == {KeyOf[t] : t \in Troubles}
AlertRecord == [id : Nat, key : AlertKeys, at : Nat]
ScanPlaces == {"off", "detect", "insert", "prune", "ok"}
ScanRecord == [at : ScanPlaces, known : SUBSET AlertKeys, bucket : Nat, found : SUBSET Troubles,
               all : SUBSET Troubles, inserted : BOOLEAN]

\* The rows, those about to land and the scans; a scan has seen what it has to insert.
AlertsTyped ==
    /\ alerts \subseteq AlertRecord /\ arriving \subseteq AlertRecord /\ IsFiniteSet(alerts)
    /\ made \in 0..MaxAlerts /\ clock \in 0..made
    /\ scan \in [Scanners -> ScanRecord]
    /\ \A a \in alerts \union arriving : a.id \in 1..made
    /\ \A s \in Scanners : scan[s].found \subseteq scan[s].all

\* Of two alerts with one key, stored or on their way, some scan did not know the first.
OneAlert == \A a, b \in alerts \union arriving : a.key = b.key => a = b \/ a.key \in unseen

\* A scan with the record r: the keys it does not know are noted, those it knows were
\* stored, and so were those of what it is done with.
ScanSound(r) ==
    /\ r.at # "off" => KeysOf(alerts \union arriving) \ r.known \subseteq unseen
    /\ r.known \subseteq KeysOf(alerts) \union pruned
    /\ r.at # "insert" => r.found = {}
    /\ \A t \in r.all \ r.found : KeyOf[t] \in KeysOf(alerts) \union pruned

\* The inductive invariant.
AlertsSound == AlertsTyped /\ OneAlert /\ \A s \in Scanners : ScanSound(scan[s])

-----------------------------------------------------------------------------
LEMMA SlicesInside ==
  ASSUME NEW K, NEW n PROVE Slices(K, n) \subseteq SUBSET K
BY DEF Slices

\* A scan moves on, the table stays.
LEMMA ScanMoves ==
  ASSUME AlertsSound, NEW s \in Scanners, NEW r \in ScanRecord, r.found \subseteq r.all,
         scan' = [scan EXCEPT ![s] = r], UNCHANGED <<alerts, made, clock, arriving, pruned>>,
         unseen \subseteq unseen',
         r.at # "off" => KeysOf(alerts \union arriving) \ r.known \subseteq unseen',
         r.known \subseteq KeysOf(alerts) \union pruned,
         r.at # "insert" => r.found = {},
         \A t \in r.all \ r.found : KeyOf[t] \in KeysOf(alerts) \union pruned
  PROVE  AlertsSound'
<1>1. \A u \in Scanners : scan'[u] = IF u = s THEN r ELSE scan[u]
  BY DEF AlertsSound, AlertsTyped
<1>2. AlertsTyped'
  <2>1. scan' \in [Scanners -> ScanRecord]
    BY DEF AlertsSound, AlertsTyped
  <2>2. \A u \in Scanners : scan'[u].found \subseteq scan'[u].all
    BY <1>1 DEF AlertsSound, AlertsTyped
  <2> QED BY <2>1, <2>2 DEF AlertsSound, AlertsTyped
<1>3. OneAlert'
  BY DEF AlertsSound, OneAlert
<1>4. \A u \in Scanners : ScanSound(scan[u])'
  <2> SUFFICES ASSUME NEW u \in Scanners PROVE ScanSound(scan[u])'
    OBVIOUS
  <2>1. CASE u = s
    <3>1. scan'[u] = r
      BY <1>1, <2>1
    <3> QED BY <3>1 DEF ScanSound, KeysOf
  <2>2. CASE u # s
    <3>1. scan'[u] = scan[u] /\ ScanSound(scan[u])
      BY <1>1, <2>2 DEF AlertsSound
    <3> QED BY <3>1 DEF ScanSound, KeysOf
  <2> QED BY <2>1, <2>2
<1> QED BY <1>2, <1>3, <1>4 DEF AlertsSound

LEMMA FreshScan ==
  /\ NoScan \in ScanRecord /\ NoScan.at = "off" /\ NoScan.known = {} /\ NoScan.found = {}
  /\ NoScan.all = {}
<1>1. "off" \in ScanPlaces
  BY DEF ScanPlaces
<1> QED BY <1>1 DEF NoScan, ScanRecord

LEMMA KeysRead ==
  ASSUME AlertsSound, NEW s \in Scanners, ReadKeys(s)
  PROVE  AlertsSound'
<1>1. PICK known \in {KeysOf(A) : A \in Newest(KeyPage)} \union {{}} :
         /\ scan' = [scan EXCEPT ![s] = [NoScan EXCEPT !.at = "detect", !.known = known]]
         /\ unseen' = unseen \union (KeysOf(alerts \union arriving) \ known)
  BY DEF ReadKeys
<1>2. known \subseteq KeysOf(alerts)
  <2>1. \A A \in Newest(KeyPage) : A \subseteq alerts
    BY DEF Newest, Slices
  <2>2. \A A : A \subseteq alerts => KeysOf(A) \subseteq KeysOf(alerts)
    BY DEF KeysOf
  <2> QED BY <1>1, <2>1, <2>2
<1>3. KeysOf(alerts) \subseteq AlertKeys
  BY DEF AlertsSound, AlertsTyped, AlertRecord, KeysOf
<1> DEFINE r == [NoScan EXCEPT !.at = "detect", !.known = known]
<1>4. /\ r \in ScanRecord /\ r.at = "detect" /\ r.known = known /\ r.found = {} /\ r.all = {}
  <2>1. "detect" \in ScanPlaces /\ known \in SUBSET AlertKeys
    BY <1>2, <1>3 DEF ScanPlaces
  <2> QED BY <2>1, FreshScan DEF ScanRecord
<1>5. scan' = [scan EXCEPT ![s] = r]
  BY <1>1
<1>6. UNCHANGED <<alerts, made, clock, arriving, pruned>>
  BY DEF ReadKeys
<1> HIDE DEF r
<1>7. /\ unseen \subseteq unseen' /\ KeysOf(alerts \union arriving) \ r.known \subseteq unseen'
      /\ r.known \subseteq KeysOf(alerts) \union pruned
  BY <1>1, <1>2, <1>4
<1> QED BY <1>4, <1>5, <1>6, <1>7, ScanMoves

LEMMA ScanDetects ==
  ASSUME AlertsSound, NEW s \in Scanners, Detect(s)
  PROVE  AlertsSound'
<1>1. PICK news \in Findings(Buckets[scan[s].bucket]) :
         scan' = [scan EXCEPT ![s].at = "insert", ![s].found = news, ![s].all = @ \union news]
  BY DEF Detect
<1>2. news \subseteq Troubles
  BY DEF Findings, Slices
<1> DEFINE q == scan[s]
           r == [q EXCEPT !.at = "insert", !.found = news, !.all = q.all \union news]
<1>3. q \in ScanRecord /\ q.at = "detect" /\ ScanSound(q)
  BY DEF AlertsSound, AlertsTyped, Detect
<1>4. /\ r \in ScanRecord /\ r.at = "insert" /\ r.known = q.known /\ r.found = news
      /\ r.all = q.all \union news
  <2>1. "insert" \in ScanPlaces
    BY DEF ScanPlaces
  <2> QED BY <1>2, <1>3, <2>1 DEF ScanRecord
<1>5. scan' = [scan EXCEPT ![s] = r]
  BY <1>1
<1>6. UNCHANGED <<alerts, made, clock, arriving, pruned, unseen>>
  BY DEF Detect
<1>7. q.found = {}
  BY <1>3 DEF ScanSound
<1> HIDE DEF r, q
<1>8. /\ KeysOf(alerts \union arriving) \ r.known \subseteq unseen
      /\ r.known \subseteq KeysOf(alerts) \union pruned
      /\ r.found \subseteq r.all
      /\ \A t \in r.all \ r.found : KeyOf[t] \in KeysOf(alerts) \union pruned
  BY <1>3, <1>4, <1>7 DEF ScanSound
<1> QED BY <1>4, <1>5, <1>6, <1>8, ScanMoves

LEMMA KnownSkipped ==
  ASSUME AlertsSound, NEW s \in Scanners, NEW t \in scan[s].found, SkipKnown(s, t)
  PROVE  AlertsSound'
<1> DEFINE q == scan[s]
           r == [q EXCEPT !.found = q.found \ {t}]
<1>1. q \in ScanRecord /\ q.at = "insert" /\ ScanSound(q) /\ KeyOf[t] \in q.known /\ q.found \subseteq q.all
  BY DEF AlertsSound, AlertsTyped, SkipKnown
<1>2. /\ r \in ScanRecord /\ r.at = "insert" /\ r.known = q.known /\ r.found = q.found \ {t}
      /\ r.all = q.all
  BY <1>1 DEF ScanRecord
<1>3. scan' = [scan EXCEPT ![s] = r] /\ UNCHANGED <<alerts, made, clock, arriving, pruned, unseen>>
  BY DEF SkipKnown
<1> HIDE DEF r, q
<1>4. /\ KeysOf(alerts \union arriving) \ r.known \subseteq unseen
      /\ r.known \subseteq KeysOf(alerts) \union pruned
      /\ r.found \subseteq r.all
      /\ \A x \in r.all \ r.found : KeyOf[x] \in KeysOf(alerts) \union pruned
  BY <1>1, <1>2 DEF ScanSound
<1> QED BY <1>2, <1>3, <1>4, ScanMoves

LEMMA BucketEnds ==
  ASSUME AlertsSound, NEW s \in Scanners, BucketDone(s)
  PROVE  AlertsSound'
<1> DEFINE q == scan[s]
<1>1. q \in ScanRecord /\ q.at = "insert" /\ ScanSound(q) /\ q.found = {} /\ q.found \subseteq q.all
  BY DEF AlertsSound, AlertsTyped, BucketDone
<1>2. \E r : /\ scan' = [scan EXCEPT ![s] = r] /\ r \in ScanRecord /\ r.known = q.known
             /\ r.found = {} /\ r.all = q.all /\ r.at # "insert"
  <2> DEFINE n == q.bucket + 1
             r1 == [q EXCEPT !.bucket = n, !.at = "detect"]
             p == IF q.inserted THEN "prune" ELSE "ok"
             r2 == [q EXCEPT !.at = p]
  <2>1. scan' = [scan EXCEPT ![s] = r1] \/ scan' = [scan EXCEPT ![s] = r2]
    BY DEF BucketDone
  <2>2. p \in ScanPlaces /\ p # "insert" /\ "detect" \in ScanPlaces
    BY DEF ScanPlaces
  <2>0. n \in Nat
    BY <1>1 DEF ScanRecord
  <2> HIDE DEF p, n
  <2>3. r1 \in ScanRecord /\ r1.known = q.known /\ r1.found = {} /\ r1.all = q.all /\ r1.at # "insert"
    BY <1>1, <2>0, <2>2 DEF ScanRecord
  <2>4. r2 \in ScanRecord /\ r2.known = q.known /\ r2.found = {} /\ r2.all = q.all /\ r2.at # "insert"
    BY <1>1, <2>2 DEF ScanRecord
  <2> HIDE DEF r1, r2, q
  <2> QED BY <2>1, <2>3, <2>4, Zenon
<1>3. PICK r : /\ scan' = [scan EXCEPT ![s] = r] /\ r \in ScanRecord /\ r.known = q.known
               /\ r.found = {} /\ r.all = q.all /\ r.at # "insert"
  BY <1>2
<1>4. UNCHANGED <<alerts, made, clock, arriving, pruned, unseen>>
  BY DEF BucketDone
<1> HIDE DEF q
<1>5. /\ KeysOf(alerts \union arriving) \ r.known \subseteq unseen
      /\ r.known \subseteq KeysOf(alerts) \union pruned
      /\ r.found \subseteq r.all
      /\ \A x \in r.all \ r.found : KeyOf[x] \in KeysOf(alerts) \union pruned
  BY <1>1, <1>3 DEF ScanSound
<1> QED BY <1>3, <1>4, <1>5, ScanMoves

LEMMA ScanRests ==
  ASSUME AlertsSound, NEW s \in Scanners, ScanOver(s)
  PROVE  AlertsSound'
<1>1. scan' = [scan EXCEPT ![s] = NoScan] /\ UNCHANGED <<alerts, made, clock, arriving, pruned, unseen>>
  BY DEF ScanOver
<1> QED BY <1>1, FreshScan, ScanMoves
-----------------------------------------------------------------------------
\* An alert more, stored or on its way: every other scan that is at work has its key
\* noted, the scan s that made it knows it, or is over.
LEMMA AlertAdded ==
  ASSUME AlertsSound, NEW s \in Scanners, NEW t \in scan[s].found, MayInsert(s, t),
         NEW now \in {clock, clock + 1}, NEW r \in ScanRecord, r.found \subseteq r.all,
         clock' = now, made' = made + 1, pruned' = pruned,
         scan' = [scan EXCEPT ![s] = r],
         unseen' = IF OtherScans(s) THEN unseen \union {KeyOf[t]} ELSE unseen,
         \/ alerts' = alerts \union {NewAlert(t, now)} /\ arriving' = arriving
         \/ alerts' = alerts /\ arriving' = arriving \union {NewAlert(t, now)},
         r.at # "off" => scan[s].known \union {KeyOf[t]} \subseteq r.known,
         r.known \subseteq KeysOf(alerts') \union pruned,
         r.at # "insert" => r.found = {},
         \A x \in r.all \ r.found : KeyOf[x] \in KeysOf(alerts') \union pruned
  PROVE  AlertsSound'
<1> DEFINE a == NewAlert(t, now)
           k == KeyOf[t]
<1>1. /\ t \in Troubles /\ k \in AlertKeys /\ scan[s].at = "insert" /\ k \notin scan[s].known
      /\ made < MaxAlerts /\ made \in Nat /\ clock \in 0..made /\ MaxAlerts \in Nat
  BY AlertBounds DEF AlertsSound, AlertsTyped, ScanRecord, MayInsert, AlertKeys
<1>2. a \in AlertRecord /\ a.key = k /\ a.id = made + 1
  BY <1>1 DEF NewAlert, AlertRecord
<1>3. alerts' \union arriving' = alerts \union arriving \union {a}
  OBVIOUS
<1> HIDE DEF a
<1>4. \A u \in Scanners : scan'[u] = IF u = s THEN r ELSE scan[u]
  BY DEF AlertsSound, AlertsTyped
<1>5. AlertsTyped'
  <2>1. alerts' \subseteq AlertRecord /\ arriving' \subseteq AlertRecord
    BY <1>2 DEF a, AlertsSound, AlertsTyped
  <2>2. IsFiniteSet(alerts')
    <3>1. IsFiniteSet(alerts)
      BY DEF AlertsSound, AlertsTyped
    <3>2. IsFiniteSet(alerts \union {a})
      BY <3>1, FS_AddElement
    <3> QED BY <3>1, <3>2 DEF a
  <2>3. made' \in 0..MaxAlerts /\ clock' \in 0..made'
    BY <1>1
  <2>4. scan' \in [Scanners -> ScanRecord]
    BY DEF AlertsSound, AlertsTyped
  <2>5. \A b \in alerts' \union arriving' : b.id \in 1..made'
    <3>1. \A b \in alerts \union arriving : b.id \in 1..made
      BY DEF AlertsSound, AlertsTyped
    <3> QED BY <1>1, <1>2, <1>3, <3>1
  <2>6. \A u \in Scanners : scan'[u].found \subseteq scan'[u].all
    BY <1>4 DEF AlertsSound, AlertsTyped
  <2> QED BY <2>1, <2>2, <2>3, <2>4, <2>5, <2>6 DEF AlertsTyped
<1>6. k \in KeysOf(alerts \union arriving) => k \in unseen
  BY <1>1 DEF AlertsSound, ScanSound
<1>7. unseen \subseteq unseen'
  OBVIOUS
<1>8. OneAlert'
  <2> SUFFICES ASSUME NEW b \in alerts \union arriving \union {a}, NEW c \in alerts \union arriving \union {a},
                      b.key = c.key, b # c
               PROVE  b.key \in unseen'
    BY <1>3 DEF OneAlert
  <2>1. CASE b # a /\ c # a
    BY <1>7, <2>1 DEF AlertsSound, OneAlert
  <2>2. CASE b = a \/ c = a
    <3>1. b.key = k /\ k \in KeysOf(alerts \union arriving)
      BY <1>2, <2>2 DEF KeysOf
    <3> QED BY <1>6, <1>7, <3>1
  <2> QED BY <2>1, <2>2
<1>9. KeysOf(alerts' \union arriving') \subseteq KeysOf(alerts \union arriving) \union {k}
  BY <1>2, <1>3 DEF KeysOf
<1>10. KeysOf(alerts) \subseteq KeysOf(alerts')
  BY DEF KeysOf
<1>11. \A u \in Scanners : ScanSound(scan[u])'
  <2> SUFFICES ASSUME NEW u \in Scanners PROVE ScanSound(scan[u])'
    OBVIOUS
  <2>1. CASE u = s
    <3>1. scan'[u] = r
      BY <1>4, <2>1
    <3>2. scan[s].at # "off" => KeysOf(alerts \union arriving) \ scan[s].known \subseteq unseen
      BY DEF AlertsSound, ScanSound
    <3>3. r.at # "off" => KeysOf(alerts' \union arriving') \ r.known \subseteq unseen'
      BY <1>1, <1>7, <1>9, <3>2
    <3> QED BY <3>1, <3>3 DEF ScanSound
  <2>2. CASE u # s
    <3>1. scan'[u] = scan[u] /\ ScanSound(scan[u])
      BY <1>4, <2>2 DEF AlertsSound
    <3>2. scan[u].at # "off" => k \in unseen'
      BY <2>2 DEF OtherScans
    <3>3. scan[u].at # "off" => KeysOf(alerts' \union arriving') \ scan[u].known \subseteq unseen'
      BY <1>7, <1>9, <3>1, <3>2 DEF ScanSound
    <3> QED BY <1>10, <3>1, <3>3 DEF ScanSound
  <2> QED BY <2>1, <2>2
<1> QED BY <1>5, <1>8, <1>11 DEF AlertsSound

LEMMA AlertInserted ==
  ASSUME AlertsSound, NEW s \in Scanners, NEW t \in scan[s].found, Insert(s, t)
  PROVE  AlertsSound'
<1> DEFINE q == scan[s]
           r == [q EXCEPT !.found = q.found \ {t}, !.known = q.known \union {KeyOf[t]}, !.inserted = TRUE]
<1>1. PICK now \in {clock, clock + 1} : clock' = now /\ alerts' = alerts \union {NewAlert(t, now)}
  BY DEF Insert
<1>2. /\ MayInsert(s, t) /\ made' = made + 1 /\ scan' = [scan EXCEPT ![s] = r]
      /\ unseen' = IF OtherScans(s) THEN unseen \union {KeyOf[t]} ELSE unseen
      /\ arriving' = arriving /\ pruned' = pruned
  BY DEF Insert
<1>3. q \in ScanRecord /\ ScanSound(q) /\ q.found \subseteq q.all /\ t \in Troubles /\ q.at = "insert"
  BY DEF AlertsSound, AlertsTyped, ScanRecord, Insert, MayInsert
<1>4. KeyOf[t] \in AlertKeys
  BY <1>3 DEF AlertKeys
<1>5. /\ r \in ScanRecord /\ r.at = "insert" /\ r.found = q.found \ {t} /\ r.all = q.all
      /\ r.known = q.known \union {KeyOf[t]}
  BY <1>3, <1>4 DEF ScanRecord
<1>6. KeyOf[t] \in KeysOf(alerts') /\ KeysOf(alerts) \subseteq KeysOf(alerts')
  <2>1. NewAlert(t, now).key = KeyOf[t]
    BY DEF NewAlert
  <2> QED BY <1>1, <2>1 DEF KeysOf
<1> HIDE DEF r
<1>7. /\ r.found \subseteq r.all /\ r.known \subseteq KeysOf(alerts') \union pruned
      /\ \A x \in r.all \ r.found : KeyOf[x] \in KeysOf(alerts') \union pruned
      /\ q.known \union {KeyOf[t]} \subseteq r.known
  BY <1>3, <1>5, <1>6 DEF ScanSound
<1> QED BY <1>1, <1>2, <1>5, <1>7, AlertAdded

LEMMA InsertFailed ==
  ASSUME AlertsSound, NEW s \in Scanners, NEW t \in scan[s].found, InsertFails(s, t)
  PROVE  AlertsSound'
<1>1. MayInsert(s, t) /\ scan' = [scan EXCEPT ![s] = NoScan] /\ alerts' = alerts /\ pruned' = pruned
  BY DEF InsertFails
<1>2. CASE UNCHANGED <<made, clock, arriving, unseen>>
  BY <1>1, <1>2, FreshScan, ScanMoves
<1>3. CASE \E now \in {clock, clock + 1} :
            /\ clock' = now /\ made' = made + 1
            /\ arriving' = arriving \union {NewAlert(t, now)}
            /\ unseen' = IF OtherScans(s) THEN unseen \union {KeyOf[t]} ELSE unseen
  <2>1. PICK now \in {clock, clock + 1} :
            /\ clock' = now /\ made' = made + 1
            /\ arriving' = arriving \union {NewAlert(t, now)}
            /\ unseen' = IF OtherScans(s) THEN unseen \union {KeyOf[t]} ELSE unseen
    BY <1>3
  <2> QED BY <1>1, <2>1, FreshScan, AlertAdded
<1> QED BY <1>2, <1>3 DEF InsertFails

LEMMA AlertLands ==
  ASSUME AlertsSound, NEW a \in arriving, InsertLands(a)
  PROVE  AlertsSound'
<1>1. /\ alerts' = alerts \union {a} /\ arriving' = arriving \ {a}
      /\ unseen \subseteq unseen' /\ UNCHANGED <<made, clock, scan, pruned>>
  BY DEF InsertLands
<1>2. alerts' \union arriving' = alerts \union arriving
  BY <1>1
<1>3. IsFiniteSet(alerts')
  <2>1. IsFiniteSet(alerts)
    BY DEF AlertsSound, AlertsTyped
  <2> QED BY <1>1, <2>1, FS_AddElement
<1>4. AlertsTyped'
  BY <1>1, <1>2, <1>3 DEF AlertsSound, AlertsTyped
<1>5. OneAlert'
  BY <1>1, <1>2 DEF AlertsSound, OneAlert
<1>6. KeysOf(alerts) \subseteq KeysOf(alerts')
  BY <1>1 DEF KeysOf
<1>7. \A u \in Scanners : ScanSound(scan[u])'
  <2> SUFFICES ASSUME NEW u \in Scanners PROVE ScanSound(scan[u])'
    OBVIOUS
  <2>1. ScanSound(scan[u]) /\ scan'[u] = scan[u]
    BY <1>1 DEF AlertsSound
  <2> QED BY <1>1, <1>2, <1>6, <2>1 DEF ScanSound
<1> QED BY <1>4, <1>5, <1>7 DEF AlertsSound

-----------------------------------------------------------------------------
\* What a prune takes has Keep alerts of a later time, and they stay.
LEMMA PruneCounts ==
  ASSUME IsFiniteSet(alerts), \A a \in alerts : a.at \in Nat, PruneBelow # {}
  PROVE  /\ IsFiniteSet(alerts \ PruneBelow) /\ Cardinality(alerts \ PruneBelow) >= Keep
         /\ \A a \in PruneBelow, b \in alerts \ PruneBelow : a.at < b.at
<1>1. Keep \in Nat /\ Keep # 0
      /\ PruneBelow = {a \in alerts : \E A \in Newest(Keep) : \A b \in A : a.at < b.at}
  BY AlertBounds DEF PruneBelow
<1>2. \A A \in Newest(Keep) : /\ A \in SUBSET alerts /\ IsFiniteSet(A)
                              /\ Cardinality(A) = Least(Cardinality(alerts), Keep)
                              /\ \A a \in A, b \in alerts \ A : a.at >= b.at
  <2> SUFFICES ASSUME NEW A \in Newest(Keep)
               PROVE  /\ A \in SUBSET alerts /\ IsFiniteSet(A)
                      /\ Cardinality(A) = Least(Cardinality(alerts), Keep)
                      /\ \A a \in A, b \in alerts \ A : a.at >= b.at
    OBVIOUS
  <2>1. A \in SUBSET alerts /\ Cardinality(A) = Least(Cardinality(alerts), Keep)
        /\ \A a \in A, b \in alerts \ A : a.at >= b.at
    BY DEF Newest, Slices
  <2> QED BY <2>1, FS_Subset
<1>3. Cardinality(alerts) \in Nat
  BY FS_CardinalityType
<1>4. \A A \in Newest(Keep) : (\E a \in alerts : \A b \in A : a.at < b.at) => Cardinality(A) = Keep
  <2> SUFFICES ASSUME NEW A \in Newest(Keep), NEW a \in alerts, \A b \in A : a.at < b.at
               PROVE  Cardinality(A) = Keep
    OBVIOUS
  <2>1. A # alerts
    <3>1. a.at \in Nat
      OBVIOUS
    <3> QED BY <3>1
  <2>2. Cardinality(alerts) # Cardinality(A)
    BY <1>2, <2>1, FS_Subset
  <2> QED BY <1>1, <1>2, <1>3, <2>2 DEF Least
\* No alert of such a set is taken: the set that shows it would be the same one.
<1>5. ASSUME NEW A \in Newest(Keep), Cardinality(A) = Keep, NEW b \in A, b \in PruneBelow PROVE FALSE
  <2>1. PICK B \in Newest(Keep) : \A c \in B : b.at < c.at
    BY <1>1, <1>5
  <2>2. b \in alerts /\ A \subseteq alerts /\ B \subseteq alerts /\ IsFiniteSet(A)
    BY <1>2
  <2>3. Cardinality(B) = Keep
    BY <1>4, <2>1, <2>2
  <2>4. B \subseteq A
    <3> SUFFICES ASSUME NEW c \in B, c \notin A PROVE FALSE
      OBVIOUS
    <3>1. b.at >= c.at /\ b.at < c.at /\ b.at \in Nat /\ c.at \in Nat
      BY <1>2, <2>1, <2>2
    <3> QED BY <3>1
  <2>5. A = B
    BY <1>5, <2>2, <2>3, <2>4, FS_Subset
  <2>6. b.at < b.at /\ b.at \in Nat
    BY <2>1, <2>2, <2>5
  <2> QED BY <2>6
<1>6. PICK x \in alerts : \E A \in Newest(Keep) : \A b \in A : x.at < b.at
  BY <1>1
<1>7. PICK A \in Newest(Keep) : \A b \in A : x.at < b.at
  BY <1>6
<1>8. Cardinality(A) = Keep /\ A \subseteq alerts \ PruneBelow
  BY <1>2, <1>4, <1>5, <1>7
<1>9. IsFiniteSet(alerts \ PruneBelow)
  BY FS_Subset
<1>10. Cardinality(alerts \ PruneBelow) >= Keep
  <2>1. Cardinality(A) <= Cardinality(alerts \ PruneBelow)
    BY <1>8, <1>9, FS_Subset
  <2>2. Cardinality(alerts \ PruneBelow) \in Nat
    BY <1>9, FS_CardinalityType
  <2> QED BY <1>1, <1>8, <2>1, <2>2
<1>11. ASSUME NEW a \in PruneBelow, NEW b \in alerts \ PruneBelow PROVE a.at < b.at
  <2>1. PICK B \in Newest(Keep) : \A c \in B : a.at < c.at
    BY <1>1
  <2>2. a \in alerts /\ a.at \in Nat /\ b.at \in Nat
    BY <1>1
  <2>3. SUFFICES ASSUME b.at <= a.at PROVE FALSE
    BY <2>2
  <2>4. \A c \in B : b.at < c.at
    BY <1>2, <2>1, <2>2, <2>3
  <2> QED BY <1>1, <2>4
<1> QED BY <1>9, <1>10, <1>11

LEMMA TablePruned ==
  ASSUME AlertsSound, NEW s \in Scanners, Prune(s)
  PROVE  AlertsSound'
<1>1. PICK gone \in {PruneBelow, {}} : alerts' = alerts \ gone /\ pruned' = pruned \union KeysOf(gone)
  BY DEF Prune
<1> DEFINE q == scan[s]
           r == [q EXCEPT !.at = "ok"]
<1>2. scan' = [scan EXCEPT ![s] = r] /\ UNCHANGED <<made, clock, arriving, unseen>> /\ q.at = "prune"
  BY DEF Prune
<1>3. q \in ScanRecord /\ ScanSound(q) /\ q.found \subseteq q.all
  BY DEF AlertsSound, AlertsTyped
<1>4. r \in ScanRecord /\ r.at = "ok" /\ r.known = q.known /\ r.found = q.found /\ r.all = q.all
  <2>1. "ok" \in ScanPlaces
    BY DEF ScanPlaces
  <2> QED BY <1>3, <2>1 DEF ScanRecord
<1> HIDE DEF r
<1>5. \A u \in Scanners : scan'[u] = IF u = s THEN r ELSE scan[u]
  BY <1>2 DEF AlertsSound, AlertsTyped
<1>6. alerts' \subseteq alerts
  BY <1>1
<1>7. AlertsTyped'
  <2>1. IsFiniteSet(alerts')
    BY <1>6, FS_Subset DEF AlertsSound, AlertsTyped
  <2>2. scan' \in [Scanners -> ScanRecord]
    BY <1>2, <1>4 DEF AlertsSound, AlertsTyped
  <2>3. \A u \in Scanners : scan'[u].found \subseteq scan'[u].all
    BY <1>3, <1>4, <1>5 DEF AlertsSound, AlertsTyped
  <2> QED BY <1>2, <1>6, <2>1, <2>2, <2>3 DEF AlertsSound, AlertsTyped
<1>8. OneAlert'
  BY <1>2, <1>6 DEF AlertsSound, OneAlert
<1>9. KeysOf(alerts) \union pruned \subseteq KeysOf(alerts') \union pruned'
  BY <1>1 DEF KeysOf
<1>10. KeysOf(alerts' \union arriving') \subseteq KeysOf(alerts \union arriving)
  BY <1>2, <1>6 DEF KeysOf
<1>11. \A u \in Scanners : ScanSound(scan[u])'
  <2> SUFFICES ASSUME NEW u \in Scanners PROVE ScanSound(scan[u])'
    OBVIOUS
  <2>1. ScanSound(scan[u])
    BY DEF AlertsSound
  <2>2. /\ scan'[u].known = scan[u].known /\ scan'[u].found = scan[u].found /\ scan'[u].all = scan[u].all
        /\ scan'[u].at # "off" => scan[u].at # "off"
        /\ scan'[u].at # "insert" => scan[u].at # "insert"
    BY <1>2, <1>4, <1>5
  <2> QED BY <1>2, <1>9, <1>10, <2>1, <2>2 DEF ScanSound
<1> QED BY <1>7, <1>8, <1>11 DEF AlertsSound

-----------------------------------------------------------------------------
LEMMA AlertsInit == NotificationsInit => AlertsSound
<1> SUFFICES ASSUME NotificationsInit PROVE AlertsSound
  OBVIOUS
<1>1. /\ alerts = {} /\ made = 0 /\ clock = 0 /\ arriving = {} /\ unseen = {} /\ pruned = {}
      /\ scan = [s \in Scanners |-> NoScan]
  BY DEF NotificationsInit
<1>2. AlertsTyped
  BY <1>1, FreshScan, FS_EmptySet, AlertBounds DEF AlertsTyped
<1>3. \A s \in Scanners : ScanSound(scan[s])
  BY <1>1, FreshScan DEF ScanSound
<1> QED BY <1>1, <1>2, <1>3 DEF AlertsSound, OneAlert

LEMMA AlertsNext == AlertsSound /\ [NotificationsNext]_alertVars => AlertsSound'
<1> SUFFICES ASSUME AlertsSound, [NotificationsNext]_alertVars PROVE AlertsSound'
  OBVIOUS
<1>1. ASSUME NEW s \in Scanners,
             ReadKeys(s) \/ Detect(s) \/ BucketDone(s) \/ Prune(s) \/ ScanOver(s)
      PROVE  AlertsSound'
  BY <1>1, KeysRead, ScanDetects, BucketEnds, TablePruned, ScanRests
<1>2. ASSUME NEW s \in Scanners, NEW t \in scan[s].found,
             SkipKnown(s, t) \/ Insert(s, t) \/ InsertFails(s, t)
      PROVE  AlertsSound'
  BY <1>2, KnownSkipped, AlertInserted, InsertFailed
<1>3. ASSUME NEW a \in arriving, InsertLands(a) PROVE AlertsSound'
  BY <1>3, AlertLands
<1>4. CASE UNCHANGED alertVars
  BY <1>4 DEF alertVars, AlertsSound, AlertsTyped, OneAlert, ScanSound, KeysOf
<1> QED BY <1>1, <1>2, <1>3, <1>4 DEF NotificationsNext

LEMMA AlertsStaySound == NotificationsSpec => []AlertsSound
<1> QED BY AlertsInit, AlertsNext, PTL DEF NotificationsSpec

\* The types of Notifications hold, for any number of scanners, troubles and alerts.
THEOREM AlertsTypeCorrect == NotificationsSpec => []NotificationsTypeOK
<1>1. AlertsSound => NotificationsTypeOK
  BY DEF AlertsSound, AlertsTyped, ScanRecord, ScanPlaces, NotificationsTypeOK
<1> QED BY <1>1, AlertsStaySound, PTL

\* A step takes alerts out of the table only by a prune.
LEMMA StepPrunesRight ==
  ASSUME AlertsSound, [NotificationsNext]_alertVars,
         NEW gone \in {{a \in alerts : a.id \notin {b.id : b \in alerts'}}}, gone # {}
  PROVE  Cardinality(alerts') >= Keep /\ \A a \in gone, b \in alerts' : a.at < b.at
<1>1. gone \subseteq alerts \ alerts'
  OBVIOUS
<1>2. ~(alerts \subseteq alerts')
  BY <1>1
<1>3. ASSUME NEW s \in Scanners, NEW t \in scan[s].found,
             SkipKnown(s, t) \/ Insert(s, t) \/ InsertFails(s, t)
      PROVE  alerts \subseteq alerts'
  BY <1>3 DEF SkipKnown, Insert, InsertFails
<1>4. ASSUME NEW s \in Scanners, ReadKeys(s) \/ Detect(s) \/ BucketDone(s) \/ ScanOver(s)
      PROVE  alerts \subseteq alerts'
  BY <1>4 DEF ReadKeys, Detect, BucketDone, ScanOver
<1>5. \A a \in arriving : InsertLands(a) => alerts \subseteq alerts'
  BY DEF InsertLands
<1>6. PICK s \in Scanners : Prune(s)
  BY <1>2, <1>3, <1>4, <1>5 DEF NotificationsNext, alertVars
<1>7. alerts' = alerts \ PruneBelow
  BY <1>2, <1>6 DEF Prune
<1>8. IsFiniteSet(alerts) /\ \A a \in alerts : a.at \in Nat
  BY DEF AlertsSound, AlertsTyped, AlertRecord
<1>9. PruneBelow # {} /\ gone \subseteq PruneBelow
  BY <1>1, <1>2, <1>7
<1> QED BY <1>7, <1>8, <1>9, PruneCounts

\* run_scan and _prune_notifications (routes/notifications.py): an alert is stored once
\* unless some scan could not have known it, a scan that ends well has an alert for all
\* it found, and the retention leaves the newest Keep, for any number of scanners,
\* troubles and alerts.
THEOREM AlertsKeptHolds == NotificationsSpec => AlertsKept
<1>1. AlertsSound => NoDuplicateAlert /\ ScanStoredAll
  <2> SUFFICES ASSUME AlertsSound PROVE NoDuplicateAlert /\ ScanStoredAll
    OBVIOUS
  <2>1. NoDuplicateAlert
    BY DEF AlertsSound, OneAlert, NoDuplicateAlert
  <2>2. ASSUME NEW s \in Scanners, scan[s].at \in {"prune", "ok"}
        PROVE  {KeyOf[t] : t \in scan[s].all} \subseteq KeysOf(alerts) \union pruned
    BY <2>2 DEF AlertsSound, ScanSound
  <2> QED BY <2>1, <2>2 DEF ScanStoredAll
<1>2. ASSUME AlertsSound, [NotificationsNext]_alertVars
      PROVE  [\A gone \in {{a \in alerts : a.id \notin {b.id : b \in alerts'}}} :
                gone # {} => /\ Cardinality(alerts') >= Keep
                             /\ \A a \in gone, b \in alerts' : a.at < b.at]_alertVars
  BY <1>2, StepPrunesRight
<1> QED BY <1>1, <1>2, AlertsStaySound, PTL
        DEF NotificationsSpec, AlertsKept, PruneKeepsNewest

-----------------------------------------------------------------------------
(***************************************************************************)
(* The sublineage store: the hops of a run, what is paid for, and the      *)
(* searches of the sessions.                                               *)
(***************************************************************************)
\* The rows, the translations and what was paid for them.
EnrichTyped ==
    /\ written \in [StoreRuns -> Graphs \union {NoGraph}]
    /\ stage \in [StoreRuns -> Stages]
    /\ pending \in [StoreRuns -> SUBSET Exprs]
    /\ translations \in [Exprs -> {"none", "null", "sql"}]
    /\ paid \in [Exprs -> Nat] /\ overlapped \subseteq Exprs

QueryRecord ==
    [pc : {"idle", "hash", "paths", "graph", "answered"}, run : StoreRuns \union {NoRun},
     cached : BOOLEAN, hash : (SUBSET StoreHops) \union {NoHash}, shows : Graphs \union {NoGraph}]

SessionsTyped ==
    /\ graphCache \in [Sessions -> [StoreRuns -> Graphs \union {NoGraph}]]
    /\ hashCache \in [Sessions -> [StoreRuns -> (SUBSET StoreHops) \union {NoHash}]]
    /\ keptPaths \in [SUBSET StoreHops -> Graphs \union {NoGraph}]
    /\ query \in [Sessions -> QueryRecord]

\* The rows of r are there; its enrichment has begun.
HasHops(r) == stage[r] \notin {"new", "cleared"}
HasAsked(r) == stage[r] \notin {"new", "cleared", "written"}

\* What a run's stage says of each of its hops.
HopSound(r, x) ==
    /\ x.sql => translations[x.expr] = "sql"
    /\ stage[r] = "asking" /\ ~x.sql => x.expr \in pending[r] \/ translations[x.expr] # "none"
    /\ stage[r] = "merging" /\ ~x.sql => translations[x.expr] # "none"
    /\ stage[r] = "enriched" /\ ~x.sql => translations[x.expr] = "null" \/ x.expr \in overlapped

HopsSound ==
    \A r \in StoreRuns : IF HasHops(r) THEN /\ written[r] \in Graphs
                                            /\ \A h \in DOMAIN written[r] : HopSound(r, written[r][h])
                         ELSE written[r] = NoGraph

\* What an enrichment asks for, it asks for alone, or it is noted.
AskedAlone ==
    /\ \A q \in StoreRuns : stage[q] = "asking" =>
          \A e \in pending[q] : e \notin overlapped => translations[e] = "none"
    /\ \A q, r \in StoreRuns : q # r /\ stage[q] = "asking" /\ stage[r] = "asking" =>
          pending[q] \intersect pending[r] \subseteq overlapped

\* An expression is paid for once, when the answer is there or being waited for.
PaidFor(e) ==
    \/ e \in overlapped
    \/ paid[e] = 0
    \/ paid[e] = 1 /\ (translations[e] # "none" \/ \E q \in StoreRuns : stage[q] = "asking" /\ e \in pending[q])
    \/ \E r \in StoreRuns : stage[r] = "failed"

EnrichSound ==
    /\ EnrichTyped /\ HopsSound /\ AskedAlone
    /\ \A e \in Exprs : PaidFor(e) /\ paid[e] <= Cardinality({r \in StoreRuns : HasAsked(r)})

\* What sessions keep is of the hops of runs that were inserted.
SessionsSound ==
    /\ \A s \in Sessions, r \in StoreRuns :
          /\ graphCache[s][r] # NoGraph => HasHops(r) /\ DOMAIN graphCache[s][r] = DOMAIN written[r]
          /\ hashCache[s][r] # NoHash => HasHops(r) /\ hashCache[s][r] = DOMAIN written[r]
    /\ \A h \in SUBSET StoreHops : keptPaths[h] # NoGraph => DOMAIN keptPaths[h] = h
    /\ \A s \in Sessions : query[s].pc # "idle" =>
          /\ query[s].run \in StoreRuns /\ HasHops(query[s].run)
          /\ query[s].pc \in {"paths", "graph"} => query[s].hash = DOMAIN written[query[s].run]
          /\ query[s].pc = "answered" => DOMAIN query[s].shows = DOMAIN written[query[s].run]

\* The inductive invariant.
StoreSound == EnrichSound /\ SessionsTyped /\ SessionsSound

-----------------------------------------------------------------------------
LEMMA GraphFacts ==
  ASSUME NEW g \in Graphs
  PROVE  /\ DOMAIN g \in SUBSET StoreHops
         /\ \A h \in DOMAIN g : g[h] \in [expr : Exprs, sql : BOOLEAN]
BY DEF Graphs

LEMMA GraphMade ==
  ASSUME NEW D \in SUBSET StoreHops, NEW g \in [D -> [expr : Exprs, sql : BOOLEAN]]
  PROVE  g \in Graphs
BY DEF Graphs

\* A step of a run that keeps the hops of those that have some keeps what sessions have.
LEMMA SessionsKeep ==
  ASSUME SessionsTyped, SessionsSound, UNCHANGED sessionVars,
         \A r \in StoreRuns : HasHops(r) => HasHops(r)' /\ DOMAIN written'[r] = DOMAIN written[r]
  PROVE  SessionsTyped' /\ SessionsSound'
<1>1. /\ graphCache' = graphCache /\ hashCache' = hashCache /\ keptPaths' = keptPaths /\ query' = query
  BY DEF sessionVars
<1>2. SessionsTyped'
  BY <1>1 DEF SessionsTyped
<1>3. \A s \in Sessions, r \in StoreRuns :
          /\ graphCache[s][r] # NoGraph => HasHops(r)' /\ DOMAIN graphCache[s][r] = DOMAIN written'[r]
          /\ hashCache[s][r] # NoHash => HasHops(r)' /\ hashCache[s][r] = DOMAIN written'[r]
  BY DEF SessionsSound
<1>4. \A s \in Sessions : query[s].pc # "idle" =>
          /\ query[s].run \in StoreRuns /\ HasHops(query[s].run)
          /\ query[s].pc \in {"paths", "graph"} => query[s].hash = DOMAIN written[query[s].run]
          /\ query[s].pc = "answered" => DOMAIN query[s].shows = DOMAIN written[query[s].run]
  BY DEF SessionsSound
<1>5. \A s \in Sessions : query[s].pc # "idle" =>
          /\ query[s].run \in StoreRuns /\ stage'[query[s].run] \notin {"new", "cleared"}
          /\ query[s].pc \in {"paths", "graph"} => query[s].hash = DOMAIN written'[query[s].run]
          /\ query[s].pc = "answered" => DOMAIN query[s].shows = DOMAIN written'[query[s].run]
  <2>1. \A r \in StoreRuns : HasHops(r) => stage'[r] \notin {"new", "cleared"} /\ DOMAIN written'[r] = DOMAIN written[r]
    BY DEF HasHops
  <2> QED BY <1>4, <2>1
<1>6. \A s \in Sessions, r \in StoreRuns :
          /\ graphCache[s][r] # NoGraph => stage'[r] \notin {"new", "cleared"} /\ DOMAIN graphCache[s][r] = DOMAIN written'[r]
          /\ hashCache[s][r] # NoHash => stage'[r] \notin {"new", "cleared"} /\ hashCache[s][r] = DOMAIN written'[r]
  BY <1>3 DEF HasHops
<1>7. \A h \in SUBSET StoreHops : keptPaths[h] # NoGraph => DOMAIN keptPaths[h] = h
  BY DEF SessionsSound
<1>8. SessionsSound'
  BY <1>1, <1>5, <1>6, <1>7 DEF SessionsSound, HasHops
<1> QED BY <1>2, <1>8

\* A step of a session keeps what the runs have.
LEMMA EnrichKeeps ==
  ASSUME EnrichSound, UNCHANGED <<written, stage, enrichVars>>
  PROVE  EnrichSound'
<1>1. UNCHANGED <<written, stage, pending, translations, paid, overlapped>>
  BY DEF enrichVars
<1>2. EnrichTyped' /\ AskedAlone'
  BY <1>1 DEF EnrichSound, EnrichTyped, AskedAlone
<1>3. HopsSound'
  BY <1>1 DEF EnrichSound, HopsSound, HopSound, HasHops
<1>4. (\A e \in Exprs : PaidFor(e) /\ paid[e] <= Cardinality({r \in StoreRuns : HasAsked(r)}))'
  BY <1>1 DEF EnrichSound, PaidFor, HasAsked
<1> QED BY <1>2, <1>3, <1>4 DEF EnrichSound

-----------------------------------------------------------------------------
(* The runs. *)
LEMMA HopsCleared ==
  ASSUME StoreSound, NEW r \in StoreRuns, ClearHops(r)
  PROVE  StoreSound'
<1>1. /\ stage[r] = "new" /\ stage' = [stage EXCEPT ![r] = "cleared"]
      /\ written' = [written EXCEPT ![r] = NoGraph]
      /\ UNCHANGED <<pending, translations, paid, overlapped>> /\ UNCHANGED sessionVars
  BY DEF ClearHops, enrichVars
<1>2. \A q \in StoreRuns : /\ q # r => stage'[q] = stage[q]
                           /\ stage'[r] = "cleared"
  BY <1>1 DEF StoreSound, EnrichSound, EnrichTyped
<1>3. written' = written
  <2>1. written[r] = NoGraph
    BY <1>1 DEF StoreSound, EnrichSound, HopsSound, HasHops
  <2> QED BY <1>1, <2>1 DEF StoreSound, EnrichSound, EnrichTyped
<1>4. EnrichTyped'
  <2>1. "cleared" \in Stages
    BY DEF Stages
  <2> QED BY <1>1, <1>3, <2>1 DEF StoreSound, EnrichSound, EnrichTyped
<1>5. \A q \in StoreRuns : /\ HasHops(q)' <=> HasHops(q)
                           /\ HasAsked(q)' <=> HasAsked(q)
                           /\ \A p \in {"asking", "merging", "enriched", "failed"} : stage'[q] = p <=> stage[q] = p
  BY <1>1, <1>2 DEF HasHops, HasAsked
<1>6. HopsSound'
  <2> SUFFICES ASSUME NEW q \in StoreRuns
               PROVE  IF HasHops(q)' THEN /\ written'[q] \in Graphs
                                          /\ \A h \in DOMAIN written'[q] : HopSound(q, written[q][h])'
                      ELSE written'[q] = NoGraph
    BY DEF HopsSound
  <2>1. IF HasHops(q) THEN /\ written[q] \in Graphs
                           /\ \A h \in DOMAIN written[q] : HopSound(q, written[q][h])
        ELSE written[q] = NoGraph
    BY DEF StoreSound, EnrichSound, HopsSound
  <2>2. \A h \in DOMAIN written[q] : HopSound(q, written[q][h]) => HopSound(q, written[q][h])'
    BY <1>1, <1>3, <1>5 DEF HopSound
  <2> QED BY <1>3, <1>5, <2>1, <2>2
<1>7. AskedAlone'
  BY <1>1, <1>5 DEF StoreSound, EnrichSound, AskedAlone
<1>8. (\A e \in Exprs : PaidFor(e) /\ paid[e] <= Cardinality({q \in StoreRuns : HasAsked(q)}))'
  <2>1. {q \in StoreRuns : HasAsked(q)'} = {q \in StoreRuns : HasAsked(q)}
    BY <1>5
  <2> QED BY <1>1, <1>5, <2>1 DEF StoreSound, EnrichSound, PaidFor
<1>9. SessionsTyped' /\ SessionsSound'
  BY <1>1, <1>3, <1>5, SessionsKeep DEF StoreSound
<1> QED BY <1>4, <1>6, <1>7, <1>8, <1>9 DEF StoreSound, EnrichSound

LEMMA HopsInserted ==
  ASSUME StoreSound, NEW r \in StoreRuns, InsertHops(r)
  PROVE  StoreSound'
<1>1. PICK text \in Contents :
         written' = [written EXCEPT ![r] = [h \in DOMAIN text |-> [expr |-> text[h], sql |-> FALSE]]]
  BY DEF InsertHops
<1>2. /\ stage[r] = "cleared" /\ stage' = [stage EXCEPT ![r] = "written"]
      /\ UNCHANGED <<pending, translations, paid, overlapped>> /\ UNCHANGED sessionVars
  BY DEF InsertHops, enrichVars
<1> DEFINE g == [h \in DOMAIN text |-> [expr |-> text[h], sql |-> FALSE]]
<1>3. g \in Graphs /\ \A h \in DOMAIN g : g[h].sql = FALSE
  <2>1. PICK D \in SUBSET StoreHops : text \in [D -> Exprs]
    BY StoreAssumption
  <2>2. g \in [D -> [expr : Exprs, sql : BOOLEAN]]
    BY <2>1
  <2>3. \A h \in DOMAIN g : g[h].sql = FALSE
    OBVIOUS
  <2> QED BY <2>2, <2>3, GraphMade
<1>4. written' = [written EXCEPT ![r] = g]
  BY <1>1
<1> HIDE DEF g
<1>5. \A q \in StoreRuns : /\ stage'[q] = IF q = r THEN "written" ELSE stage[q]
                           /\ written'[q] = IF q = r THEN g ELSE written[q]
  BY <1>2, <1>4 DEF StoreSound, EnrichSound, EnrichTyped
<1>6. EnrichTyped'
  <2>1. "written" \in Stages
    BY DEF Stages
  <2> QED BY <1>2, <1>3, <1>4, <2>1 DEF StoreSound, EnrichSound, EnrichTyped
<1>7. \A q \in StoreRuns : /\ HasAsked(q)' <=> HasAsked(q)
                           /\ \A p \in {"asking", "merging", "enriched", "failed"} : stage'[q] = p <=> stage[q] = p
                           /\ q # r => (HasHops(q)' <=> HasHops(q))
                           /\ ~HasHops(r) /\ HasHops(r)'
  BY <1>2, <1>5 DEF HasHops, HasAsked
<1>8. HopsSound'
  <2> SUFFICES ASSUME NEW q \in StoreRuns
               PROVE  IF HasHops(q)' THEN /\ written'[q] \in Graphs
                                          /\ \A h \in DOMAIN written'[q] : HopSound(q, written[q][h])'
                      ELSE written'[q] = NoGraph
    BY DEF HopsSound
  <2>1. CASE q = r
    <3>1. written'[q] = g /\ stage'[q] = "written"
      BY <1>5, <2>1
    <3>2. \A h \in DOMAIN written'[q] : HopSound(q, written[q][h])'
      BY <1>3, <3>1 DEF HopSound
    <3> QED BY <1>3, <1>7, <2>1, <3>1, <3>2
  <2>2. CASE q # r
    <3>1. IF HasHops(q) THEN /\ written[q] \in Graphs
                             /\ \A h \in DOMAIN written[q] : HopSound(q, written[q][h])
          ELSE written[q] = NoGraph
      BY DEF StoreSound, EnrichSound, HopsSound
    <3>2. written'[q] = written[q] /\ stage'[q] = stage[q]
      BY <1>5, <2>2
    <3>3. \A h \in DOMAIN written[q] : HopSound(q, written[q][h]) => HopSound(q, written[q][h])'
      BY <1>2, <3>2 DEF HopSound
    <3> QED BY <1>7, <2>2, <3>1, <3>2, <3>3
  <2> QED BY <2>1, <2>2
<1>9. AskedAlone'
  BY <1>2, <1>7 DEF StoreSound, EnrichSound, AskedAlone
<1>10. (\A e \in Exprs : PaidFor(e) /\ paid[e] <= Cardinality({q \in StoreRuns : HasAsked(q)}))'
  <2>1. {q \in StoreRuns : HasAsked(q)'} = {q \in StoreRuns : HasAsked(q)}
    BY <1>7
  <2> QED BY <1>2, <1>7, <2>1 DEF StoreSound, EnrichSound, PaidFor
<1>11. \A q \in StoreRuns : HasHops(q) => HasHops(q)' /\ DOMAIN written'[q] = DOMAIN written[q]
  BY <1>5, <1>7
<1>12. SessionsTyped' /\ SessionsSound'
  BY <1>2, <1>11, SessionsKeep DEF StoreSound
<1> QED BY <1>6, <1>8, <1>9, <1>10, <1>12 DEF StoreSound, EnrichSound

\* One more run has asked.
LEMMA OneMoreAsked ==
  ASSUME EnrichTyped, NEW r \in StoreRuns, ~HasAsked(r), HasAsked(r)',
         \A q \in StoreRuns : q # r => (HasAsked(q)' <=> HasAsked(q))
  PROVE  /\ Cardinality({q \in StoreRuns : HasAsked(q)}) \in Nat
         /\ Cardinality({q \in StoreRuns : HasAsked(q)'}) = Cardinality({q \in StoreRuns : HasAsked(q)}) + 1
<1> DEFINE A == {q \in StoreRuns : HasAsked(q)}
           B == {q \in StoreRuns : HasAsked(q)'}
<1>1. IsFiniteSet(A)
  BY StoreAssumption, FS_Subset
<1>2. B = A \union {r} /\ r \notin A
  OBVIOUS
<1> HIDE DEF A, B
<1>3. Cardinality(A) \in Nat /\ Cardinality(A \union {r}) = Cardinality(A) + 1
  BY <1>1, <1>2, FS_AddElement, FS_CardinalityType
<1> QED BY <1>2, <1>3 DEF A, B

LEMMA TranslationsAsked ==
  ASSUME StoreSound, NEW r \in StoreRuns, AskTranslations(r)
  PROVE  StoreSound'
<1> DEFINE todo == {written[r][h].expr : h \in {x \in DOMAIN written[r] : ~written[r][x].sql}}
           new == NewOf(todo)
           next == IF todo = {} THEN "enriched" ELSE "asking"
<1>1. /\ stage[r] = "written" /\ stage' = [stage EXCEPT ![r] = next]
      /\ pending' = [pending EXCEPT ![r] = new]
      /\ paid' = [e \in Exprs |-> paid[e] + IF e \in new THEN 1 ELSE 0]
      /\ overlapped' = overlapped \union
             {e \in new : \E q \in StoreRuns : stage[q] = "asking" /\ e \in pending[q]}
      /\ UNCHANGED <<written, translations>> /\ UNCHANGED sessionVars
  BY DEF AskTranslations
<1>2. EnrichTyped /\ written[r] \in Graphs /\ \A h \in DOMAIN written[r] : HopSound(r, written[r][h])
  BY <1>1 DEF StoreSound, EnrichSound, HopsSound, HasHops
<1>3. \A h \in DOMAIN written[r] : written[r][h] \in [expr : Exprs, sql : BOOLEAN]
  BY <1>2, GraphFacts
<1>4. todo \subseteq Exprs /\ \A h \in DOMAIN written[r] : ~written[r][h].sql => written[r][h].expr \in todo
  BY <1>3
<1>5. new = {e \in todo : translations[e] = "none"}
  BY DEF NewOf
<1>6. next \in {"enriched", "asking"} /\ (next = "enriched" => todo = {})
  OBVIOUS
<1> HIDE DEF todo, new, next
<1>7. new \subseteq Exprs /\ (next = "enriched" => new = {})
  BY <1>4, <1>5, <1>6
<1>8. /\ \A q \in StoreRuns : q # r => stage'[q] = stage[q] /\ pending'[q] = pending[q]
      /\ stage'[r] = next /\ pending'[r] = new
  BY <1>1, <1>2 DEF EnrichTyped
<1>9. EnrichTyped'
  <2>1. next \in Stages
    BY <1>6 DEF Stages
  <2>2. paid' \in [Exprs -> Nat]
    BY <1>1, <1>2 DEF EnrichTyped
  <2>3. stage' \in [StoreRuns -> Stages] /\ pending' \in [StoreRuns -> SUBSET Exprs]
    BY <1>1, <1>2, <1>7, <2>1 DEF EnrichTyped
  <2> QED BY <1>1, <1>2, <1>7, <2>2, <2>3 DEF EnrichTyped
<1>10. \A q \in StoreRuns : /\ HasHops(q)' <=> HasHops(q)
                            /\ q # r => (HasAsked(q)' <=> HasAsked(q))
                            /\ ~HasAsked(r) /\ HasAsked(r)'
  BY <1>1, <1>6, <1>8 DEF HasHops, HasAsked
<1>11. HopsSound'
  <2> SUFFICES ASSUME NEW q \in StoreRuns
               PROVE  IF HasHops(q)' THEN /\ written'[q] \in Graphs
                                          /\ \A h \in DOMAIN written'[q] : HopSound(q, written[q][h])'
                      ELSE written'[q] = NoGraph
    BY DEF HopsSound
  <2>1. IF HasHops(q) THEN /\ written[q] \in Graphs
                           /\ \A h \in DOMAIN written[q] : HopSound(q, written[q][h])
        ELSE written[q] = NoGraph
    BY DEF StoreSound, EnrichSound, HopsSound
  <2>2. CASE q # r
    <3>1. \A h \in DOMAIN written[q] : HopSound(q, written[q][h]) => HopSound(q, written[q][h])'
      BY <1>1, <1>8, <2>2 DEF HopSound
    <3> QED BY <1>1, <1>10, <2>1, <3>1
  <2>3. CASE q = r
    <3>1. \A h \in DOMAIN written[r] : HopSound(r, written[r][h])'
      <4> SUFFICES ASSUME NEW h \in DOMAIN written[r] PROVE HopSound(r, written[r][h])'
        OBVIOUS
      <4> DEFINE x == written[r][h]
      <4>1. HopSound(r, x) /\ written'[r][h] = x /\ x.expr \in Exprs
        BY <1>1, <1>2, <1>3
      <4>2. ~x.sql => x.expr \in todo
        BY <1>4
      <4> HIDE DEF x
      <4>3. ~x.sql => next = "asking" /\ (x.expr \in new \/ translations[x.expr] # "none")
        BY <1>5, <1>6, <4>2
      <4>4. x.sql => translations[x.expr] = "sql"
        BY <4>1 DEF HopSound
      <4> QED BY <1>1, <1>6, <1>8, <4>1, <4>3, <4>4 DEF HopSound
    <3> QED BY <1>1, <1>2, <1>10, <2>1, <2>3, <3>1
  <2> QED BY <2>2, <2>3
<1>12. AskedAlone'
  <2>1. ASSUME NEW q \in StoreRuns, stage'[q] = "asking", NEW e \in pending'[q], e \notin overlapped'
        PROVE  translations'[e] = "none"
    <3>1. CASE q = r
      BY <1>1, <1>5, <1>8, <2>1, <3>1
    <3>2. CASE q # r
      BY <1>1, <1>8, <2>1, <3>2 DEF StoreSound, EnrichSound, AskedAlone
    <3> QED BY <3>1, <3>2
  <2>2. ASSUME NEW q \in StoreRuns, q # r, stage[q] = "asking"
        PROVE  pending[q] \intersect new \subseteq overlapped'
    BY <1>1, <2>2
  <2>3. ASSUME NEW q \in StoreRuns, NEW p \in StoreRuns, q # p, stage'[q] = "asking", stage'[p] = "asking"
        PROVE  pending'[q] \intersect pending'[p] \subseteq overlapped'
    <3>1. CASE q = r
      BY <1>8, <2>2, <2>3, <3>1
    <3>2. CASE p = r
      BY <1>8, <2>2, <2>3, <3>2
    <3>3. CASE q # r /\ p # r
      BY <1>1, <1>8, <2>3, <3>3 DEF StoreSound, EnrichSound, AskedAlone
    <3> QED BY <3>1, <3>2, <3>3
  <2> QED BY <2>1, <2>3 DEF AskedAlone
<1>13. \A e \in Exprs : PaidFor(e)'
  <2> SUFFICES ASSUME NEW e \in Exprs PROVE PaidFor(e)'
    OBVIOUS
  <2>1. PaidFor(e) /\ paid[e] \in Nat /\ paid'[e] = paid[e] + IF e \in new THEN 1 ELSE 0
    BY <1>1, <1>2 DEF StoreSound, EnrichSound, EnrichTyped
  <2>2. (\E q \in StoreRuns : stage[q] = "failed") => \E q \in StoreRuns : stage'[q] = "failed"
    BY <1>1, <1>8
  <2>3. (\E q \in StoreRuns : stage[q] = "asking" /\ e \in pending[q])
            => \E q \in StoreRuns : stage'[q] = "asking" /\ e \in pending'[q]
    BY <1>1, <1>8
  <2>4. CASE e \notin new
    BY <1>1, <2>1, <2>2, <2>3, <2>4 DEF PaidFor
  <2>5. CASE e \in new
    <3>1. translations[e] = "none"
      BY <1>5, <2>5
    <3>2. stage'[r] = "asking" /\ e \in pending'[r]
      BY <1>6, <1>7, <1>8, <2>5
    <3>3. CASE \E q \in StoreRuns : stage[q] = "asking" /\ e \in pending[q]
      BY <1>1, <2>5, <3>3 DEF PaidFor
    <3>4. CASE ~\E q \in StoreRuns : stage[q] = "asking" /\ e \in pending[q]
      <4>1. \/ e \in overlapped \/ paid'[e] = 1 \/ \E q \in StoreRuns : stage[q] = "failed"
        BY <2>1, <2>5, <3>1, <3>4 DEF PaidFor
      <4> QED BY <1>1, <2>2, <3>2, <4>1 DEF PaidFor
    <3> QED BY <3>3, <3>4
  <2> QED BY <2>4, <2>5
<1>14. \A e \in Exprs : paid'[e] <= Cardinality({q \in StoreRuns : HasAsked(q)'})
  <2>1. /\ Cardinality({q \in StoreRuns : HasAsked(q)}) \in Nat
        /\ Cardinality({q \in StoreRuns : HasAsked(q)'}) = Cardinality({q \in StoreRuns : HasAsked(q)}) + 1
    BY <1>2, <1>10, OneMoreAsked
  <2>2. \A e \in Exprs : /\ paid[e] <= Cardinality({q \in StoreRuns : HasAsked(q)}) /\ paid[e] \in Nat
                         /\ paid'[e] <= paid[e] + 1 /\ paid'[e] \in Nat
    BY <1>1, <1>2 DEF StoreSound, EnrichSound, EnrichTyped
  <2> QED BY <2>1, <2>2
<1>15. \A q \in StoreRuns : HasHops(q) => HasHops(q)' /\ DOMAIN written'[q] = DOMAIN written[q]
  BY <1>1, <1>10
<1>16. SessionsTyped' /\ SessionsSound'
  BY <1>1, <1>15, SessionsKeep DEF StoreSound
<1>17. EnrichSound'
  BY <1>9, <1>11, <1>12, <1>13, <1>14 DEF EnrichSound
<1> QED BY <1>16, <1>17 DEF StoreSound

LEMMA TranslationsKept ==
  ASSUME StoreSound, NEW r \in StoreRuns, KeepTranslations(r)
  PROVE  StoreSound'
<1>1. PICK got \in [pending[r] -> {"null", "sql"}] :
         translations' = [e \in Exprs |-> IF e \in pending[r] /\ translations[e] # "sql"
                                          THEN got[e] ELSE translations[e]]
  BY DEF KeepTranslations
<1>2. /\ stage[r] = "asking" /\ stage' = [stage EXCEPT ![r] = "merging"]
      /\ UNCHANGED <<written, pending, paid, overlapped>> /\ UNCHANGED sessionVars
  BY DEF KeepTranslations
<1>3. EnrichTyped /\ HopsSound /\ AskedAlone
  BY DEF StoreSound, EnrichSound
<1>4. \A q \in StoreRuns : stage'[q] = IF q = r THEN "merging" ELSE stage[q]
  BY <1>2, <1>3 DEF EnrichTyped
\* What becomes of a translation.
<1>5. \A e \in Exprs : /\ translations[e] = "sql" => translations'[e] = "sql"
                       /\ translations[e] # "none" => translations'[e] # "none"
                       /\ e \in pending[r] => translations'[e] # "none"
                       /\ e \notin pending[r] => translations'[e] = translations[e]
                       /\ translations'[e] \in {"none", "null", "sql"}
  BY <1>1, <1>3 DEF EnrichTyped
<1>6. \A e \in Exprs : translations[e] = "null" => translations'[e] = "null" \/ e \in overlapped
  BY <1>2, <1>3, <1>5 DEF AskedAlone
<1>7. EnrichTyped'
  <2>1. "merging" \in Stages
    BY DEF Stages
  <2>2. translations' \in [Exprs -> {"none", "null", "sql"}]
    BY <1>1, <1>5
  <2> QED BY <1>2, <1>3, <2>1, <2>2 DEF EnrichTyped
<1>8. \A q \in StoreRuns : (HasHops(q)' <=> HasHops(q)) /\ (HasAsked(q)' <=> HasAsked(q))
  BY <1>2, <1>4 DEF HasHops, HasAsked
<1>9. HopsSound'
  <2> SUFFICES ASSUME NEW q \in StoreRuns
               PROVE  IF HasHops(q)' THEN /\ written'[q] \in Graphs
                                          /\ \A h \in DOMAIN written'[q] : HopSound(q, written[q][h])'
                      ELSE written'[q] = NoGraph
    BY DEF HopsSound
  <2>1. IF HasHops(q) THEN /\ written[q] \in Graphs
                           /\ \A h \in DOMAIN written[q] : HopSound(q, written[q][h])
        ELSE written[q] = NoGraph
    BY <1>3 DEF HopsSound
  <2>2. ASSUME HasHops(q), NEW h \in DOMAIN written[q] PROVE HopSound(q, written[q][h])'
    <3> DEFINE x == written[q][h]
    <3>1. HopSound(q, x) /\ x.expr \in Exprs /\ written'[q][h] = x
      BY <1>2, <2>1, <2>2, GraphFacts
    <3> HIDE DEF x
    <3>2. x.sql => translations'[x.expr] = "sql"
      BY <1>5, <3>1 DEF HopSound
    <3>3. CASE q = r
      <4>1. stage'[q] = "merging" /\ (~x.sql => translations'[x.expr] # "none")
        BY <1>2, <1>4, <1>5, <3>1, <3>3 DEF HopSound
      <4> QED BY <3>1, <3>2, <4>1 DEF HopSound
    <3>4. CASE q # r
      <4>1. stage'[q] = stage[q] /\ pending'[q] = pending[q] /\ overlapped' = overlapped
        BY <1>2, <1>4, <3>4
      <4> QED BY <1>5, <1>6, <3>1, <3>2, <4>1 DEF HopSound
    <3> QED BY <3>3, <3>4
  <2> QED BY <1>2, <1>8, <2>1, <2>2
<1>10. AskedAlone'
  <2>1. ASSUME NEW q \in StoreRuns, stage'[q] = "asking", NEW e \in pending'[q], e \notin overlapped'
        PROVE  translations'[e] = "none"
    <3>1. q # r /\ stage[q] = "asking" /\ e \in pending[q] /\ e \notin overlapped /\ e \in Exprs
      BY <1>2, <1>3, <1>4, <2>1 DEF EnrichTyped
    <3>2. translations[e] = "none" /\ e \notin pending[r]
      BY <1>2, <1>3, <3>1 DEF AskedAlone
    <3> QED BY <1>5, <3>1, <3>2
  <2>2. \A q, p \in StoreRuns : q # p /\ stage'[q] = "asking" /\ stage'[p] = "asking" =>
            pending'[q] \intersect pending'[p] \subseteq overlapped'
    BY <1>2, <1>3, <1>4 DEF AskedAlone
  <2> QED BY <2>1, <2>2 DEF AskedAlone
<1>11. \A e \in Exprs : PaidFor(e)'
  <2> SUFFICES ASSUME NEW e \in Exprs PROVE PaidFor(e)'
    OBVIOUS
  <2>1. PaidFor(e)
    BY DEF StoreSound, EnrichSound
  <2>2. (\E q \in StoreRuns : stage[q] = "failed") => \E q \in StoreRuns : stage'[q] = "failed"
    BY <1>2, <1>4
  <2>3. (\E q \in StoreRuns : stage[q] = "asking" /\ e \in pending[q])
            => \/ translations'[e] # "none"
               \/ \E q \in StoreRuns : stage'[q] = "asking" /\ e \in pending'[q]
    BY <1>2, <1>4, <1>5
  <2> QED BY <1>2, <1>5, <2>1, <2>2, <2>3 DEF PaidFor
<1>12. \A e \in Exprs : paid'[e] <= Cardinality({q \in StoreRuns : HasAsked(q)'})
  <2>1. {q \in StoreRuns : HasAsked(q)'} = {q \in StoreRuns : HasAsked(q)}
    BY <1>8
  <2> QED BY <1>2, <2>1 DEF StoreSound, EnrichSound
<1>13. SessionsTyped' /\ SessionsSound'
  BY <1>2, <1>8, SessionsKeep DEF StoreSound
<1>14. EnrichSound'
  BY <1>7, <1>9, <1>10, <1>11, <1>12 DEF EnrichSound
<1> QED BY <1>13, <1>14 DEF StoreSound

LEMMA HopsBackfilled ==
  ASSUME StoreSound, NEW r \in StoreRuns, Backfill(r)
  PROVE  StoreSound'
<1> DEFINE done(x) == WithSql(x, translations[x.expr] = "sql")
           g == [h \in DOMAIN written[r] |-> done(written[r][h])]
<1>1. /\ stage[r] = "merging" /\ stage' = [stage EXCEPT ![r] = "enriched"]
      /\ UNCHANGED <<pending, translations, paid, overlapped>> /\ UNCHANGED sessionVars
  BY DEF Backfill, enrichVars
<1>2. EnrichTyped /\ HopsSound /\ AskedAlone
  BY DEF StoreSound, EnrichSound
<1>3. written' = [written EXCEPT ![r] = g]
  BY DEF Backfill
<1>4. written[r] \in Graphs /\ \A h \in DOMAIN written[r] : HopSound(r, written[r][h])
  BY <1>1, <1>2 DEF HopsSound, HasHops
<1>5. \A x \in [expr : Exprs, sql : BOOLEAN] :
         /\ done(x) \in [expr : Exprs, sql : BOOLEAN] /\ done(x).expr = x.expr
         /\ done(x).sql <=> x.sql \/ translations[x.expr] = "sql"
  <2> SUFFICES ASSUME NEW x \in [expr : Exprs, sql : BOOLEAN]
               PROVE  /\ done(x) \in [expr : Exprs, sql : BOOLEAN] /\ done(x).expr = x.expr
                      /\ done(x).sql <=> x.sql \/ translations[x.expr] = "sql"
    OBVIOUS
  <2> DEFINE v == x.sql \/ translations[x.expr] = "sql"
  <2>1. v \in BOOLEAN
    OBVIOUS
  <2>2. done(x) = [x EXCEPT !.sql = v]
    BY DEF WithSql
  <2> HIDE DEF v, done
  <2>3. done(x) \in [expr : Exprs, sql : BOOLEAN] /\ done(x).expr = x.expr /\ done(x).sql = v
    BY <2>1, <2>2
  <2> QED BY <2>3 DEF v
<1> HIDE DEF done
<1>6. /\ DOMAIN g = DOMAIN written[r] /\ g \in Graphs
      /\ \A h \in DOMAIN g : g[h] = done(written[r][h])
  <2>1. DOMAIN written[r] \in SUBSET StoreHops
    BY <1>4, GraphFacts
  <2>2. \A h \in DOMAIN written[r] : done(written[r][h]) \in [expr : Exprs, sql : BOOLEAN]
    BY <1>4, <1>5, GraphFacts
  <2>3. g \in [DOMAIN written[r] -> [expr : Exprs, sql : BOOLEAN]]
    BY <2>2
  <2> QED BY <2>1, <2>3, GraphMade
<1> HIDE DEF g
<1>7. \A q \in StoreRuns : /\ stage'[q] = IF q = r THEN "enriched" ELSE stage[q]
                           /\ written'[q] = IF q = r THEN g ELSE written[q]
  BY <1>1, <1>2, <1>3 DEF EnrichTyped
<1>8. EnrichTyped'
  <2>1. "enriched" \in Stages
    BY DEF Stages
  <2> QED BY <1>1, <1>2, <1>3, <1>6, <2>1 DEF EnrichTyped
<1>9. \A q \in StoreRuns : (HasHops(q)' <=> HasHops(q)) /\ (HasAsked(q)' <=> HasAsked(q))
  BY <1>1, <1>7 DEF HasHops, HasAsked
<1>10. HopsSound'
  <2> SUFFICES ASSUME NEW q \in StoreRuns
               PROVE  IF HasHops(q)' THEN /\ written'[q] \in Graphs
                                          /\ \A h \in DOMAIN written'[q] : HopSound(q, written[q][h])'
                      ELSE written'[q] = NoGraph
    BY DEF HopsSound
  <2>1. CASE q # r
    <3>1. IF HasHops(q) THEN /\ written[q] \in Graphs
                             /\ \A h \in DOMAIN written[q] : HopSound(q, written[q][h])
          ELSE written[q] = NoGraph
      BY <1>2 DEF HopsSound
    <3>2. written'[q] = written[q] /\ stage'[q] = stage[q]
      BY <1>7, <2>1
    <3>3. \A h \in DOMAIN written[q] : HopSound(q, written[q][h]) => HopSound(q, written[q][h])'
      BY <1>1, <3>2 DEF HopSound
    <3> QED BY <1>9, <2>1, <3>1, <3>2, <3>3
  <2>2. CASE q = r
    <3>1. written'[q] = g /\ stage'[q] = "enriched"
      BY <1>7, <2>2
    <3>2. ASSUME NEW h \in DOMAIN g PROVE HopSound(q, written[q][h])'
      <4> DEFINE x == written[r][h]
                 y == g[h]
      <4>1. HopSound(r, x) /\ x \in [expr : Exprs, sql : BOOLEAN] /\ y = done(x)
        BY <1>4, <1>6, GraphFacts
      <4>2. written'[q][h] = y
        BY <3>1
      <4> HIDE DEF x, y
      <4>3. y.expr = x.expr /\ (y.sql <=> x.sql \/ translations[x.expr] = "sql")
        BY <1>5, <4>1
      <4>4. x.expr \in Exprs /\ translations[x.expr] \in {"none", "null", "sql"}
        BY <1>2, <4>1 DEF EnrichTyped
      <4>5. x.sql => translations[x.expr] = "sql"
        BY <4>1 DEF HopSound
      <4>6. ~x.sql => translations[x.expr] # "none"
        BY <1>1, <4>1 DEF HopSound
      <4> QED BY <1>1, <3>1, <4>2, <4>3, <4>4, <4>5, <4>6 DEF HopSound
    <3>3. HasHops(q)'
      BY <3>1 DEF HasHops
    <3> QED BY <1>6, <3>1, <3>2, <3>3
  <2> QED BY <2>1, <2>2
<1>11. AskedAlone'
  BY <1>1, <1>2, <1>7 DEF AskedAlone
<1>12. \A e \in Exprs : PaidFor(e)'
  <2> SUFFICES ASSUME NEW e \in Exprs PROVE PaidFor(e)'
    OBVIOUS
  <2>1. PaidFor(e)
    BY DEF StoreSound, EnrichSound
  <2>2. \A q \in StoreRuns : \A p \in {"asking", "failed"} : stage[q] = p => stage'[q] = p
    BY <1>1, <1>7
  <2> QED BY <1>1, <2>1, <2>2 DEF PaidFor
<1>13. \A e \in Exprs : paid'[e] <= Cardinality({q \in StoreRuns : HasAsked(q)'})
  <2>1. {q \in StoreRuns : HasAsked(q)'} = {q \in StoreRuns : HasAsked(q)}
    BY <1>9
  <2> QED BY <1>1, <2>1 DEF StoreSound, EnrichSound
<1>14. \A q \in StoreRuns : HasHops(q) => HasHops(q)' /\ DOMAIN written'[q] = DOMAIN written[q]
  BY <1>6, <1>7, <1>9
<1>15. SessionsTyped' /\ SessionsSound'
  BY <1>1, <1>14, SessionsKeep DEF StoreSound
<1>16. EnrichSound'
  BY <1>8, <1>10, <1>11, <1>12, <1>13 DEF EnrichSound
<1> QED BY <1>15, <1>16 DEF StoreSound

LEMMA EnrichFailed ==
  ASSUME StoreSound, NEW r \in StoreRuns, EnrichFails(r)
  PROVE  StoreSound'
<1>1. /\ stage[r] \in {"asking", "merging"} /\ stage' = [stage EXCEPT ![r] = "failed"]
      /\ pending' = [pending EXCEPT ![r] = {}]
      /\ UNCHANGED <<written, translations, paid, overlapped>> /\ UNCHANGED sessionVars
  BY DEF EnrichFails
<1>2. EnrichTyped /\ HopsSound /\ AskedAlone
  BY DEF StoreSound, EnrichSound
<1>3. \A q \in StoreRuns : /\ stage'[q] = IF q = r THEN "failed" ELSE stage[q]
                           /\ q # r => pending'[q] = pending[q]
  BY <1>1, <1>2 DEF EnrichTyped
<1>4. EnrichTyped'
  <2>1. "failed" \in Stages
    BY DEF Stages
  <2> QED BY <1>1, <1>2, <2>1 DEF EnrichTyped
<1>5. \A q \in StoreRuns : (HasHops(q)' <=> HasHops(q)) /\ (HasAsked(q)' <=> HasAsked(q))
  BY <1>1, <1>3 DEF HasHops, HasAsked
<1>6. HopsSound'
  <2> SUFFICES ASSUME NEW q \in StoreRuns
               PROVE  IF HasHops(q)' THEN /\ written'[q] \in Graphs
                                          /\ \A h \in DOMAIN written'[q] : HopSound(q, written[q][h])'
                      ELSE written'[q] = NoGraph
    BY DEF HopsSound
  <2>1. IF HasHops(q) THEN /\ written[q] \in Graphs
                           /\ \A h \in DOMAIN written[q] : HopSound(q, written[q][h])
        ELSE written[q] = NoGraph
    BY <1>2 DEF HopsSound
  <2>2. \A h \in DOMAIN written[q] : HopSound(q, written[q][h]) => HopSound(q, written[q][h])'
    <3>1. stage'[q] # "failed" => stage'[q] = stage[q] /\ pending'[q] = pending[q]
      BY <1>3
    <3> QED BY <1>1, <3>1 DEF HopSound
  <2> QED BY <1>1, <1>5, <2>1, <2>2
<1>7. AskedAlone'
  BY <1>1, <1>2, <1>3 DEF AskedAlone
<1>8. \A e \in Exprs : PaidFor(e)'
  BY <1>3 DEF PaidFor
<1>9. \A e \in Exprs : paid'[e] <= Cardinality({q \in StoreRuns : HasAsked(q)'})
  <2>1. {q \in StoreRuns : HasAsked(q)'} = {q \in StoreRuns : HasAsked(q)}
    BY <1>5
  <2> QED BY <1>1, <2>1 DEF StoreSound, EnrichSound
<1>10. SessionsTyped' /\ SessionsSound'
  BY <1>1, <1>5, SessionsKeep DEF StoreSound
<1>11. EnrichSound'
  BY <1>4, <1>6, <1>7, <1>8, <1>9 DEF EnrichSound
<1> QED BY <1>10, <1>11 DEF StoreSound

-----------------------------------------------------------------------------
(* The sessions. *)
\* A session's query becomes q, its caches and the shared table change as q says.
LEMMA SessionMoves ==
  ASSUME StoreSound, NEW s \in Sessions, NEW q \in QueryRecord,
         query' = [query EXCEPT ![s] = q], UNCHANGED <<written, stage, enrichVars>>,
         q.pc # "idle" =>
            /\ q.run \in StoreRuns /\ HasHops(q.run)
            /\ q.pc \in {"paths", "graph"} => q.hash = DOMAIN written[q.run]
            /\ q.pc = "answered" => DOMAIN q.shows = DOMAIN written[q.run],
         graphCache' \in [Sessions -> [StoreRuns -> Graphs \union {NoGraph}]],
         hashCache' \in [Sessions -> [StoreRuns -> (SUBSET StoreHops) \union {NoHash}]],
         keptPaths' \in [SUBSET StoreHops -> Graphs \union {NoGraph}],
         \A u \in Sessions, r \in StoreRuns :
            /\ \/ graphCache'[u][r] \in {graphCache[u][r], NoGraph}
               \/ HasHops(r) /\ DOMAIN graphCache'[u][r] = DOMAIN written[r]
            /\ \/ hashCache'[u][r] \in {hashCache[u][r], NoHash}
               \/ HasHops(r) /\ hashCache'[u][r] = DOMAIN written[r],
         \A h \in SUBSET StoreHops : keptPaths'[h] = keptPaths[h] \/ DOMAIN keptPaths'[h] = h
  PROVE  StoreSound'
<1>1. EnrichSound'
  BY EnrichKeeps DEF StoreSound
<1>2. query \in [Sessions -> QueryRecord]
  BY DEF StoreSound, SessionsTyped
<1>3. \A u \in Sessions : query'[u] = IF u = s THEN q ELSE query[u]
  BY <1>2
<1>4. SessionsTyped'
  <2>1. query' \in [Sessions -> QueryRecord]
    BY <1>2
  <2> QED BY <2>1 DEF SessionsTyped
<1> HIDE DEF NoGraph, NoHash
<1>5. \A u \in Sessions, r \in StoreRuns :
          /\ graphCache'[u][r] # NoGraph => HasHops(r) /\ DOMAIN graphCache'[u][r] = DOMAIN written[r]
          /\ hashCache'[u][r] # NoHash => HasHops(r) /\ hashCache'[u][r] = DOMAIN written[r]
  <2> SUFFICES ASSUME NEW u \in Sessions, NEW r \in StoreRuns
               PROVE  /\ graphCache'[u][r] # NoGraph => HasHops(r) /\ DOMAIN graphCache'[u][r] = DOMAIN written[r]
                      /\ hashCache'[u][r] # NoHash => HasHops(r) /\ hashCache'[u][r] = DOMAIN written[r]
    OBVIOUS
  <2>1. /\ graphCache[u][r] # NoGraph => HasHops(r) /\ DOMAIN graphCache[u][r] = DOMAIN written[r]
        /\ hashCache[u][r] # NoHash => HasHops(r) /\ hashCache[u][r] = DOMAIN written[r]
    BY DEF StoreSound, SessionsSound
  <2>2. /\ \/ graphCache'[u][r] \in {graphCache[u][r], NoGraph}
           \/ HasHops(r) /\ DOMAIN graphCache'[u][r] = DOMAIN written[r]
        /\ \/ hashCache'[u][r] \in {hashCache[u][r], NoHash}
           \/ HasHops(r) /\ hashCache'[u][r] = DOMAIN written[r]
    OBVIOUS
  <2> QED BY <2>1, <2>2
<1>6. \A h \in SUBSET StoreHops : keptPaths'[h] # NoGraph => DOMAIN keptPaths'[h] = h
  <2>1. \A h \in SUBSET StoreHops : keptPaths[h] # NoGraph => DOMAIN keptPaths[h] = h
    BY DEF StoreSound, SessionsSound
  <2> QED BY <2>1
<1>7. \A u \in Sessions : query'[u].pc # "idle" =>
          /\ query'[u].run \in StoreRuns /\ HasHops(query'[u].run)
          /\ query'[u].pc \in {"paths", "graph"} => query'[u].hash = DOMAIN written[query'[u].run]
          /\ query'[u].pc = "answered" => DOMAIN query'[u].shows = DOMAIN written[query'[u].run]
  <2>1. \A u \in Sessions : query[u].pc # "idle" =>
          /\ query[u].run \in StoreRuns /\ HasHops(query[u].run)
          /\ query[u].pc \in {"paths", "graph"} => query[u].hash = DOMAIN written[query[u].run]
          /\ query[u].pc = "answered" => DOMAIN query[u].shows = DOMAIN written[query[u].run]
    BY DEF StoreSound, SessionsSound
  <2> QED BY <1>3, <2>1
<1>8. written' = written /\ stage' = stage
  OBVIOUS
<1>9. SessionsSound'
  BY <1>5, <1>6, <1>7, <1>8 DEF SessionsSound, HasHops
<1> QED BY <1>1, <1>4, <1>9 DEF StoreSound

\* What a session's record is before it moves.
LEMMA SessionRecord ==
  ASSUME StoreSound, NEW s \in Sessions
  PROVE  /\ query[s] \in QueryRecord
         /\ graphCache \in [Sessions -> [StoreRuns -> Graphs \union {NoGraph}]]
         /\ hashCache \in [Sessions -> [StoreRuns -> (SUBSET StoreHops) \union {NoHash}]]
         /\ keptPaths \in [SUBSET StoreHops -> Graphs \union {NoGraph}]
         /\ query[s].pc # "idle" =>
               /\ query[s].run \in StoreRuns /\ HasHops(query[s].run)
               /\ DOMAIN written[query[s].run] \in SUBSET StoreHops
               /\ written[query[s].run] \in Graphs
               /\ query[s].pc \in {"paths", "graph"} => query[s].hash = DOMAIN written[query[s].run]
               /\ query[s].pc = "answered" => DOMAIN query[s].shows = DOMAIN written[query[s].run]
<1>1. /\ query[s] \in QueryRecord
      /\ graphCache \in [Sessions -> [StoreRuns -> Graphs \union {NoGraph}]]
      /\ hashCache \in [Sessions -> [StoreRuns -> (SUBSET StoreHops) \union {NoHash}]]
      /\ keptPaths \in [SUBSET StoreHops -> Graphs \union {NoGraph}]
  BY DEF StoreSound, SessionsTyped
<1>2. query[s].pc # "idle" =>
               /\ query[s].run \in StoreRuns /\ HasHops(query[s].run)
               /\ query[s].pc \in {"paths", "graph"} => query[s].hash = DOMAIN written[query[s].run]
               /\ query[s].pc = "answered" => DOMAIN query[s].shows = DOMAIN written[query[s].run]
  BY DEF StoreSound, SessionsSound
<1>3. \A r \in StoreRuns : HasHops(r) => written[r] \in Graphs
  BY DEF StoreSound, EnrichSound, HopsSound
<1>4. \A g \in Graphs : DOMAIN g \in SUBSET StoreHops
  BY GraphFacts
<1> QED BY <1>1, <1>2, <1>3, <1>4

LEMMA FreshQuery == NoQuery \in QueryRecord /\ NoQuery.pc = "idle"
BY DEF NoQuery, QueryRecord

LEMMA RunAsked ==
  ASSUME StoreSound, NEW s \in Sessions, NEW r \in StoreRuns, NEW cached \in BOOLEAN, AskRun(s, r, cached)
  PROVE  StoreSound'
<1> DEFINE q == [NoQuery EXCEPT !.pc = "hash", !.run = r, !.cached = cached]
<1>1. query' = [query EXCEPT ![s] = q] /\ UNCHANGED <<written, stage, enrichVars>> /\ r \in InTable
  BY DEF AskRun, QueryStep
<1>2. UNCHANGED <<graphCache, hashCache, keptPaths>>
  BY DEF AskRun
<1>3. q \in QueryRecord /\ q.pc = "hash" /\ q.run = r
  BY DEF NoQuery, QueryRecord
<1> HIDE DEF q
<1>4. HasHops(r)
  BY <1>1 DEF InTable, StoreSound, EnrichSound, HopsSound
<1> QED BY <1>1, <1>2, <1>3, <1>4, SessionRecord, SessionMoves

LEMMA HashComputed ==
  ASSUME StoreSound, NEW s \in Sessions, VersionHash(s)
  PROVE  StoreSound'
<1> DEFINE r == query[s].run
           h == HashOf(s, r)
           pc == IF query[s].cached THEN "paths" ELSE "graph"
           q == [query[s] EXCEPT !.pc = pc, !.hash = h]
<1>1. /\ query[s].pc = "hash" /\ query' = [query EXCEPT ![s] = q] /\ UNCHANGED <<written, stage, enrichVars>>
      /\ hashCache' = [hashCache EXCEPT ![s][r] = h] /\ UNCHANGED <<graphCache, keptPaths>>
  BY DEF VersionHash, QueryStep
<1>2. /\ query[s] \in QueryRecord /\ r \in StoreRuns /\ HasHops(r)
      /\ DOMAIN written[r] \in SUBSET StoreHops
  BY <1>1, SessionRecord
<1>3. h = DOMAIN written[r]
  BY <1>2 DEF HashOf, StoreSound, SessionsSound
<1>4. pc \in {"paths", "graph"}
  OBVIOUS
<1> HIDE DEF pc, h
<1>5. q \in QueryRecord /\ q.pc = pc /\ q.hash = h /\ q.run = r
  BY <1>2, <1>3, <1>4 DEF QueryRecord
<1>6. hashCache \in [Sessions -> [StoreRuns -> (SUBSET StoreHops) \union {NoHash}]]
  BY SessionRecord
<1> HIDE DEF q, r
<1>7. /\ hashCache' \in [Sessions -> [StoreRuns -> (SUBSET StoreHops) \union {NoHash}]]
      /\ \A u \in Sessions, p \in StoreRuns :
            hashCache'[u][p] = IF u = s /\ p = r THEN h ELSE hashCache[u][p]
  BY <1>1, <1>2, <1>3, <1>6
<1>8. /\ graphCache' \in [Sessions -> [StoreRuns -> Graphs \union {NoGraph}]]
      /\ keptPaths' \in [SUBSET StoreHops -> Graphs \union {NoGraph}]
  BY <1>1, SessionRecord
<1>9. \A u \in Sessions, p \in StoreRuns :
         \/ hashCache'[u][p] \in {hashCache[u][p], NoHash}
         \/ HasHops(p) /\ hashCache'[u][p] = DOMAIN written[p]
  BY <1>2, <1>3, <1>7
<1> QED BY <1>1, <1>2, <1>3, <1>4, <1>5, <1>7, <1>8, <1>9, SessionMoves

LEMMA PathsRead ==
  ASSUME StoreSound, NEW s \in Sessions, ReadPathCache(s)
  PROVE  StoreSound'
<1> DEFINE cachedPaths == keptPaths[query[s].hash]
           q1 == [query[s] EXCEPT !.pc = "graph"]
           q2 == [query[s] EXCEPT !.pc = "answered", !.shows = cachedPaths]
<1>1. /\ query[s].pc = "paths" /\ UNCHANGED <<written, stage, enrichVars>>
      /\ query' = [query EXCEPT ![s] = IF cachedPaths = NoGraph THEN q1 ELSE q2]
      /\ UNCHANGED <<graphCache, hashCache, keptPaths>>
  BY DEF ReadPathCache, QueryStep
<1>2. /\ query[s] \in QueryRecord /\ query[s].run \in StoreRuns /\ HasHops(query[s].run)
      /\ query[s].hash = DOMAIN written[query[s].run] /\ query[s].hash \in SUBSET StoreHops
  BY <1>1, SessionRecord
<1>3. cachedPaths \in Graphs \union {NoGraph} /\ (cachedPaths # NoGraph => DOMAIN cachedPaths = query[s].hash)
  BY <1>2, SessionRecord DEF StoreSound, SessionsSound
<1> HIDE DEF cachedPaths
<1>4. q1 \in QueryRecord /\ q1.pc = "graph" /\ q1.hash = query[s].hash /\ q1.run = query[s].run
  BY <1>2 DEF QueryRecord
<1>5. q2 \in QueryRecord /\ q2.pc = "answered" /\ q2.run = query[s].run /\ q2.shows = cachedPaths
  BY <1>2, <1>3 DEF QueryRecord
<1>6. /\ graphCache' \in [Sessions -> [StoreRuns -> Graphs \union {NoGraph}]]
      /\ hashCache' \in [Sessions -> [StoreRuns -> (SUBSET StoreHops) \union {NoHash}]]
      /\ keptPaths' \in [SUBSET StoreHops -> Graphs \union {NoGraph}]
  BY <1>1, SessionRecord
<1> HIDE DEF q1, q2
<1>7. CASE cachedPaths = NoGraph
  <2>1. query' = [query EXCEPT ![s] = q1]
    BY <1>1, <1>7
  <2>2. /\ q1.run \in StoreRuns /\ HasHops(q1.run) /\ q1.hash = DOMAIN written[q1.run]
        /\ q1.pc # "answered"
    BY <1>2, <1>4
  <2> QED BY <1>1, <1>4, <1>6, <2>1, <2>2, SessionMoves
<1>8. CASE cachedPaths # NoGraph
  <2>1. query' = [query EXCEPT ![s] = q2]
    BY <1>1, <1>8
  <2>2. /\ q2.run \in StoreRuns /\ HasHops(q2.run) /\ DOMAIN q2.shows = DOMAIN written[q2.run]
        /\ q2.pc \notin {"paths", "graph"}
    BY <1>2, <1>3, <1>5, <1>8
  <2> QED BY <1>1, <1>5, <1>6, <2>1, <2>2, SessionMoves
<1> QED BY <1>7, <1>8

LEMMA GraphSearched ==
  ASSUME StoreSound, NEW s \in Sessions, SearchGraph(s)
  PROVE  StoreSound'
<1> DEFINE r == query[s].run
           g == IF graphCache[s][r] # NoGraph THEN graphCache[s][r] ELSE written[r]
           h == query[s].hash
           q == [query[s] EXCEPT !.pc = "answered", !.shows = g]
<1>1. /\ query[s].pc = "graph" /\ query' = [query EXCEPT ![s] = q] /\ UNCHANGED <<written, stage, enrichVars>>
      /\ graphCache' = [graphCache EXCEPT ![s][r] = g]
      /\ keptPaths' = IF query[s].cached THEN [keptPaths EXCEPT ![h] = g] ELSE keptPaths
      /\ UNCHANGED hashCache
  BY DEF SearchGraph, QueryStep
<1>2. /\ query[s] \in QueryRecord /\ r \in StoreRuns /\ HasHops(r) /\ h = DOMAIN written[r]
      /\ h \in SUBSET StoreHops /\ written[r] \in Graphs
  BY <1>1, SessionRecord
<1>3. g \in Graphs \union {NoGraph} /\ DOMAIN g = h
  BY <1>2, SessionRecord DEF StoreSound, SessionsSound
<1> HIDE DEF g
<1>4. q \in QueryRecord /\ q.pc = "answered" /\ q.run = r /\ q.shows = g
  BY <1>2, <1>3 DEF QueryRecord
<1> HIDE DEF q, h, r
<1>5. /\ graphCache \in [Sessions -> [StoreRuns -> Graphs \union {NoGraph}]]
      /\ hashCache' \in [Sessions -> [StoreRuns -> (SUBSET StoreHops) \union {NoHash}]]
      /\ keptPaths \in [SUBSET StoreHops -> Graphs \union {NoGraph}]
  BY <1>1, SessionRecord
<1>6. /\ graphCache' \in [Sessions -> [StoreRuns -> Graphs \union {NoGraph}]]
      /\ \A u \in Sessions, p \in StoreRuns :
            graphCache'[u][p] = IF u = s /\ p = r THEN g ELSE graphCache[u][p]
  BY <1>1, <1>2, <1>3, <1>5
<1>7. /\ keptPaths' \in [SUBSET StoreHops -> Graphs \union {NoGraph}]
      /\ \A k \in SUBSET StoreHops : keptPaths'[k] = keptPaths[k] \/ DOMAIN keptPaths'[k] = k
  <2>1. CASE keptPaths' = keptPaths
    BY <1>5, <2>1
  <2>2. CASE keptPaths' = [keptPaths EXCEPT ![h] = g]
    <3>1. \A k \in SUBSET StoreHops : keptPaths'[k] = IF k = h THEN g ELSE keptPaths[k]
      BY <1>2, <1>5, <2>2
    <3> QED BY <1>2, <1>3, <1>5, <2>2, <3>1
  <2> QED BY <1>1, <2>1, <2>2
<1>8. \A u \in Sessions, p \in StoreRuns :
         \/ graphCache'[u][p] \in {graphCache[u][p], NoGraph}
         \/ HasHops(p) /\ DOMAIN graphCache'[u][p] = DOMAIN written[p]
  BY <1>2, <1>3, <1>6
<1>9. DOMAIN q.shows = DOMAIN written[q.run]
  BY <1>2, <1>3, <1>4
<1> QED BY <1>1, <1>2, <1>4, <1>5, <1>6, <1>7, <1>8, <1>9, SessionMoves

LEMMA QueryEnds ==
  ASSUME StoreSound, NEW s \in Sessions, EndQuery(s) \/ InvalidateGraphs(s)
  PROVE  StoreSound'
<1>1. query' = [query EXCEPT ![s] = NoQuery] /\ UNCHANGED <<written, stage, enrichVars>>
  BY DEF EndQuery, InvalidateGraphs, QueryStep
<1>2. /\ graphCache \in [Sessions -> [StoreRuns -> Graphs \union {NoGraph}]]
      /\ hashCache \in [Sessions -> [StoreRuns -> (SUBSET StoreHops) \union {NoHash}]]
      /\ keptPaths \in [SUBSET StoreHops -> Graphs \union {NoGraph}]
  BY SessionRecord
<1>3. CASE EndQuery(s)
  <2>1. UNCHANGED <<graphCache, hashCache, keptPaths>>
    BY <1>3 DEF EndQuery
  <2> QED BY <1>1, <1>2, <2>1, FreshQuery, SessionMoves
<1>4. CASE InvalidateGraphs(s)
  <2>1. /\ graphCache' = [graphCache EXCEPT ![s] = [r \in StoreRuns |-> NoGraph]]
        /\ hashCache' = [hashCache EXCEPT ![s] = [r \in StoreRuns |-> NoHash]]
        /\ UNCHANGED keptPaths
    BY <1>4 DEF InvalidateGraphs
  <2> HIDE DEF NoGraph, NoHash
  <2>2. /\ graphCache' \in [Sessions -> [StoreRuns -> Graphs \union {NoGraph}]]
        /\ hashCache' \in [Sessions -> [StoreRuns -> (SUBSET StoreHops) \union {NoHash}]]
        /\ keptPaths' \in [SUBSET StoreHops -> Graphs \union {NoGraph}]
    BY <1>2, <2>1
  <2>3. \A u \in Sessions, p \in StoreRuns :
           /\ graphCache'[u][p] = IF u = s THEN NoGraph ELSE graphCache[u][p]
           /\ hashCache'[u][p] = IF u = s THEN NoHash ELSE hashCache[u][p]
    BY <1>2, <2>1
  <2> QED BY <1>1, <2>1, <2>2, <2>3, FreshQuery, SessionMoves
<1> QED BY <1>3, <1>4

-----------------------------------------------------------------------------
LEMMA StoreStarts == StoreInit => StoreSound
<1> SUFFICES ASSUME StoreInit PROVE StoreSound
  OBVIOUS
<1> HIDE DEF NoGraph, NoHash
<1>1. /\ written = [r \in StoreRuns |-> NoGraph] /\ stage = [r \in StoreRuns |-> "new"]
      /\ pending = [r \in StoreRuns |-> {}] /\ translations = [e \in Exprs |-> "none"]
      /\ paid = [e \in Exprs |-> 0] /\ overlapped = {}
      /\ graphCache = [s \in Sessions |-> [r \in StoreRuns |-> NoGraph]]
      /\ hashCache = [s \in Sessions |-> [r \in StoreRuns |-> NoHash]]
      /\ keptPaths = [h \in SUBSET StoreHops |-> NoGraph]
      /\ query = [s \in Sessions |-> NoQuery]
  BY DEF StoreInit
<1>2. EnrichTyped
  <2>1. "new" \in Stages
    BY DEF Stages
  <2> QED BY <1>1, <2>1 DEF EnrichTyped
<1>3. HopsSound
  BY <1>1 DEF HopsSound, HasHops
<1>4. AskedAlone
  BY <1>1 DEF AskedAlone
<1>5. \A e \in Exprs : PaidFor(e) /\ paid[e] <= Cardinality({r \in StoreRuns : HasAsked(r)})
  <2>1. {r \in StoreRuns : HasAsked(r)} = {}
    BY <1>1 DEF HasAsked
  <2>2. Cardinality({r \in StoreRuns : HasAsked(r)}) = 0
    BY <2>1, FS_EmptySet
  <2> QED BY <1>1, <2>2 DEF PaidFor
<1>6. SessionsTyped
  BY <1>1, FreshQuery DEF SessionsTyped
<1>7. SessionsSound
  BY <1>1, FreshQuery DEF SessionsSound
<1> QED BY <1>2, <1>3, <1>4, <1>5, <1>6, <1>7 DEF StoreSound, EnrichSound

LEMMA StoreSteps == StoreSound /\ [StoreNext]_storeVars => StoreSound'
<1> SUFFICES ASSUME StoreSound, [StoreNext]_storeVars PROVE StoreSound'
  OBVIOUS
<1>1. ASSUME NEW r \in StoreRuns,
             \/ ClearHops(r) \/ InsertHops(r) \/ AskTranslations(r)
             \/ KeepTranslations(r) \/ Backfill(r) \/ EnrichFails(r)
      PROVE  StoreSound'
  BY <1>1, HopsCleared, HopsInserted, TranslationsAsked, TranslationsKept, HopsBackfilled, EnrichFailed
<1>2. ASSUME NEW s \in Sessions, NEW r \in StoreRuns, NEW cached \in BOOLEAN, AskRun(s, r, cached)
      PROVE  StoreSound'
  BY <1>2, RunAsked
<1>3. ASSUME NEW s \in Sessions,
             VersionHash(s) \/ ReadPathCache(s) \/ SearchGraph(s) \/ EndQuery(s) \/ InvalidateGraphs(s)
      PROVE  StoreSound'
  BY <1>3, HashComputed, PathsRead, GraphSearched, QueryEnds
<1>4. CASE UNCHANGED storeVars
  <2>1. UNCHANGED <<written, stage, enrichVars>> /\ UNCHANGED sessionVars
    BY <1>4 DEF storeVars, enrichVars, sessionVars
  <2>2. EnrichSound'
    BY <2>1, EnrichKeeps DEF StoreSound
  <2>3. \A r \in StoreRuns : HasHops(r) => HasHops(r)' /\ DOMAIN written'[r] = DOMAIN written[r]
    BY <2>1 DEF HasHops
  <2>4. SessionsTyped' /\ SessionsSound'
    BY <2>1, <2>3, SessionsKeep DEF StoreSound
  <2> QED BY <2>2, <2>4 DEF StoreSound
<1> QED BY <1>1, <1>2, <1>3, <1>4 DEF StoreNext

LEMMA StoreStaysSound == StoreSpec => []StoreSound
<1> QED BY StoreStarts, StoreSteps, PTL DEF StoreSpec

\* The types of SublineageStore hold, for any number of runs, hops and sessions.
THEOREM StoreTypeCorrect == StoreSpec => []StoreTypeOK
<1>1. StoreSound => StoreTypeOK
  <2> SUFFICES ASSUME StoreSound PROVE StoreTypeOK
    OBVIOUS
  <2>1. paid \in [Exprs -> 0..Cardinality(StoreRuns)]
    <3> DEFINE A == {r \in StoreRuns : HasAsked(r)}
    <3>1. Cardinality(A) <= Cardinality(StoreRuns) /\ Cardinality(A) \in Nat /\ Cardinality(StoreRuns) \in Nat
      BY StoreAssumption, FS_Subset, FS_CardinalityType
    <3>2. paid \in [Exprs -> Nat] /\ \A e \in Exprs : paid[e] <= Cardinality(A)
      BY DEF StoreSound, EnrichSound, EnrichTyped
    <3> HIDE DEF A
    <3>3. \A e \in Exprs : paid[e] \in 0..Cardinality(StoreRuns)
      BY <3>1, <3>2
    <3> QED BY <3>2, <3>3
  <2> QED BY <2>1 DEF StoreTypeOK, StoreSound, EnrichSound, EnrichTyped, SessionsTyped, QueryRecord
<1> QED BY <1>1, StoreStaysSound, PTL

\* What sessions and runs share (expression_enricher.py, api.py, cache_keys.py): the LLM
\* is paid once for an expression unless two enrichments overlap or one fails, a run
\* whose enrichment ended shows every translation that was there, and an answer has the
\* hops of the run it names, for any number of runs, hops, expressions and sessions.
THEOREM SharedRightHolds == StoreSpec => []SharedRight
<1>1. StoreSound => SharedRight
  <2> SUFFICES ASSUME StoreSound PROVE SharedRight
    OBVIOUS
  <2>1. TranslatedOnce
    <3>1. \A e \in Exprs : PaidFor(e) /\ paid[e] \in Nat
      BY DEF StoreSound, EnrichSound, EnrichTyped
    <3> QED BY <3>1 DEF TranslatedOnce, PaidFor
  <2>2. BackfilledAll
    <3> SUFFICES ASSUME NEW r \in StoreRuns, stage[r] = "enriched", NEW h \in DOMAIN written[r]
                 PROVE  /\ written[r][h].sql => translations[written[r][h].expr] = "sql"
                        /\ translations[written[r][h].expr] = "sql"
                           /\ written[r][h].expr \notin overlapped => written[r][h].sql
      BY DEF BackfilledAll
    <3>1. HopSound(r, written[r][h])
      BY DEF StoreSound, EnrichSound, HopsSound, HasHops
    <3> QED BY <3>1 DEF HopSound
  <2>3. AnswersTheRun
    BY DEF StoreSound, SessionsSound, AnswersTheRun
  <2> QED BY <2>1, <2>2, <2>3 DEF SharedRight
<1> QED BY <1>1, StoreStaysSound, PTL

-----------------------------------------------------------------------------
(***************************************************************************)
(* Extraction: of the entities that were read some are still ahead, or      *)
(* something was brought or said.                                          *)
(***************************************************************************)
Phases == {"idle", "definition", "covered", "jobs", "resolve", "notebooks", "dlts", "history", "dedupe", "done"}
FoundRecord == [jobs : SUBSET JobRuns, notebooks : SUBSET Notebooks, dlts : SUBSET Dlts, covered : BOOLEAN]

\* The types of ExtractTypeOK, with sequences as sequences.
ExtractTyped ==
    /\ phase \in Phases /\ found \in FoundRecord
    /\ waiting \subseteq JobRuns \union Notebooks \union Dlts
    /\ artifacts \in Seq(Tags) /\ kept \in Seq(Tags)
    /\ reasons \in [Reasons -> Nat]
    /\ report \in [attempted : Nat, extracted : Nat]
    /\ pathCache \in [Notebooks -> Nat] /\ \A n \in Notebooks : pathCache[n] \in 0..Len(PathsOf[n])

\* The entities that were read, and whether something was brought or said.
Entities == found.jobs \union found.notebooks \union found.dlts
Said == artifacts # << >> \/ \E r \in Reasons : reasons[r] > 0

\* What is owed for the entities, and what the phase ends with.
Accounted ==
    /\ phase \in {"idle", "definition", "covered"} => found.notebooks = {} /\ found.dlts = {}
    /\ phase \in {"jobs", "notebooks", "dlts"} => Said \/ waiting # {} \/ Entities = {}
    /\ phase \in {"resolve", "history"} => Said \/ Entities = {}
    /\ phase \in {"dedupe", "done"} => Said \/ CoveredByNobody

\* The inductive invariant.
ExtractSound ==
    /\ ExtractTyped /\ Len(artifacts) = report.extracted
    /\ Accounted /\ ExtractionAccounts

-----------------------------------------------------------------------------
\* How many members of F are smaller than i, and that F is listed by it.
Below(F, i) == Cardinality({k \in F : k < i})

LEMMA Listed ==
  ASSUME NEW F \in SUBSET Nat, IsFiniteSet(F)
  PROVE  /\ Cardinality(F) \in Nat
         /\ \A i \in F : Below(F, i) \in 0..Cardinality(F) - 1
         /\ \A i, j \in F : Below(F, i) = Below(F, j) => i = j
         /\ \A n \in 1..Cardinality(F) : \E i \in F : Below(F, i) = n - 1
<1> DEFINE smaller(i) == {k \in F : k < i}
           c == Cardinality(F)
<1>1. c \in Nat
  BY FS_CardinalityType
<1>2. \A i \in F : IsFiniteSet(smaller(i)) /\ Cardinality(smaller(i)) \in Nat
  <2> SUFFICES ASSUME NEW i \in F PROVE IsFiniteSet(smaller(i)) /\ Cardinality(smaller(i)) \in Nat
    OBVIOUS
  <2>1. smaller(i) \in SUBSET F
    OBVIOUS
  <2> HIDE DEF smaller
  <2>2. IsFiniteSet(smaller(i))
    BY <2>1, FS_Subset
  <2> QED BY <2>2, FS_CardinalityType
<1>3. ASSUME NEW i \in F, NEW j \in F, i < j
      PROVE  Cardinality(smaller(i)) < Cardinality(smaller(j))
  <2>1. smaller(i) \in SUBSET smaller(j) /\ i \in smaller(j) /\ i \notin smaller(i)
    <3>1. i \in Nat /\ j \in Nat /\ \A k \in F : k \in Nat
      OBVIOUS
    <3>2. \A k \in F : k < i => k < j
      BY <1>3, <3>1
    <3>3. ~ (i < i)
      BY <3>1
    <3> QED BY <1>3, <3>2, <3>3
  <2> HIDE DEF smaller
  <2>2. IsFiniteSet(smaller(j)) /\ Cardinality(smaller(i)) \in Nat /\ Cardinality(smaller(j)) \in Nat
    BY <1>2
  <2>3. Cardinality(smaller(i)) <= Cardinality(smaller(j)) /\ Cardinality(smaller(i)) # Cardinality(smaller(j))
    BY <2>1, <2>2, FS_Subset
  <2> QED BY <2>2, <2>3
<1>4. \A i, j \in F : Cardinality(smaller(i)) = Cardinality(smaller(j)) => i = j
  <2> SUFFICES ASSUME NEW i \in F, NEW j \in F, Cardinality(smaller(i)) = Cardinality(smaller(j)), i # j
               PROVE  FALSE
    OBVIOUS
  <2> HIDE DEF smaller
  <2>1. i < j \/ j < i
    OBVIOUS
  <2>2. Cardinality(smaller(i)) \in Nat /\ Cardinality(smaller(j)) \in Nat
    BY <1>2
  <2> QED BY <1>3, <2>1, <2>2
<1>5. \A i \in F : Cardinality(smaller(i)) \in 0..c - 1
  <2> SUFFICES ASSUME NEW i \in F PROVE Cardinality(smaller(i)) \in 0..c - 1
    OBVIOUS
  <2>1. smaller(i) \in SUBSET F /\ i \notin smaller(i)
    OBVIOUS
  <2> HIDE DEF smaller
  <2>2. Cardinality(smaller(i)) <= c /\ Cardinality(smaller(i)) # c /\ Cardinality(smaller(i)) \in Nat
    BY <1>2, <2>1, FS_Subset
  <2> QED BY <1>1, <2>2
<1> DEFINE rank == [i \in F |-> Cardinality(smaller(i))]
<1>6. rank \in Injection(F, 0..c - 1)
  <2>1. rank \in [F -> 0..c - 1]
    BY <1>5
  <2>2. \A i \in F : rank[i] = Cardinality(smaller(i))
    OBVIOUS
  <2>3. DOMAIN rank = F
    OBVIOUS
  <2> HIDE DEF rank, smaller
  <2> QED BY <1>4, <2>1, <2>2, <2>3 DEF Injection, IsInjective
<1>7. IsFiniteSet(0..c - 1) /\ Cardinality(0..c - 1) = c
  <2>1. 0 \in Int /\ c - 1 \in Int /\ (0 > c - 1 <=> c = 0) /\ c - 1 - 0 + 1 = c
    BY <1>1
  <2> QED BY <1>1, <2>1, FS_Interval
<1>8. \A n \in 1..c : \E i \in F : Cardinality(smaller(i)) = n - 1
  <2> HIDE DEF rank
  <2>1. rank \in Surjection(F, 0..c - 1)
    BY <1>6, <1>7, FS_Injection
  <2> SUFFICES ASSUME NEW n \in 1..c PROVE \E i \in F : Cardinality(smaller(i)) = n - 1
    OBVIOUS
  <2>2. n - 1 \in 0..c - 1
    BY <1>1
  <2>3. PICK i \in F : rank[i] = n - 1
    BY <2>1, <2>2 DEF Surjection
  <2> QED BY <2>3 DEF rank
<1> QED BY <1>1, <1>4, <1>5, <1>8 DEF Below

-----------------------------------------------------------------------------
\* dedupe_extractions: the first artifacts of each tag, in their order.
LEMMA FirstsKept ==
  ASSUME artifacts \in Seq(Tags), Dedupe
  PROVE  /\ kept' \in Seq(Tags)
         /\ {kept'[i] : i \in DOMAIN kept'} = {artifacts[i] : i \in DOMAIN artifacts}
         /\ \A i, k \in DOMAIN kept' : i # k => kept'[i] # kept'[k]
<1> DEFINE firsts == {i \in DOMAIN artifacts : FirstAt(i)}
           nth(n) == CHOOSE i \in firsts : Cardinality({k \in firsts : k < i}) = n - 1
<1>1. kept' = [n \in 1..Cardinality(firsts) |-> artifacts[nth(n)]]
  BY DEF Dedupe
<1>2. DOMAIN artifacts = 1..Len(artifacts) /\ Len(artifacts) \in Nat /\ \A i \in DOMAIN artifacts : artifacts[i] \in Tags
  BY LenProperties, ElementOfSeq
<1>3. firsts \in SUBSET Nat /\ IsFiniteSet(firsts) /\ firsts \subseteq DOMAIN artifacts
  <2>1. IsFiniteSet(1..Len(artifacts))
    BY <1>2, FS_Interval
  <2>2. firsts \in SUBSET (1..Len(artifacts))
    BY <1>2
  <2>3. firsts \subseteq DOMAIN artifacts
    OBVIOUS
  <2> HIDE DEF firsts
  <2>4. IsFiniteSet(firsts)
    BY <2>1, <2>2, FS_Subset
  <2> QED BY <1>2, <2>2, <2>3, <2>4
<1> DEFINE c == Cardinality(firsts)
<1>4. \A i, j \in firsts : artifacts[i] = artifacts[j] => i = j
  <2> SUFFICES ASSUME NEW i \in firsts, NEW j \in firsts, artifacts[i] = artifacts[j], i < j PROVE FALSE
    BY <1>3
  <2>1. i \in 1..j - 1
    BY <1>2
  <2> QED BY <2>1 DEF FirstAt
<1>5. \A i \in DOMAIN artifacts : \E j \in firsts : artifacts[j] = artifacts[i]
  <2> SUFFICES ASSUME NEW i \in DOMAIN artifacts PROVE \E j \in firsts : artifacts[j] = artifacts[i]
    OBVIOUS
  <2> DEFINE S == {j \in DOMAIN artifacts : artifacts[j] = artifacts[i]}
  <2>1. S \in SUBSET Nat /\ S # {}
    BY <1>2
  <2>2. PICK j \in S : \A m \in S : j <= m
    BY <2>1, SmallestOf
  <2>3. ASSUME NEW k \in 1..j - 1 PROVE artifacts[k] # artifacts[j]
    <3>1. k \in DOMAIN artifacts /\ k \in Nat /\ j \in Nat /\ k < j
      BY <1>2, <2>2
    <3>2. k \notin S
      BY <2>2, <3>1
    <3> QED BY <2>2, <3>1, <3>2
  <2> QED BY <2>2, <2>3 DEF FirstAt
<1> HIDE DEF firsts
<1>6. /\ c \in Nat
      /\ \A i \in firsts : Below(firsts, i) \in 0..c - 1
      /\ \A n \in 1..c : \E i \in firsts : Below(firsts, i) = n - 1
      /\ \A i, j \in firsts : Below(firsts, i) = Below(firsts, j) => i = j
  BY <1>3, Listed
<1>7. \A n \in 1..c : nth(n) \in firsts /\ Below(firsts, nth(n)) = n - 1
  <2> SUFFICES ASSUME NEW n \in 1..c PROVE nth(n) \in firsts /\ Below(firsts, nth(n)) = n - 1
    OBVIOUS
  <2>1. \E i \in firsts : Cardinality({k \in firsts : k < i}) = n - 1
    BY <1>6 DEF Below
  <2>2. nth(n) \in firsts /\ Cardinality({k \in firsts : k < nth(n)}) = n - 1
    BY <2>1, Zenon
  <2> QED BY <2>2 DEF Below
<1> HIDE DEF nth
<1>8. DOMAIN kept' = 1..c /\ \A n \in 1..c : kept'[n] = artifacts[nth(n)]
  BY <1>1
<1>9. kept' \in Seq(Tags)
  <2>1. \A n \in 1..c : artifacts[nth(n)] \in Tags
    BY <1>2, <1>3, <1>7
  <2> QED BY <1>1, <1>6, <2>1
<1>10. \A i, k \in 1..c : i # k => kept'[i] # kept'[k]
  <2> SUFFICES ASSUME NEW i \in 1..c, NEW k \in 1..c, kept'[i] = kept'[k] PROVE i = k
    OBVIOUS
  <2>1. nth(i) = nth(k)
    BY <1>4, <1>7, <1>8
  <2>2. i - 1 = k - 1
    BY <1>7, <2>1
  <2> QED BY <2>2
<1>11. \A n \in 1..c : \E i \in DOMAIN artifacts : kept'[n] = artifacts[i]
  BY <1>3, <1>7, <1>8
<1>12. \A i \in DOMAIN artifacts : \E n \in 1..c : kept'[n] = artifacts[i]
  <2> SUFFICES ASSUME NEW i \in DOMAIN artifacts PROVE \E n \in 1..c : kept'[n] = artifacts[i]
    OBVIOUS
  <2>1. PICK j \in firsts : artifacts[j] = artifacts[i]
    BY <1>5
  <2> DEFINE n == Below(firsts, j) + 1
  <2>2. n \in 1..c /\ Below(firsts, j) = n - 1
    BY <1>6
  <2> HIDE DEF n
  <2>3. nth(n) = j
    BY <1>6, <1>7, <2>2
  <2> QED BY <1>8, <2>1, <2>2, <2>3
<1> QED BY <1>8, <1>9, <1>10, <1>11, <1>12

-----------------------------------------------------------------------------
\* The texts of one future: a sequence of its tags, and no empty one among those that
\* count as brought.
LEMMA TextsAreTags ==
  ASSUME NEW tags \in SUBSET Tags, IsFiniteSet(tags), NEW s \in Texts(tags) \ {<< >>}
  PROVE  s \in Seq(Tags) /\ Len(s) \in Nat /\ Len(s) > 0
<1>1. Cardinality(tags) \in Nat
  BY FS_CardinalityType
<1>2. PICK n \in 0..Cardinality(tags) : s \in [1..n -> tags]
  BY DEF Texts
<1>3. s \in Seq(Tags)
  <2>1. n \in Nat /\ s \in [1..n -> Tags]
    BY <1>1, <1>2
  <2> QED BY <2>1
<1>4. s # << >>
  OBVIOUS
<1> QED BY <1>3, <1>4, EmptySeq

LEMMA TagsHold ==
  /\ \A j \in JobRuns : RunSources(j) \subseteq Tags
  /\ \A d \in Dlts : DltSources(d) \subseteq Tags
  /\ \A n \in Notebooks : Workspace(PathsOf[n][Len(PathsOf[n])]) \in Tags
  /\ Definition \in Tags /\ HistoryTag \in Tags
<1> DEFINE A == UNION {RunSources(j) : j \in JobRuns}
           B == UNION {DltSources(d) : d \in Dlts}
           C == {Workspace(PathsOf[n][Len(PathsOf[n])]) : n \in Notebooks}
<1>1. Tags = A \union B \union C \union {Definition, HistoryTag}
  BY Zenon DEF Tags
<1>2. \A j \in JobRuns : RunSources(j) \subseteq A
  BY Zenon
<1>3. \A d \in Dlts : DltSources(d) \subseteq B
  BY Zenon
<1>4. \A n \in Notebooks : Workspace(PathsOf[n][Len(PathsOf[n])]) \in C
  BY Zenon
<1> HIDE DEF A, B, C
<1>5. A \subseteq Tags /\ B \subseteq Tags /\ C \subseteq Tags /\ Definition \in Tags /\ HistoryTag \in Tags
  BY <1>1
<1> QED BY <1>2, <1>3, <1>4, <1>5

LEMMA SourcesFinite ==
  /\ \A j \in JobRuns : IsFiniteSet(RunSources(j)) /\ RunSources(j) \subseteq Tags
  /\ \A d \in Dlts : IsFiniteSet(DltSources(d)) /\ DltSources(d) \subseteq Tags
<1>1. ASSUME NEW j \in JobRuns PROVE IsFiniteSet(RunSources(j))
  <2> DEFINE read == {x \in TasksOf[j] : x.kind # "other" /\ x.path \notin Foreign}
             f == [t \in read |-> SourceOf(j, t)]
  <2>1. IsFiniteSet(read)
    <3>1. IsFiniteSet(TasksOf[j]) /\ read \in SUBSET TasksOf[j]
      BY ExtractionAssumption
    <3> HIDE DEF read
    <3> QED BY <3>1, FS_Subset
  <2>2. RunSources(j) = {SourceOf(j, t) : t \in read}
    BY DEF RunSources
  <2> HIDE DEF read
  <2>3. f \in Surjection(read, RunSources(j))
    BY <2>2, Zenon DEF Surjection
  <2> HIDE DEF f
  <2> QED BY <2>1, <2>3, FS_Surjection
<1>2. ASSUME NEW d \in Dlts PROVE IsFiniteSet(DltSources(d))
  <2> DEFINE read == LibrariesOf[d] \ Foreign
             f == [p \in read |-> Library(p)]
  <2>1. IsFiniteSet(read)
    <3>1. IsFiniteSet(LibrariesOf[d]) /\ read \in SUBSET LibrariesOf[d]
      BY ExtractionAssumption
    <3> HIDE DEF read
    <3> QED BY <3>1, FS_Subset
  <2>2. DltSources(d) = {Library(p) : p \in read}
    BY DEF DltSources
  <2> HIDE DEF read
  <2>3. f \in Surjection(read, DltSources(d))
    BY <2>2, Zenon DEF Surjection
  <2> HIDE DEF f
  <2> QED BY <2>1, <2>3, FS_Surjection
<1>3. \A j \in JobRuns : RunSources(j) \subseteq Tags
  BY TagsHold
<1>4. \A d \in Dlts : DltSources(d) \subseteq Tags
  BY TagsHold
<1> QED BY <1>1, <1>2, <1>3, <1>4

\* What a step that brings texts, and one that notes a reason, does to the account.
LEMMA Brought ==
  ASSUME ExtractTyped, Len(artifacts) = report.extracted, NEW s \in Seq(Tags), Len(s) \in Nat, Len(s) > 0,
         artifacts' = artifacts \o s, report'.extracted = report.extracted + Len(s)
  PROVE  artifacts' \in Seq(Tags) /\ Len(artifacts') = report'.extracted /\ artifacts' # << >>
<1>1. artifacts \in Seq(Tags) /\ Len(artifacts) \in Nat
  BY LenProperties DEF ExtractTyped
<1>2. artifacts' \in Seq(Tags) /\ Len(artifacts') = Len(artifacts) + Len(s)
  BY <1>1, ConcatProperties
<1>3. artifacts' # << >>
  BY <1>1, <1>2, EmptySeq
<1> QED BY <1>2, <1>3

LEMMA Noted ==
  ASSUME ExtractTyped, NEW r \in Reasons, Skip(r)
  PROVE  reasons' \in [Reasons -> Nat] /\ \E q \in Reasons : reasons'[q] > 0
<1>1. reasons \in [Reasons -> Nat] /\ reasons' = [reasons EXCEPT ![r] = @ + 1]
  BY DEF ExtractTyped, Skip
<1>2. reasons'[r] = reasons[r] + 1 /\ reasons[r] \in Nat
  BY <1>1
<1>3. reasons' \in [Reasons -> Nat]
  BY <1>1
<1> QED BY <1>2, <1>3

\* The last step of every action below: what it leaves and what it owes.
LEMMA StillSound ==
  ASSUME ExtractTyped', Len(artifacts') = report'.extracted, Accounted', phase' # "done"
  PROVE  ExtractSound'
BY DEF ExtractSound, ExtractionAccounts, EmptyIsExplained, KeptOnce

\* A future returned: the phase goes on, and something was brought or said.
LEMMA FutureSound ==
  ASSUME ExtractSound, phase \in {"jobs", "notebooks", "dlts"}, NEW w, waiting' = waiting \ {w},
         UNCHANGED <<phase, found, pathCache, kept>>,
         \/ \E s \in Seq(Tags) :
              /\ Len(s) \in Nat /\ Len(s) > 0 /\ artifacts' = artifacts \o s
              /\ report' = [attempted |-> report.attempted + 1, extracted |-> report.extracted + Len(s)]
              /\ UNCHANGED reasons
         \/ /\ \E r \in Reasons : Skip(r)
            /\ report' = [report EXCEPT !.attempted = @ + 1] /\ UNCHANGED artifacts
  PROVE  ExtractSound'
<1>1. ExtractTyped /\ Len(artifacts) = report.extracted
  BY DEF ExtractSound
<1>2. report \in [attempted : Nat, extracted : Nat]
  BY <1>1 DEF ExtractTyped
<1>3. /\ report' \in [attempted : Nat, extracted : Nat] /\ reasons' \in [Reasons -> Nat]
      /\ artifacts' \in Seq(Tags) /\ Len(artifacts') = report'.extracted /\ Said'
  <2>1. CASE \E s \in Seq(Tags) :
              /\ Len(s) \in Nat /\ Len(s) > 0 /\ artifacts' = artifacts \o s
              /\ report' = [attempted |-> report.attempted + 1, extracted |-> report.extracted + Len(s)]
              /\ UNCHANGED reasons
    <3>1. PICK s \in Seq(Tags) :
              /\ Len(s) \in Nat /\ Len(s) > 0 /\ artifacts' = artifacts \o s
              /\ report' = [attempted |-> report.attempted + 1, extracted |-> report.extracted + Len(s)]
              /\ UNCHANGED reasons
      BY <2>1
    <3>2. report' \in [attempted : Nat, extracted : Nat] /\ report'.extracted = report.extracted + Len(s)
      BY <1>2, <3>1
    <3>3. artifacts' \in Seq(Tags) /\ Len(artifacts') = report'.extracted /\ artifacts' # << >>
      BY <1>1, <3>1, <3>2, Brought
    <3> QED BY <1>1, <3>1, <3>2, <3>3 DEF ExtractTyped, Said
  <2>2. CASE /\ \E r \in Reasons : Skip(r)
             /\ report' = [report EXCEPT !.attempted = @ + 1] /\ UNCHANGED artifacts
    <3>1. reasons' \in [Reasons -> Nat] /\ \E q \in Reasons : reasons'[q] > 0
      BY <1>1, <2>2, Noted
    <3>2. report' \in [attempted : Nat, extracted : Nat] /\ report'.extracted = report.extracted
      BY <1>2, <2>2
    <3> QED BY <1>1, <2>2, <3>1, <3>2 DEF ExtractTyped, Said
  <2> QED BY <2>1, <2>2
<1>4. ExtractTyped'
  BY <1>1, <1>3 DEF ExtractTyped
<1>5. Accounted'
  BY <1>3 DEF Accounted
<1> QED BY <1>3, <1>4, <1>5, StillSound

-----------------------------------------------------------------------------
LEMMA ExtractStart == ExtractInit => ExtractSound
<1> SUFFICES ASSUME ExtractInit PROVE ExtractSound
  OBVIOUS
<1>1. ExtractTyped
  <2>1. artifacts \in Seq(Tags) /\ kept \in Seq(Tags)
    BY EmptySeq DEF ExtractInit
  <2>2. found \in FoundRecord /\ report \in [attempted : Nat, extracted : Nat] /\ reasons \in [Reasons -> Nat]
    BY DEF ExtractInit, NoFind, NoReport, FoundRecord
  <2>3. pathCache \in [Notebooks -> Nat] /\ \A n \in Notebooks : pathCache[n] \in 0..Len(PathsOf[n])
    <3>1. \A n \in Notebooks : Len(PathsOf[n]) \in Nat /\ Len(PathsOf[n]) > 0
      BY ExtractionAssumption, EmptySeq
    <3>2. \A n \in Notebooks : pathCache[n] \in {0, 1}
      BY DEF ExtractInit
    <3>3. pathCache \in [Notebooks -> Nat]
      BY DEF ExtractInit
    <3> QED BY <3>1, <3>2, <3>3
  <2> QED BY <2>1, <2>2, <2>3 DEF ExtractInit, ExtractTyped, Phases
<1>2. Len(artifacts) = report.extracted
  BY DEF ExtractInit, NoReport
<1> QED BY <1>1, <1>2 DEF ExtractInit, NoFind, ExtractSound, Accounted, ExtractionAccounts,
            EmptyIsExplained, KeptOnce

LEMMA DiscoverSound ==
  ASSUME ExtractSound, NEW jobs \in SUBSET JobRuns, Discover(jobs)
  PROVE  ExtractSound'
<1>1. PICK js \in Chosen(jobs) : found' = [found EXCEPT !.jobs = js]
  BY DEF Discover
<1>2. js \in SUBSET jobs
  BY DEF Chosen
<1>3. found \in FoundRecord /\ found.notebooks = {} /\ found.dlts = {}
  BY DEF Discover, ExtractSound, ExtractTyped, Accounted
<1>4. found' \in FoundRecord /\ found'.notebooks = {} /\ found'.dlts = {}
  BY <1>1, <1>2, <1>3 DEF FoundRecord
<1>5. ExtractTyped' /\ Len(artifacts') = report'.extracted
  BY <1>4 DEF Discover, ExtractSound, ExtractTyped, Phases
<1>6. Accounted'
  BY <1>4 DEF Discover, Accounted
<1> QED BY <1>5, <1>6, StillSound DEF Discover

LEMMA ReadDefinitionSound ==
  ASSUME ExtractSound, NEW kind \in Kinds, ReadDefinition(kind)
  PROVE  ExtractSound'
<1>1. ExtractTyped /\ Len(artifacts) = report.extracted /\ Accounted
  BY DEF ExtractSound
<1>2. phase = "definition" /\ phase' = "covered" /\ UNCHANGED <<waiting, pathCache, kept>>
  BY DEF ReadDefinition
<1>3. found \in FoundRecord /\ report \in [attempted : Nat, extracted : Nat] /\ reasons \in [Reasons -> Nat]
  BY <1>1 DEF ExtractTyped
<1> DEFINE same == found'.notebooks = found.notebooks /\ found'.dlts = found.dlts
<1>4. /\ report' \in [attempted : Nat, extracted : Nat] /\ reasons' \in [Reasons -> Nat]
      /\ artifacts' \in Seq(Tags) /\ Len(artifacts') = report'.extracted
      /\ found' \in FoundRecord /\ same
  <2>1. CASE UNCHANGED <<artifacts, reasons, report, found>>
    BY <1>1, <2>1 DEF ExtractTyped, Said
  <2>2. CASE \E r \in Reasons : Skip(r) /\ UNCHANGED <<artifacts, report, found>>
    <3>1. reasons' \in [Reasons -> Nat] /\ \E q \in Reasons : reasons'[q] > 0
      BY <1>1, <2>2, Noted
    <3> QED BY <1>1, <2>2, <3>1 DEF ExtractTyped, Said
  <2>3. CASE Arrived(<<Definition>>) /\ found' = [found EXCEPT !.covered = TRUE] /\ UNCHANGED reasons
    <3>1. Definition \in Tags
      BY TagsHold
    <3>2. <<Definition>> \in Seq(Tags) /\ Len(<<Definition>>) \in Nat /\ Len(<<Definition>>) > 0
      BY <3>1
    <3>3. /\ artifacts' = artifacts \o <<Definition>>
          /\ report' = [report EXCEPT !.extracted = @ + Len(<<Definition>>)]
      BY <2>3 DEF Arrived
    <3>4. report' \in [attempted : Nat, extracted : Nat] /\ report'.extracted = report.extracted + Len(<<Definition>>)
      BY <1>3, <3>2, <3>3
    <3>5. artifacts' \in Seq(Tags) /\ Len(artifacts') = report'.extracted /\ artifacts' # << >>
      BY <1>1, <3>2, <3>3, <3>4, Brought
    <3>6. found' \in FoundRecord /\ same
      BY <1>3, <2>3 DEF FoundRecord
    <3> QED BY <1>3, <2>3, <3>4, <3>5, <3>6 DEF Said
  <2> QED BY <2>1, <2>2, <2>3 DEF ReadDefinition, Reasons
<1>5. ExtractTyped'
  BY <1>1, <1>2, <1>4 DEF ExtractTyped, Phases
<1>6. Accounted'
  BY <1>1, <1>2, <1>4 DEF Accounted
<1> QED BY <1>2, <1>4, <1>5, <1>6, StillSound

LEMMA ReadCoveredSound ==
  ASSUME ExtractSound, NEW covered \in BOOLEAN, ReadCovered(covered)
  PROVE  ExtractSound'
<1>1. ExtractTyped /\ Len(artifacts) = report.extracted /\ Accounted /\ found \in FoundRecord
  BY DEF ExtractSound, ExtractTyped
<1>2. /\ phase = "covered" /\ phase' = "jobs" /\ waiting' = found.jobs
      /\ found' = [found EXCEPT !.covered = found.covered \/ covered]
      /\ UNCHANGED <<artifacts, reasons, report, pathCache, kept>>
  BY DEF ReadCovered
<1>3. /\ found' \in FoundRecord /\ found'.jobs = found.jobs
      /\ found'.notebooks = {} /\ found'.dlts = {}
  <2>1. found.covered \/ covered \in BOOLEAN
    BY <1>1 DEF FoundRecord
  <2>2. found.notebooks = {} /\ found.dlts = {}
    BY <1>1, <1>2 DEF Accounted
  <2> QED BY <1>1, <1>2, <2>1, <2>2 DEF FoundRecord
<1>4. waiting' \subseteq JobRuns \union Notebooks \union Dlts
  BY <1>1, <1>2 DEF FoundRecord
<1>5. ExtractTyped'
  BY <1>1, <1>2, <1>3, <1>4 DEF ExtractTyped, Phases
<1>6. Accounted'
  BY <1>2, <1>3 DEF Accounted, Entities
<1> QED BY <1>1, <1>2, <1>5, <1>6, StillSound

LEMMA JobReturnsSound ==
  ASSUME ExtractSound, NEW j \in JobRuns, JobReturns(j) PROVE ExtractSound'
<1>1. phase = "jobs" /\ waiting' = waiting \ {j} /\ UNCHANGED <<phase, found, pathCache, kept>>
  BY DEF JobReturns
<1>2. CASE \E s \in Texts(RunSources(j)) \ {<< >>} :
            /\ artifacts' = artifacts \o s
            /\ report' = [attempted |-> report.attempted + 1,
                          extracted |-> report.extracted + Len(s)]
            /\ UNCHANGED reasons
  <2>1. \A s \in Texts(RunSources(j)) \ {<< >>} : s \in Seq(Tags) /\ Len(s) \in Nat /\ Len(s) > 0
    BY SourcesFinite, TextsAreTags
  <2>2. \E s \in Seq(Tags) :
              /\ Len(s) \in Nat /\ Len(s) > 0 /\ artifacts' = artifacts \o s
              /\ report' = [attempted |-> report.attempted + 1, extracted |-> report.extracted + Len(s)]
              /\ UNCHANGED reasons
    BY <1>2, <2>1
  <2> QED BY <1>1, <2>2, FutureSound
<1>3. CASE /\ Skip("no_resolvable_tasks") \/ (RunSources(j) # {} /\ Skip("resolve_error"))
           /\ report' = [report EXCEPT !.attempted = @ + 1]
           /\ UNCHANGED artifacts
  <2>1. \E r \in Reasons : Skip(r)
    BY <1>3 DEF Reasons
  <2> QED BY <1>1, <1>3, <2>1, FutureSound
<1> QED BY <1>2, <1>3 DEF JobReturns

LEMMA NotebookReturnsSound ==
  ASSUME ExtractSound, NEW n \in Notebooks, NotebookReturns(n) PROVE ExtractSound'
<1>1. phase = "notebooks" /\ waiting' = waiting \ {n} /\ UNCHANGED <<phase, found, pathCache, kept>>
  BY DEF NotebookReturns
<1>2. CASE /\ pathCache[n] = Len(PathsOf[n])
           /\ artifacts' = Append(artifacts, Workspace(PathsOf[n][pathCache[n]]))
           /\ report' = [attempted |-> report.attempted + 1, extracted |-> report.extracted + 1]
           /\ UNCHANGED reasons
  <2> DEFINE tag == Workspace(PathsOf[n][Len(PathsOf[n])])
  <2>1. tag \in Tags
    BY TagsHold
  <2>2. artifacts \in Seq(Tags) /\ artifacts' = Append(artifacts, tag)
    BY <1>2 DEF ExtractSound, ExtractTyped
  <2> HIDE DEF tag
  <2>3. artifacts' = artifacts \o <<tag>>
    BY <2>1, <2>2, AppendIsConcat
  <2>4. <<tag>> \in Seq(Tags) /\ Len(<<tag>>) = 1
    BY <2>1
  <2>5. report' = [attempted |-> report.attempted + 1, extracted |-> report.extracted + Len(<<tag>>)]
    BY <1>2, <2>4
  <2>6. \E s \in Seq(Tags) :
              /\ Len(s) \in Nat /\ Len(s) > 0 /\ artifacts' = artifacts \o s
              /\ report' = [attempted |-> report.attempted + 1, extracted |-> report.extracted + Len(s)]
              /\ UNCHANGED reasons
    <3>1. Len(<<tag>>) \in Nat /\ Len(<<tag>>) > 0
      BY <2>4
    <3> QED BY <1>2, <2>3, <2>4, <2>5, <3>1
  <2> QED BY <1>1, <2>6, FutureSound
<1>3. CASE /\ Skip("notebook_path_unresolved_or_empty")
           /\ report' = [report EXCEPT !.attempted = @ + 1]
           /\ UNCHANGED artifacts
  <2>1. \E r \in Reasons : Skip(r)
    BY <1>3 DEF Reasons
  <2> QED BY <1>1, <1>3, <2>1, FutureSound
<1> QED BY <1>2, <1>3 DEF NotebookReturns

LEMMA DltReturnsSound ==
  ASSUME ExtractSound, NEW d \in Dlts, DltReturns(d) PROVE ExtractSound'
<1>1. phase = "dlts" /\ waiting' = waiting \ {d} /\ UNCHANGED <<phase, found, pathCache, kept>>
  BY DEF DltReturns
<1>2. CASE \E s \in Texts(DltSources(d)) \ {<< >>} :
            /\ artifacts' = artifacts \o s
            /\ report' = [attempted |-> report.attempted + 1,
                          extracted |-> report.extracted + Len(s)]
            /\ UNCHANGED reasons
  <2>1. \A s \in Texts(DltSources(d)) \ {<< >>} : s \in Seq(Tags) /\ Len(s) \in Nat /\ Len(s) > 0
    BY SourcesFinite, TextsAreTags
  <2>2. \E s \in Seq(Tags) :
              /\ Len(s) \in Nat /\ Len(s) > 0 /\ artifacts' = artifacts \o s
              /\ report' = [attempted |-> report.attempted + 1, extracted |-> report.extracted + Len(s)]
              /\ UNCHANGED reasons
    BY <1>2, <2>1
  <2> QED BY <1>1, <2>2, FutureSound
<1>3. CASE /\ Skip("pipeline_no_libraries")
           /\ report' = [report EXCEPT !.attempted = @ + 1]
           /\ UNCHANGED artifacts
  <2>1. \E r \in Reasons : Skip(r)
    BY <1>3 DEF Reasons
  <2> QED BY <1>1, <1>3, <2>1, FutureSound
<1> QED BY <1>2, <1>3 DEF DltReturns

\* The steps between the pools: nobody is waiting, so what was read has brought or said
\* something, and what is read now is waited for.
LEMMA BetweenSound ==
  ASSUME ExtractSound,
         \/ JobsDone \/ DltsDone
         \/ \E notebooks \in SUBSET Notebooks : ResolvePaths(notebooks)
         \/ \E dlts \in SUBSET Dlts : NotebooksDone(dlts)
  PROVE  ExtractSound'
<1>1. /\ ExtractTyped /\ Len(artifacts) = report.extracted /\ Accounted /\ found \in FoundRecord
      /\ waiting \subseteq JobRuns \union Notebooks \union Dlts
  BY DEF ExtractSound, ExtractTyped
<1>2. ASSUME UNCHANGED <<artifacts, reasons, report, kept>>, found' \in FoundRecord,
             waiting' \subseteq JobRuns \union Notebooks \union Dlts, phase' \in Phases,
             pathCache' \in [Notebooks -> Nat],
             \A n \in Notebooks : pathCache'[n] \in 0..Len(PathsOf[n]),
             Accounted', phase' # "done"
      PROVE  ExtractSound'
  <2>1. ExtractTyped'
    BY <1>1, <1>2 DEF ExtractTyped
  <2> QED BY <1>1, <1>2, <2>1, StillSound
<1>4. CASE JobsDone
  <2>1. /\ phase = "jobs" /\ waiting = {} /\ phase' = "resolve"
        /\ UNCHANGED <<found, waiting, artifacts, reasons, report, pathCache, kept>>
    BY <1>4 DEF JobsDone
  <2>2. Accounted'
    BY <1>1, <2>1 DEF Accounted, Entities, Said
  <2> QED BY <1>1, <1>2, <2>1, <2>2 DEF Phases, ExtractTyped
<1>5. CASE DltsDone
  <2>1. /\ phase = "dlts" /\ waiting = {}
        /\ phase' = IF found.covered THEN "dedupe" ELSE "history"
        /\ UNCHANGED <<found, waiting, artifacts, reasons, report, pathCache, kept>>
    BY <1>5 DEF DltsDone
  <2>2. Said \/ Entities = {}
    BY <1>1, <2>1 DEF Accounted
  <2>3. Accounted'
    BY <2>1, <2>2 DEF Accounted, Entities, Said, CoveredByNobody
  <2> QED BY <1>1, <1>2, <2>1, <2>3 DEF Phases, ExtractTyped
<1>6. ASSUME NEW notebooks \in SUBSET Notebooks, ResolvePaths(notebooks)
      PROVE  ExtractSound'
  <2>1. /\ phase = "resolve" /\ phase' = "notebooks" /\ waiting' = notebooks
        /\ found' = [found EXCEPT !.notebooks = notebooks]
        /\ UNCHANGED <<artifacts, reasons, report, kept>>
    BY <1>6 DEF ResolvePaths
  <2>2. pathCache' \in [Notebooks -> Nat] /\ \A n \in Notebooks : pathCache'[n] \in 0..Len(PathsOf[n])
    <3>1. \A n \in Notebooks : Len(PathsOf[n]) \in Nat
      BY ExtractionAssumption, EmptySeq
    <3>2. \A n \in Notebooks : pathCache[n] \in 0..Len(PathsOf[n])
      BY <1>1 DEF ExtractTyped
    <3>3. PICK heard \in SUBSET {n \in notebooks : pathCache[n] = 0} :
            pathCache' = [n \in Notebooks |-> IF n \in heard THEN Len(PathsOf[n]) ELSE pathCache[n]]
      BY <1>6 DEF ResolvePaths
    <3> QED BY <3>1, <3>2, <3>3
  <2>3. /\ found' \in FoundRecord /\ found'.notebooks = notebooks
        /\ found'.jobs = found.jobs /\ found'.dlts = found.dlts
    BY <1>1, <2>1 DEF FoundRecord
  <2>4. Said' = Said
    BY <2>1 DEF Said
  <2>5. Accounted'
    BY <1>1, <2>1, <2>3, <2>4 DEF Accounted, Entities
  <2>6. waiting' \subseteq JobRuns \union Notebooks \union Dlts /\ phase' \in Phases /\ phase' # "done"
    BY <2>1 DEF Phases
  <2> QED BY <1>2, <2>1, <2>2, <2>3, <2>5, <2>6
<1>7. ASSUME NEW dlts \in SUBSET Dlts, NotebooksDone(dlts)
      PROVE  ExtractSound'
  <2>1. /\ phase = "notebooks" /\ waiting = {} /\ phase' = "dlts" /\ waiting' = dlts
        /\ found' = [found EXCEPT !.dlts = dlts]
        /\ UNCHANGED <<artifacts, reasons, report, pathCache, kept>>
    BY <1>7 DEF NotebooksDone
  <2>2. /\ found' \in FoundRecord /\ found'.dlts = dlts
        /\ found'.jobs = found.jobs /\ found'.notebooks = found.notebooks
    BY <1>1, <2>1 DEF FoundRecord
  <2>3. Said' = Said
    BY <2>1 DEF Said
  <2>4. Accounted'
    BY <1>1, <2>1, <2>2, <2>3 DEF Accounted, Entities
  <2>5. waiting' \subseteq JobRuns \union Notebooks \union Dlts /\ phase' \in Phases /\ phase' # "done"
    BY <2>1 DEF Phases
  <2> QED BY <1>1, <1>2, <2>1, <2>2, <2>4, <2>5 DEF ExtractTyped
<1> QED BY <1>4, <1>5, <1>6, <1>7

LEMMA SearchHistorySound ==
  ASSUME ExtractSound, SearchHistory PROVE ExtractSound'
<1>1. ExtractTyped /\ Len(artifacts) = report.extracted
  BY DEF ExtractSound
<1>2. phase' = "dedupe" /\ UNCHANGED <<found, waiting, pathCache, kept>>
  BY DEF SearchHistory
<1>3. /\ report' \in [attempted : Nat, extracted : Nat] /\ reasons' \in [Reasons -> Nat]
      /\ artifacts' \in Seq(Tags) /\ Len(artifacts') = report'.extracted /\ Said'
  <2>1. CASE Arrived(<<HistoryTag>>) /\ UNCHANGED reasons
    <3>1. HistoryTag \in Tags
      BY TagsHold
    <3>2. <<HistoryTag>> \in Seq(Tags) /\ Len(<<HistoryTag>>) \in Nat /\ Len(<<HistoryTag>>) > 0
      BY <3>1
    <3>3. /\ artifacts' = artifacts \o <<HistoryTag>>
          /\ report' = [report EXCEPT !.extracted = @ + Len(<<HistoryTag>>)]
      BY <2>1 DEF Arrived
    <3>4. report' \in [attempted : Nat, extracted : Nat] /\ report'.extracted = report.extracted + Len(<<HistoryTag>>)
      BY <1>1, <3>2, <3>3 DEF ExtractTyped
    <3>5. artifacts' \in Seq(Tags) /\ Len(artifacts') = report'.extracted /\ artifacts' # << >>
      BY <1>1, <3>2, <3>3, <3>4, Brought
    <3> QED BY <1>1, <2>1, <3>4, <3>5 DEF Said, ExtractTyped
  <2>2. CASE \E r \in {"query_history_unavailable", "no_producing_query"} :
               Skip(r) /\ UNCHANGED <<artifacts, report>>
    <3>1. PICK r \in {"query_history_unavailable", "no_producing_query"} : Skip(r)
      BY <2>2
    <3>2. r \in Reasons
      BY DEF Reasons
    <3>3. reasons' \in [Reasons -> Nat] /\ \E q \in Reasons : reasons'[q] > 0
      BY <1>1, <3>1, <3>2, Noted
    <3> QED BY <1>1, <2>2, <3>3 DEF ExtractTyped, Said
  <2> QED BY <2>1, <2>2 DEF SearchHistory
<1>4. ExtractTyped'
  BY <1>1, <1>2, <1>3 DEF ExtractTyped, Phases
<1>5. Accounted'
  BY <1>2, <1>3 DEF Accounted
<1> QED BY <1>2, <1>3, <1>4, <1>5, StillSound

LEMMA DedupeSound ==
  ASSUME ExtractSound, Dedupe PROVE ExtractSound'
<1>1. ExtractTyped /\ Len(artifacts) = report.extracted /\ (Said \/ CoveredByNobody)
  BY DEF ExtractSound, Accounted, Dedupe
<1>2. phase' = "done" /\ UNCHANGED <<found, waiting, artifacts, reasons, report, pathCache>>
  BY DEF Dedupe
<1>3. artifacts \in Seq(Tags)
  BY <1>1 DEF ExtractTyped
<1>4. /\ kept' \in Seq(Tags)
      /\ {kept'[i] : i \in DOMAIN kept'} = {artifacts[i] : i \in DOMAIN artifacts}
      /\ \A i, k \in DOMAIN kept' : i # k => kept'[i] # kept'[k]
  BY <1>3, FirstsKept
<1>5. ExtractTyped' /\ Accounted'
  <2>1. Said' \/ CoveredByNobody'
    BY <1>1, <1>2 DEF Said, CoveredByNobody
  <2> QED BY <1>1, <1>2, <1>4, <2>1 DEF ExtractTyped, Phases, Accounted
<1>6. KeptOnce'
  BY <1>1, <1>2, <1>4 DEF KeptOnce
<1>7. EmptyIsExplained'
  <2> SUFFICES ASSUME kept' = << >>
               PROVE  CoveredByNobody \/ \E r \in Reasons : reasons[r] > 0
    BY <1>2 DEF EmptyIsExplained, CoveredByNobody
  <2>1. DOMAIN kept' = {}
    BY <1>4, LenProperties, EmptySeq
  <2>2. {artifacts[i] : i \in DOMAIN artifacts} = {}
    BY <1>4, <2>1
  <2>3. artifacts = << >>
    <3> SUFFICES ASSUME artifacts # << >> PROVE FALSE
      OBVIOUS
    <3>1. Len(artifacts) \in Nat \ {0} /\ DOMAIN artifacts = 1..Len(artifacts)
      BY <1>3, EmptySeq, LenProperties
    <3>2. 1 \in DOMAIN artifacts
      BY <3>1
    <3> QED BY <2>2, <3>2
  <2> QED BY <1>1, <2>3 DEF Said
<1> QED BY <1>1, <1>2, <1>5, <1>6, <1>7 DEF ExtractSound, ExtractionAccounts

LEMMA NextExtractionSound ==
  ASSUME ExtractSound, NextExtraction PROVE ExtractSound'
<1>1. ExtractTyped
  BY DEF ExtractSound
<1>2. artifacts' \in Seq(Tags) /\ kept' \in Seq(Tags) /\ Len(artifacts') = 0
  BY EmptySeq DEF NextExtraction
<1>3. found' \in FoundRecord /\ report' \in [attempted : Nat, extracted : Nat] /\ reasons' \in [Reasons -> Nat]
  BY DEF NextExtraction, NoFind, NoReport, FoundRecord
<1>4. ExtractTyped'
  BY <1>1, <1>2, <1>3 DEF ExtractTyped, Phases, NextExtraction
<1>5. Len(artifacts') = report'.extracted
  BY <1>2 DEF NextExtraction, NoReport
<1>6. Accounted'
  BY DEF NextExtraction, NoFind, Accounted
<1> QED BY <1>4, <1>5, <1>6, StillSound DEF NextExtraction

LEMMA ExtractStep == ExtractSound /\ [ExtractNext]_extractVars => ExtractSound'
<1> SUFFICES ASSUME ExtractSound, [ExtractNext]_extractVars PROVE ExtractSound'
  OBVIOUS
<1>1. CASE UNCHANGED extractVars
  <2>1. UNCHANGED <<phase, found, waiting, artifacts, reasons, report, pathCache, kept>>
    BY <1>1 DEF extractVars
  <2>2. ExtractTyped' /\ Len(artifacts') = report'.extracted
    BY <2>1 DEF ExtractSound, ExtractTyped
  <2>3. Accounted'
    BY <2>1 DEF ExtractSound, Accounted, Entities, Said, CoveredByNobody
  <2>4. EmptyIsExplained'
    BY <2>1 DEF ExtractSound, ExtractionAccounts, EmptyIsExplained, CoveredByNobody
  <2>5. KeptOnce'
    <3> SUFFICES ASSUME phase = "done"
                 PROVE  /\ {kept'[i] : i \in DOMAIN kept'} = {artifacts'[i] : i \in DOMAIN artifacts'}
                        /\ \A i, k \in DOMAIN kept' : i # k => kept'[i] # kept'[k]
                        /\ Len(artifacts') = report'.extracted
      BY <2>1 DEF KeptOnce
    <3>1. /\ {kept[i] : i \in DOMAIN kept} = {artifacts[i] : i \in DOMAIN artifacts}
          /\ \A i, k \in DOMAIN kept : i # k => kept[i] # kept[k]
      BY DEF ExtractSound, ExtractionAccounts, KeptOnce
    <3>2. kept' = kept /\ artifacts' = artifacts
      BY <2>1
    <3>3. {kept'[i] : i \in DOMAIN kept'} = {artifacts'[i] : i \in DOMAIN artifacts'}
      BY <3>1, <3>2
    <3>4. \A i, k \in DOMAIN kept' : i # k => kept'[i] # kept'[k]
      BY <3>1, <3>2
    <3> QED BY <2>2, <3>3, <3>4
  <2> QED BY <2>2, <2>3, <2>4, <2>5 DEF ExtractSound, ExtractionAccounts
<1>2. CASE ExtractNext
  <2>1. CASE \E jobs \in SUBSET JobRuns : Discover(jobs)
    BY <2>1, DiscoverSound
  <2>2. CASE \E kind \in Kinds : ReadDefinition(kind)
    BY <2>2, ReadDefinitionSound
  <2>10. CASE \E covered \in BOOLEAN : ReadCovered(covered)
    BY <2>10, ReadCoveredSound
  <2>3. CASE \E j \in JobRuns : JobReturns(j)
    BY <2>3, JobReturnsSound
  <2>4. CASE \/ JobsDone \/ DltsDone
             \/ \E notebooks \in SUBSET Notebooks : ResolvePaths(notebooks)
             \/ \E dlts \in SUBSET Dlts : NotebooksDone(dlts)
    BY <2>4, BetweenSound
  <2>5. CASE \E n \in Notebooks : NotebookReturns(n)
    BY <2>5, NotebookReturnsSound
  <2>6. CASE \E d \in Dlts : DltReturns(d)
    BY <2>6, DltReturnsSound
  <2>7. CASE SearchHistory
    BY <2>7, SearchHistorySound
  <2>8. CASE Dedupe
    BY <2>8, DedupeSound
  <2>9. CASE NextExtraction
    BY <2>9, NextExtractionSound
  <2> QED BY <1>2, <2>1, <2>2, <2>3, <2>4, <2>5, <2>6, <2>7, <2>8, <2>9, <2>10 DEF ExtractNext
<1> QED BY <1>1, <1>2

\* The types of Extraction hold, for any job runs, notebooks, pipelines and tasks.
THEOREM ExtractTypeCorrect == ExtractSpec => []ExtractTypeOK
<1>1. ExtractSound => ExtractTypeOK
  <2> SUFFICES ASSUME ExtractSound PROVE ExtractTypeOK
    OBVIOUS
  <2>1. ExtractTyped
    BY DEF ExtractSound
  <2>2. \A i \in DOMAIN artifacts : artifacts[i] \in Tags
    BY <2>1, LenProperties, ElementOfSeq DEF ExtractTyped
  <2>3. \A i \in DOMAIN kept : kept[i] \in Tags
    BY <2>1, LenProperties, ElementOfSeq DEF ExtractTyped
  <2> QED BY <2>1, <2>2, <2>3 DEF ExtractTyped, ExtractTypeOK, Phases, FoundRecord
<1> QED BY <1>1, ExtractStart, ExtractStep, PTL DEF ExtractSpec

\* run_extraction_phase (extraction/pipeline.py): every text that
\* arrived is returned once, the report counts it, and a phase that returns nothing says
\* why, whatever discovery finds and however the futures of the pools interleave.
THEOREM AccountsHold == ExtractSpec => []ExtractionAccounts
<1>1. ExtractSound => ExtractionAccounts
  BY DEF ExtractSound
<1> QED BY <1>1, ExtractStart, ExtractStep, PTL DEF ExtractSpec

-----------------------------------------------------------------------------
(***************************************************************************)
(* The nine services side by side.                                         *)
(***************************************************************************)
\* A step of the composite is one of a service that is at work, and no other moves.
LEMMA OneServiceMoves ==
  ASSUME [ServicesNext /\ UNCHANGED service]_servicesVars
  PROVE  /\ [PeerNext]_peerVars /\ [AnalysisNext]_analysisVars /\ [StoreNext]_storeVars
         /\ [ExtractNext]_extractVars /\ [NotificationsNext]_alertVars
         /\ [UserInfoNext]_infoVars /\ [RateLimitNext]_limitVars
         /\ [LlmBudgetNext]_llmVars /\ [DeltaTierNext]_tierVars
<1>1. CASE ServicesNext
  BY <1>1 DEF ServicesNext
<1>2. CASE UNCHANGED servicesVars
  BY <1>2 DEF servicesVars
<1> QED BY <1>1, <1>2

\* What runs side by side keeps its types: no cache of the nine services is over its limit
\* or holds two entries of one key, no counter, version or time is out of its range,
\* whichever of them is at work.
THEOREM ServicesTypesCorrect == ServicesSpec => []ServicesTypeOK
<1>0. ServicesInit => PeerInit /\ AnalysisInit /\ StoreInit /\ ExtractInit /\ NotificationsInit
                       /\ UserInfoInit /\ RateLimitInit /\ LlmBudgetInit /\ DeltaTierInit
  BY DEF ServicesInit
<1>1. ServicesSpec => []PeerTypeOK
  <2>1. ServicesSpec => PeerSpec
    BY <1>0, OneServiceMoves, PTL DEF ServicesSpec, PeerSpec
  <2> QED BY <2>1, PeerTypeCorrect, PTL
<1>2. ServicesSpec => []AnalysisTypeOK
  <2>1. ServicesSpec => AnalysisSpec
    BY <1>0, OneServiceMoves, PTL DEF ServicesSpec, AnalysisSpec
  <2> QED BY <2>1, AnalysisTypeCorrect, PTL
<1>3. ServicesSpec => []StoreTypeOK
  <2>1. ServicesSpec => StoreSpec
    BY <1>0, OneServiceMoves, PTL DEF ServicesSpec, StoreSpec
  <2> QED BY <2>1, StoreTypeCorrect, PTL
<1>4. ServicesSpec => []ExtractTypeOK
  <2>1. ServicesSpec => ExtractSpec
    BY <1>0, OneServiceMoves, PTL DEF ServicesSpec, ExtractSpec
  <2> QED BY <2>1, ExtractTypeCorrect, PTL
<1>5. ServicesSpec => []NotificationsTypeOK
  <2>1. ServicesSpec => NotificationsSpec
    BY <1>0, OneServiceMoves, PTL DEF ServicesSpec, NotificationsSpec
  <2> QED BY <2>1, AlertsTypeCorrect, PTL
<1>6. ServicesSpec => []UserInfoTypeOK
  <2>1. ServicesSpec => UserInfoSpec
    BY <1>0, OneServiceMoves, PTL DEF ServicesSpec, UserInfoSpec
  <2> QED BY <2>1, UserInfoTypeCorrect, PTL
<1>7. ServicesSpec => []RateLimitTypeOK
  <2>1. ServicesSpec => RateLimitSpec
    BY <1>0, OneServiceMoves, PTL DEF ServicesSpec, RateLimitSpec
  <2> QED BY <2>1, RateLimitTypeCorrect, PTL
<1>8. ServicesSpec => []LlmBudgetTypeOK
  <2>1. ServicesSpec => LlmBudgetSpec
    BY <1>0, OneServiceMoves, PTL DEF ServicesSpec, LlmBudgetSpec
  <2> QED BY <2>1, LlmTypeCorrect, PTL
<1>9. ServicesSpec => []DeltaTierTypeOK
  <2>1. ServicesSpec => DeltaTierSpec
    BY <1>0, OneServiceMoves, PTL DEF ServicesSpec, DeltaTierSpec
  <2> QED BY <2>1, DeltaTierTypeCorrect, PTL
<1>10. PeerTypeOK /\ AnalysisTypeOK /\ StoreTypeOK /\ ExtractTypeOK /\ NotificationsTypeOK
       /\ UserInfoTypeOK /\ RateLimitTypeOK /\ LlmBudgetTypeOK /\ DeltaTierTypeOK => ServicesTypeOK
  BY DEF ServicesTypeOK
<1> QED BY <1>1, <1>2, <1>3, <1>4, <1>5, <1>6, <1>7, <1>8, <1>9, <1>10, PTL

=============================================================================
