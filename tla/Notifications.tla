---------------------------- MODULE Notifications ----------------------------
(***************************************************************************)
(* The alerts of routes/notifications.py. A scan, started by the timer of  *)
(* the lifespan or by an admin, reads the keys of the alerts already       *)
(* stored, runs its three detectors, inserts what is new and prunes the    *)
(* table to the newest ones. Every query is a step; scans share nothing    *)
(* but the table.                                                          *)
(***************************************************************************)
EXTENDS Integers, FiniteSets, Sequences

CONSTANTS
    Scanners,       \* the timer and the admins
    Troubles,       \* what a detector may find: a column altered, a rule, a flow
    KeyOf,          \* Troubles -> _notif_key: flows into one column may share it
    BucketOf,       \* Troubles -> the detector that finds it
    Governed,       \* flows whose target column carries a tag
    SliceOf,        \* how many findings a detector returns at most
    Keep,           \* NOTIFICATION_RETENTION_MAX, 0 is off
    KeyPage,        \* limit of _existing_notification_keys
    MaxAlerts       \* bound: alerts ever inserted

ASSUME AlertBounds ==
    /\ Governed \subseteq Troubles
    /\ {Keep, KeyPage, MaxAlerts} \subseteq Nat /\ SliceOf \in Nat \ {0}

VARIABLES
         \* what the detectors would find now
    alerts,     \* the table: [id, key, at]
    made,       \* alerts inserted so far
    clock,      \* detected_at of the last one; two may have the same
    scan,       \* each scanner's scan
    arriving,   \* INSERTs whose wait is over and that still run
    unseen,     \* history: keys stored that some scan did not know of
    pruned      \* history: keys the retention took

alertVars == <<alerts, made, clock, scan, arriving, unseen, pruned>>

\* The order in which run_scan calls the detectors.
Buckets == <<"schema_changes", "dq_degradation", "sensitive_flows">>
NoScan == [at |-> "off", known |-> {}, bucket |-> 1, found |-> {}, all |-> {}, inserted |-> FALSE]
KeysOf(A) == {a.key : a \in A}
Least(m, n) == IF m < n THEN m ELSE n
\* The subsets of K of at most n members, as large as can be.
Slices(K, n) == {F \in SUBSET K : Cardinality(F) = Least(Cardinality(K), n)}

NotificationsInit ==
    /\ alerts = {} /\ made = 0 /\ clock = 0 /\ arriving = {}
    /\ scan = [s \in Scanners |-> NoScan]
    /\ unseen = {} /\ pruned = {}

\* The n newest alerts; of those with the same time, any.
Newest(n) == {A \in Slices(alerts, n) : \A a \in A, b \in alerts \ A : a.at >= b.at}

(***************************************************************************)
(* run_scan.                                                               *)
(***************************************************************************)
\* _existing_notification_keys; a failed read is an empty set.
ReadKeys(s) ==
    /\ scan[s].at = "off"
    /\ \E known \in {KeysOf(A) : A \in Newest(KeyPage)} \union {{}} :
         /\ scan' = [scan EXCEPT ![s] = [NoScan EXCEPT !.at = "detect", !.known = known]]
         /\ unseen' = unseen \union (KeysOf(alerts \union arriving) \ known)
    /\ UNCHANGED <<alerts, made, clock, arriving, pruned>>

\* The detectors: nothing when the query fails, a slice when there is more than
\* the limit, governed targets too when the tags cannot be read.
Findings(b) ==
    LET raised == {t \in Troubles : BucketOf[t] = b}
    IN  {{}} \union Slices(raised, SliceOf) \union Slices(raised \ Governed, SliceOf)

Detect(s) ==
    /\ scan[s].at = "detect"
    /\ \E found \in Findings(Buckets[scan[s].bucket]) :
         scan' = [scan EXCEPT ![s].at = "insert", ![s].found = found, ![s].all = @ \union found]
    /\ UNCHANGED <<alerts, made, clock, arriving, unseen, pruned>>

\* key in existing: skipped.
SkipKnown(s, t) ==
    /\ scan[s].at = "insert" /\ t \in scan[s].found /\ KeyOf[t] \in scan[s].known
    /\ scan' = [scan EXCEPT ![s].found = @ \ {t}]
    /\ UNCHANGED <<alerts, made, clock, arriving, unseen, pruned>>

MayInsert(s, t) ==
    /\ scan[s].at = "insert" /\ t \in scan[s].found /\ KeyOf[t] \notin scan[s].known
    /\ made < MaxAlerts

NewAlert(t, now) == [id |-> made + 1, key |-> KeyOf[t], at |-> now]
OtherScans(s) == \E u \in Scanners \ {s} : scan[u].at # "off"

\* _create_notification, and existing.add(key).
Insert(s, t) ==
    /\ MayInsert(s, t)
    /\ \E now \in {clock, clock + 1} : clock' = now /\ alerts' = alerts \union {NewAlert(t, now)}
    /\ made' = made + 1
    /\ scan' = [scan EXCEPT ![s].found = @ \ {t}, ![s].known = @ \union {KeyOf[t]},
                            ![s].inserted = TRUE]
    /\ unseen' = IF OtherScans(s) THEN unseen \union {KeyOf[t]} ELSE unseen
    /\ UNCHANGED <<arriving, pruned>>

\* A failed insert ends the scan, without a prune.  A statement whose wait is
\* over fails too, and runs on.
InsertFails(s, t) ==
    /\ MayInsert(s, t)
    /\ scan' = [scan EXCEPT ![s] = NoScan]
    /\ \/ UNCHANGED <<made, clock, arriving, unseen>>
       \/ \E now \in {clock, clock + 1} :
            /\ clock' = now /\ made' = made + 1
            /\ arriving' = arriving \union {NewAlert(t, now)}
            /\ unseen' = IF OtherScans(s) THEN unseen \union {KeyOf[t]} ELSE unseen
    /\ UNCHANGED <<alerts, pruned>>

InsertLands(a) ==
    /\ a \in arriving
    /\ arriving' = arriving \ {a} /\ alerts' = alerts \union {a}
    /\ unseen' = IF \E s \in Scanners : scan[s].at # "off" THEN unseen \union {a.key} ELSE unseen
    /\ UNCHANGED <<made, clock, scan, pruned>>

\* The next detector, or the end: the table is pruned when something was inserted.
BucketDone(s) ==
    /\ scan[s].at = "insert" /\ scan[s].found = {}
    /\ scan' = IF scan[s].bucket < Len(Buckets)
               THEN [scan EXCEPT ![s].bucket = @ + 1, ![s].at = "detect"]
               ELSE [scan EXCEPT ![s].at = IF scan[s].inserted THEN "prune" ELSE "ok"]
    /\ UNCHANGED <<alerts, made, clock, arriving, unseen, pruned>>

\* The cutoff itself goes too.
PruneUpTo ==
    {a \in alerts : \E A \in Newest(Keep) : \A b \in A : a.at <= b.at}

\* _prune_notifications: what is older than the oldest of the Keep newest.
PruneBelow ==
    IF Keep = 0 THEN {} ELSE {a \in alerts : \E A \in Newest(Keep) : \A b \in A : a.at < b.at}

\* The prune is best-effort.
Prune(s) ==
    /\ scan[s].at = "prune"
    /\ \E gone \in {PruneBelow, {}} :
         /\ alerts' = alerts \ gone /\ pruned' = pruned \union KeysOf(gone)
    /\ scan' = [scan EXCEPT ![s].at = "ok"]
    /\ UNCHANGED <<made, clock, arriving, unseen>>

\* _autoscan_loop sleeps; trigger_scan answers.
ScanOver(s) ==
    /\ scan[s].at = "ok"
    /\ scan' = [scan EXCEPT ![s] = NoScan]
    /\ UNCHANGED <<alerts, made, clock, arriving, unseen, pruned>>

NotificationsNext ==
    \/ \E s \in Scanners :
         \/ ReadKeys(s) \/ Detect(s) \/ BucketDone(s) \/ Prune(s) \/ ScanOver(s)
         \/ \E t \in scan[s].found : SkipKnown(s, t) \/ Insert(s, t) \/ InsertFails(s, t)
    \/ \E a \in arriving : InsertLands(a)

NotificationsSpec == NotificationsInit /\ [][NotificationsNext]_alertVars

-----------------------------------------------------------------------------
NotificationsTypeOK ==
    /\ made \in 0..MaxAlerts /\ clock \in 0..made
    /\ {a.id : a \in alerts \union arriving} \subseteq 1..made
    /\ \A s \in Scanners : /\ scan[s].at \in {"off", "detect", "insert", "prune", "ok"}
                           /\ scan[s].found \subseteq scan[s].all
                           /\ scan[s].all \subseteq Troubles

\* run_scan, "Idempotent across runs (dedup by _notif_key)": two stored alerts
\* share a key only if some scan could not have known the first one, because it
\* was inserted beside the scan, or the scan's read of the keys failed or was too
\* short.
NoDuplicateAlert ==
    \A a, b \in alerts : a.key = b.key => a = b \/ a.key \in unseen

\* run_scan: a scan that ends well has an alert for everything its detectors
\* found, unless the retention took it: a failed insert is never passed over,
\* and a finding is skipped only for an alert that is there.
ScanStoredAll ==
    \A s \in Scanners : scan[s].at \in {"prune", "ok"} =>
        {KeyOf[t] : t \in scan[s].all} \subseteq KeysOf(alerts) \union pruned

\* _prune_notifications, "the floor is keep": alerts leave the table only
\* when Keep others stay, and none that stays is older.
PruneKeepsNewest ==
    [][\A gone \in {{a \in alerts : a.id \notin {b.id : b \in alerts'}}} :
         gone # {} => /\ Cardinality(alerts') >= Keep
                      /\ \A a \in gone, b \in alerts' : a.at < b.at]_alertVars

\* Every trouble a scan found has an alert, and no more than one, until there are
\* enough that are newer.
AlertsKept == [](NoDuplicateAlert /\ ScanStoredAll) /\ PruneKeepsNewest

=============================================================================
