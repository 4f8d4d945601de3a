\* Tables, caches and counters: each service on its own instance, one at a time.
SPECIFICATION ServicesSpec
CONSTANTS
    t1 = t1  t2 = t2
    p1 = p1  p2 = p2  f1 = f1  f2 = f2
    s1 = s1  s2 = s2
    col = col  flow1 = flow1  flow2 = flow2  kc = kc  kf = kf
    ra = ra  rb = rb
    \* PeerWorkspaces
    PeerThreads = {t1, t2}
    Wids = {w1}
    MaxRows = 2
    MaxToggles = 2
    \* ProducerAnalysis
    Producers = {p1, p2}
    Elsewhere = {p1}
    Files = {f1, f2}
    FilesOf <- MCFilesOf
    Guarded = {f2}
    Edited <- MCEdited
    Loop = loop
    Pool = {pool}
    MaxEdits = 1
    MaxVersions = 2
    \* SublineageStore
    StoreRuns = {1, 2}
    StoreHops = {"h1", "h2"}
    Exprs = {"e1", "e2"}
    Contents <- MCContents
    Sessions = {"s1"}
    \* Extraction
    JobRuns = {"j1", "j2"}
    TasksOf <- MCTasksOf
    Foreign = {"p3"}
    GitRuns = {"j2"}
    Notebooks = {"n1", "n2"}
    PathsOf <- MCPathsOf
    Dlts = {"d1"}
    LibrariesOf <- MCLibrariesOf
    MaxJobRuns = 1
    \* Notifications
    Scanners = {s1, s2}
    Troubles = {col, flow1, flow2}
    KeyOf <- MCKeyOf
    BucketOf <- MCBucketOf
    Governed = {flow2}
    SliceOf = 2
    Keep = 1
    KeyPage = 2
    MaxAlerts = 2
    \* UserInfo
    InfoThreads = {t1, t2}
    Tokens = {k1, k2}
    InfoTTL = 2
    FailTTL = 1
    InfoMax = 1
    MaxClock = 2
    \* RateLimit
    LimitUsers = {u1, u2, u3}
    RateMax = 2
    RateWindow = 2
    MaxTracked = 2
    MaxPassed = 3
    MaxTime = 2
    \* LlmBudget
    LlmUsers = {u1, u2}
    LlmThreads = {t1, t2}
    LlmMax = 1
    MaxDays = 2
    \* DeltaTier
    Replicas = {ra, rb}
    TierThreads = {t1, t2}
    TierTTL = 2
    MaxHours = 4
INVARIANTS
    ServicesTypeOK
    ChangesTakeEffect
    StoredIsCurrent
    SharedRight
    ExtractionAccounts
    AdminIsRecent
    DailyLimitExact
    TierBoundsAge
PROPERTIES
    AlertsKept
    FairLimit
CONSTRAINT
    MCFewChanges
CHECK_DEADLOCK FALSE
