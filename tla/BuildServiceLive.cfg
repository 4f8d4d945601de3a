SPECIFICATION FairSpec
CONSTANTS
    Threads = {t1, t2}
    Tables = {a, b}
    Actors = {alice}
    Runs = {r1, r2}
    MaxInFlight = 2
    MaxPerDay = 2
    LogMax = 2
    LastDay = 1
    MaxRestarts = 0
    None = None
    Reserved = Reserved
PROPERTIES
    SubmissionsEnd
    WatchedBuildUnlocks
