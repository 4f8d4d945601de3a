SPECIFICATION Spec
CONSTANTS
    Threads = {t1}
    Tables = {a}
    Actors = {alice}
    Runs = {r1, r2}
    MaxInFlight = 1
    MaxPerDay = 2
    LogMax = 2
    LastDay = 1
    MaxRestarts = 0
    None = None
    Reserved = Reserved
INVARIANT NoDuplicateJobs
