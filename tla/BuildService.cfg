SPECIFICATION Spec
CONSTANTS
    Threads = {t1, t2}
    Tables = {a, b, c}
    Actors = {alice}
    Runs = {r1, r2}
    MaxInFlight = 2
    MaxPerDay = 2
    LogMax = 1
    LastDay = 2
    MaxRestarts = 1
    None = None
    Reserved = Reserved
SYMMETRY Symmetry
INVARIANTS
    TypeOK
    ReservationOwned
    KnownRunsExclusive
    BudgetExact
