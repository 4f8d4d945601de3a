SPECIFICATION FairSpec
CONSTANTS
    Threads = {t1, t2}
    MaxSlots = 1
    FailureThreshold = 2
    MaxOrphans = 1
INVARIANTS
    TypeOK
    SlotsConserved
    GaugeExact
    BreakerConsistent
PROPERTIES
    ImplementsAdmission
    CallsReturn
    RecoversWhenHealthy
