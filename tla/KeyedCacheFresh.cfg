CONSTANTS
    r1 = r1
    r2 = r2
    n1 = n1
    n2 = n2
    allTables = allTables
    catalogs = catalogs
    lineage = lineage
    cols = cols
    None = None
    Requests = {r1, r2}
    Nested <- MCNested
    Needs <- MCNeeds
    Side <- MCSide
    Keys = {lineage, cols}
    Tier = {lineage}
    Locks = {l1, l2}
    LocksMax = 2
    LastTime = 1
SPECIFICATION Spec
INVARIANTS ReadsNeverGoBack FlushSticks
SYMMETRY MCThreads
VIEW MCWithoutRegistry
