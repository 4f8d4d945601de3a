CONSTANTS
    r1 = r1
    r2 = r2
    n1 = n1
    n2 = n2
    allTables = allTables
    catalogs = catalogs
    lineage = lineage
    cols = cols
    None = None
    Requests = {r1, r2}
    Nested <- MCNested
    Needs <- MCNeeds
    Side <- MCSide
    Tier = {}
    Keys = {allTables, catalogs}
    Locks = {l1, l2, l3, l4, l5, l6}
    LocksMax = 1
    LastTime = 0
SPECIFICATION Spec
INVARIANTS TypeOK SingleFlight NoCircularWait
SYMMETRY MCThreads
