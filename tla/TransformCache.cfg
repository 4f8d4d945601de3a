CONSTANTS
    r1 = r1
    r2 = r2
    n1 = n1
    n2 = n2
    edges = edges
    trace = trace
    None = None
    Requests = {r1, r2}
    Nested <- MCNested
    Needs <- MCNeeds
    Side <- MCSide
    Tier = {}
    Keys = {trace, edges}
    Locks = {l1, l2}
    LocksMax = 2
    LastTime = 1
SPECIFICATION TSpec
INVARIANT WipeSticks
SYMMETRY MCThreads
