\* What a user is shown: each service on its own instance, one at work at a time.
SPECIFICATION ReadsSpec
CONSTANTS
    T = T  A = A  B = B  C = C  D = D
    vol = vol  rd = rd  wr = wr
    e = e  f = f  j = j  k = k  l = l  nil = nil
    c1 = c1  c2 = c2
    N1 = N1  N2 = N2  o = o  u = u  none = none
    a = a  b = b  c = c  x = x  y = y
    d1 = d1  d2 = d2
    \* LineageGraph
    TableRefs = {T, A, B, C, D}
    PathRefs = {rd, wr}
    VolumeOf <- MCVolumeOf
    Entities = {e, f}
    Nothing = nil
    SeedTable = T
    ScopeTables = {T, B}
    ScopeRefs = {T, B, rd}
    RowPools <- MCRowPools
    LateRows <- MCLateRows
    MaxIters = 3
    NodeCap = 3
    \* ColumnGraph
    Columns = {"c1", "c2", "c3", "c4"}
    HopPairs <- MCHopPairs
    Source = "c1"
    Target = "c4"
    Staging = {"c2"}
    OtherKind <- MCOtherKind
    Depths = {1, 3}
    PathLimits = {1, 5}
    \* TransformTrace
    TraceColumns = {"t1", "t2", "u1", "u2"}
    TableOf <- MCTableOf
    Opened = "t"
    RowPool <- MCRowPool
    Deductions <- MCDeductions
    TraceDepth = 3
    \* TableReports
    Callers = {c1, c2}
    ReportTables = {T, A, B, C}
    Focus = T
    ReportEntities = {j, k, l, nil}
    NoEntity = nil
    Health <- MCHealth
    ReportRows <- MCReportRows
    MoreRows <- MCMoreRows
    HopLimits = {3}
    MaxReports = 2
    \* NotebookParser
    BaseTables = {N1, N2}
    ColumnsIn <- MCColumnsIn
    NewColumns = {x, y}
    Frames = {d1, d2}
    SavedAs = o
    CallForms <- MCCallForms
    SqlPool <- MCSqlPool
    MaxCells = 2
    MaxStatements = 3
    MaxCalls = 2
    NoTable = none
SYMMETRY Alike
INVARIANTS
    ReadsTypeOK
    TraceIsTheCone
    DrawnRight
    SearchesAgree
    TraceLayersRight
    ReportsReachAll
    LineageIsTheNotebooks
PROPERTIES
    AnswersDoNotGoBack
CHECK_DEADLOCK FALSE
