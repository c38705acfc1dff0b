SPECIFICATION IOSpec
CONSTANTS
    OPEN_MAX = 3
    Regular = {f}
    con = con
    MaxOffset = 1
    NULL = NULL
    Proc = {p1, p2}
    init = p1
    OpenFiles = {f1, f2}
    MaxFd = 2
    Name = {a, b}
    MaxSems = 2
    MaxCount = 1
    Reader = {r1, r2}
    Writer = {w1, w2}
    Printer = {k1}
    BufferSize = 3
    MaxTyped = 5
    MaxTypedBusy = 2
    MaxResid = 2
    MaxPolled = 1
    DiskThread = {t1, t2}
    Sectors = 2
    MaxLen = 2
    MaxCalls = 3
INVARIANTS
    RefCountsExact
    SharedCountsExact
    PositionStable
    SemaphoresKept
    InputExact
    OutputExact
    SectorsExact
PROPERTIES
    DevicesAnswer
CHECK_DEADLOCK FALSE
