SPECIFICATION Spec
CONSTANTS
    NBlocks = 8
    NDirect = 1
    PerBlock = 2
    p1 = p1
    p2 = p2
    Proc = {p1, p2}
    Name = {"a", "b"}
    Writes <- MCWrites
    WordOf <- MCWordOf
    MaxIO = 20
    Bounds <- MCTruncation
INVARIANT NothingPastEof
CHECK_DEADLOCK FALSE
