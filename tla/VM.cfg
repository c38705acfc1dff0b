SPECIFICATION Spec
CONSTANTS
    CPU = {c1, c2}
    Proc = {p1, p2}
    text = text
    stack = stack
    a1 = a1
    a2 = a2
    Page = {text, stack}
    Frame = {f1, f2, f3}
    Value <- Values
    AddrSpace = {a1, a2}
    PageNums = 2
    Hash <- Crossed
    Segments <- Text
    Stack <- StackRegion
    MayFail = {"addrspace", "region", "pte", "copy", "load", "fork"}
    NULL = NULL
SYMMETRY Symmetry
INVARIANTS
    FramesAccounted
    TableSound
    TlbSound
    OwnMemory
CHECK_DEADLOCK FALSE
