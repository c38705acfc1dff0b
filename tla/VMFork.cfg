SPECIFICATION Spec
CONSTANTS
    CPU = {c1}
    Proc = {p1, p2}
    text = text
    stack = stack
    a1 = a1
    a2 = a2
    Page = {text, stack}
    Frame = {f1, f2, f3}
    Value <- Values
    AddrSpace = {a1, a2}
    PageNums = 2
    Hash <- Crossed
    Segments <- Text
    Stack <- StackRegion
    MayFail = {"copy"}
    NULL = NULL
SYMMETRY Symmetry
INVARIANT FailedForkReturns
CHECK_DEADLOCK FALSE
