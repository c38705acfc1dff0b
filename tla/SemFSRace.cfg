SPECIFICATION Spec
CONSTANTS
    Proc = {p1, p2}
    Name = {a}
    MaxSems = 1
    MaxCount = 1
    NULL = NULL
INVARIANTS
    DestroyedUnlocked
CHECK_DEADLOCK FALSE
