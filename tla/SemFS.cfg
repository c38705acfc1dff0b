SPECIFICATION Spec
CONSTANTS
    Proc = {p1, p2, p3}
    Name = {a}
    MaxSems = 1
    MaxCount = 2
    NULL = NULL
INVARIANTS
    SleepersOnlyAtZero
CHECK_DEADLOCK FALSE
