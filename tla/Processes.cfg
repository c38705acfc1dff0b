SPECIFICATION ProcessesSpec
CONSTANTS
    Proc = {k, p1, p2, p3}
    kproc = k
    PROCS_MAX = 4
    PID_MAX = 7
    Status = {0, 1}
    NULL = NULL
    NCPU = 2
    b1 = b1
    b2 = b2
    Forked = {t1, t2}
INVARIANTS
    LivingHaveEntries
    NoZombieForever
    StatusKept
    AssertionsHold
    StacksExclusive
    ThreadsPlaced
    IdleIsWoken
PROPERTIES
    WaitReturns
CHECK_DEADLOCK FALSE
