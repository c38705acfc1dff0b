SPECIFICATION Asst1Spec
CONSTANTS
    Thread = {t1, t2, t3, t4}
    NULL = NULL
    initial_count = 1
    MaxCount = 2
    Adder = {i1, i2, i3}
    NADDS = 3
    Commands = 2
    Unlocked = Unlocked
    NUM_LOOPS = 3
    Nobody = Nobody
    Producer = {p1, p2}
    Consumer = {c1, c2, c3}
    main = main
    BUFFER_SIZE = 2
    ITEMS_TO_PRODUCE = 2
    Customer = {d1, d2}
    Bartender = {s1, s2}
    ROUNDS = 2
    NBOTTLES = 5
    home = home
    None = None
    Drinks <- DriverDrinks
    Uninitialised = {0, 1}
INVARIANTS
    NoLostWakeup
    LockNotForgotten
    
    OrderInOnePlace
    BottlesExclusive
    NoBottleDeadlock
PROPERTIES
    RefinesFairCounting
    RefinesMesa
    RefinesFifo
    EveryTestEnds
CHECK_DEADLOCK FALSE
