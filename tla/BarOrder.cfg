SPECIFICATION Spec
CONSTANTS
    Customer = {c1, c2}
    Bartender = {s1, s2}
    ROUNDS = 2
    NBOTTLES = 5
    home = home
    None = None
    Drinks <- AnyOrder
    Uninitialised = {0}
INVARIANT
    NoBottleDeadlock
CHECK_DEADLOCK FALSE
