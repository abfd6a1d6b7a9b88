CONSTANTS
    Thread = {a, b}
    Idle = Idle
    Lock = {l, m}
    NULL = NULL
    PRI_MAX = 1
    TryLock = {l}
    NewPriority = {0, 1}

SPECIFICATION Spec
SYMMETRY Workers
CHECK_DEADLOCK FALSE
INVARIANTS
    OneOwner
PROPERTIES
    DonationLostByHolder
