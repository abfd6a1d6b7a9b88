CONSTANTS
    Thread = {a, b}
    Idle = Idle
    Lock = {l}
    NULL = NULL
    PRI_MAX = 1
    TryLock = {}
    NewPriority = {}

SPECIFICATION Spec
SYMMETRY Workers
CHECK_DEADLOCK FALSE
INVARIANTS
    ReleaseEnds
