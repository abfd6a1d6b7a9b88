CONSTANTS
    Thread = {a, b, c}
    Idle = Idle
    Lock = {l}
    NULL = NULL
    PRI_MAX = 0
    TryLock = {}
    NewPriority = {}
    Cond = {cv}
    Mutex <- OneMutex

SPECIFICATION CondSpec
SYMMETRY Workers
CHECK_DEADLOCK FALSE
INVARIANTS
    CondSignalFindsThread
