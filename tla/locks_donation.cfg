CONSTANTS
    Thread = {a, b, c}
    Idle = Idle
    Lock = {l, m}
    NULL = NULL
    PRI_MAX = 2
    TryLock = {}
    NewPriority = {}

SPECIFICATION Spec
SYMMETRY Workers
CHECK_DEADLOCK FALSE
INVARIANTS
    IntactWhileFree
    RunsWhileFree
    Donated
    DisorderByDonation
PROPERTIES
    NeverHandedOver
