CONSTANTS
    Thread = {a, b, c}
    Idle = Idle
    Lock = {l}
    NULL = NULL
    PRI_MAX = 1
    TryLock = {l}
    NewPriority = {0, 1}
    Cond = {cv}
    Mutex <- OneMutex

SPECIFICATION CondSpec
SYMMETRY Workers
CHECK_DEADLOCK FALSE
INVARIANTS
    CondTypeOK
    OneOwner
    NoSignalLost
    SignalledAwake
    WaitersGuarded
PROPERTIES
    ListStableInSignal
    SignalsHighest
