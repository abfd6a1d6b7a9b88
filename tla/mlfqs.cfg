CONSTANTS
    Main = Main
    Idle = Idle
    Thread = {Main, Idle, a, b}
    NoThread = NoThread
    F = 64
    PRI_DEFAULT = 0
    PRI_MAX = 1
    NICE_MIN = 0
    NICE_MAX = 1
    TIME_SLICE = 4
    TIMER_FREQ = 4
    NewNice = {2}
    NewPriority = {1}
    MaxTicks = 4
    INT_RANGE = 32768

SPECIFICATION Spec
VIEW Live
SYMMETRY Workers
CHECK_DEADLOCK FALSE
INVARIANTS
    TypeOK
    QueueOfPriority
    ReadsHundredfold
PROPERTIES
    SwitchToHighest
    NoInversionAfterUpdate
