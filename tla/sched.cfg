CONSTANTS
    Main = Main
    Idle = Idle
    Thread = {Main, Idle, a, b}
    NoThread = NoThread
    Sema = {s}
    NoSema = NoSema
    PRI_DEFAULT = 0
    PRI_MAX = 1
    TIME_SLICE = 2
    Durations = {1, 2}
    MaxTicks = 2
    MaxValue = 2

SPECIFICATION Spec
VIEW Live
SYMMETRY Workers
INVARIANTS
    TypeOK
    ElemOnOneList
    NoThreadForgotten
    NoLostWakeup
    NoIdlingWithWork
    InversionOnlyAfterTick
PROPERTIES
    WakesHighestWaiter
    SwitchToHighest
    WakesExactlyTheDue
    ImplementsSemaphore
