CONSTANTS
    Main = Main
    Idle = Idle
    Thread = {Main, Idle, a, b}
    NoThread = NoThread
    Sema = {s}
    NoSema = NoSema
    PRI_DEFAULT = 1
    PRI_MAX = 1
    TIME_SLICE = 2
    Durations = {1}
    MaxTicks = 2
    MaxValue = 1

SPECIFICATION Spec
PROPERTIES
    SetPriorityLasts
