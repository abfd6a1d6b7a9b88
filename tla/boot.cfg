CONSTANTS
    MODULUS = 8192
    INT64_RANGE = 33554432
    TIMER_FREQ = 100
    Speeds = {900, 1024, 2047, 2048, 3333, 4097}
    Jitter = 2
    Amounts = {0, 1, 9, 10, 999, 5000}
    ENTRIES = 3
    RamSizes = {2, 3, 7}
    KernelPages = {2, 4}
    KernelText <- Text
    Line <- Lines
    Option <- Options
    None = None
    LOADER_ARGS_LEN = 14

SPECIFICATION Spec
CHECK_DEADLOCK FALSE
INVARIANTS
    TypeOK
    ArgvFits
    OptionsHonoured
    RunsTheLine
    RamMapped
    CalibrationClosesIn
    DelaysRoundDown
PROPERTIES
    BootEnds
