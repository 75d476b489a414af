SPECIFICATION Spec
CONSTANTS
    Callers = {c1, c2}
    NoCaller = NoCaller
    MaxEvents = 4
    MaxQueue = 2
    U64_MAX = 3
    MAX_LOG_LINES = 1
    MAX_ROTATED = 2
    MAX_ENTRIES = 2
    MayFail = TRUE
SYMMETRY MCSymmetry
INVARIANTS
    ToldIsDurable
    FlushDrains
    LogSound
