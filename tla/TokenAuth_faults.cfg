SPECIFICATION Spec
CONSTANTS
    p1 = p1
    p2 = p2
    p3 = p3
    NoPin = NoPin
    Slots = {0}
    Pins = {p1, p3}
    ValidPins = {p1}
    MaxFailed = 2
    U32Max = 3
    PersistObjects = TRUE
    Faults = TRUE
INVARIANTS
    LimitEnforced
    AuthConsistent
