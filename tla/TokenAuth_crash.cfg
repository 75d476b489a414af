SPECIFICATION Spec
CONSTANTS
    p1 = p1
    p2 = p2
    p3 = p3
    NoPin = NoPin
    Slots = {0}
    Pins <- MCPins
    ValidPins <- MCValidPins
    MaxFailed = 3
    U32Max = 4
    PersistObjects = TRUE
    Faults = FALSE
SYMMETRY MCSymmetry
INVARIANTS
    LockoutDurable
    StateDurable
    GuessesBounded
PROPERTIES
    LockLiftedOnlyBySO
    ObjectKeyFollowsPin
