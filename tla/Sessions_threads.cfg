SPECIFICATION Spec
CONSTANTS
    t1 = t1
    t2 = t2
    Threads <- MCTwoThreads
    Slots = {0}
    NoSlot = NoSlot
    MaxHandle = 3
    MaxSessions = 2
    MaxRwSessions = 1
    PersistObjects = FALSE
    Calls = {"Open", "Close", "CloseAll", "Login"}
SYMMETRY MCSymmetry
INVARIANTS
    SessionsCounted
