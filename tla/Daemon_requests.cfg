CONSTANTS
    Slots = {s1, s2}
    Calls = {c1, c2}
    MaxSessions = 2
    MaxObjects = 3
    max_sessions = 2
    max_rw_sessions = 1
    MAX_OBJECTS = 2
    Outside = {x1}
SPECIFICATION Spec
SYMMETRY Symmetry
INVARIANTS KeysStay MaterialInOneSlot CountersSound RolesSound
