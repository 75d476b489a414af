SPECIFICATION Spec
CONSTANTS
    t1 = t1
    t2 = t2
    Threads <- MCOneThread
    Slots = {0, 1}
    NoSlot = NoSlot
    MaxHandle = 3
    MaxSessions = 2
    MaxRwSessions = 1
    PersistObjects = TRUE
    Calls = {"Open", "Close", "CloseAll", "Login", "Logout", "InitToken", "Use"}
INVARIANTS
    SOExcludesReadOnly
    SessionsAgree
    SecretsErased
