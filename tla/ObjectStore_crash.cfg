SPECIFICATION Spec
SYMMETRY Symmetry
CONSTANTS
    Threads = {t1}
    NoThread = NoThread
    Handles = {h1, h2}
    StoreKeys = {k1, k2, k3, k4}
    NoKey = NoKey
    NoMaterial = NoMaterial
    NoObject = NoObject
    Templates <- TemplatesAll
    Labels = {"a"}
    Periods <- PeriodsSome
    MaxDay = 2
    MaxEpoch = 2
    MAX_OBJECTS = 2
    Crashes = TRUE
    Faults = {"write", "delete", "clear"}
INVARIANTS
    
    DestroyIsFinal
PROPERTIES
    LoginRestores
    DurableSpec
