SPECIFICATION RandomSpec
CONSTANTS
    t1 = t1
    t2 = t2
    b1 = b1
    Threads <- MCThreads
    NoThread = NoThread
    Samples = {0, 1}
    Blocks <- MCBlocks
    ZeroBlock = ZeroBlock
    NoBlock = NoBlock
    REPETITION_COUNT_CUTOFF = 3
    ADAPTIVE_PROPORTION_WINDOW = 4
    ADAPTIVE_PROPORTION_CUTOFF = 3
    STARTUP_SAMPLES = 4
    RESEED_INTERVAL = 3
    SeedLength = 2
    ReseedLength = 1
    MaxBlocks = 2
CHECK_DEADLOCK FALSE
INVARIANTS
    FaultsDetected
    GeneratorSound
PROPERTY FailureHalts
