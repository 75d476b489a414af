SPECIFICATION Spec
CONSTANTS
    t1 = t1
    t2 = t2
    Threads <- MCTwoThreads
    NoThread = NoThread
    MaxInstances = 3
    MaxPid = 2
INVARIANTS
    NoWithdrawnInstance
    ForkSafe
PROPERTY CallsReturn
CHECK_DEADLOCK FALSE
