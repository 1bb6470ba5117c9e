SPECIFICATION MgFairSpec
CONSTANTS
    Execs = {e1, e2}
    MaxCrashes = 1
    MaxReboots = 1
    MaxMgFaults = 1
CHECK_DEADLOCK FALSE
INVARIANTS
    SuccessorOwnsWork
PROPERTIES
    WatchResolves
