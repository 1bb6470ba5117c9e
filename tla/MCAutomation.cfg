SPECIFICATION AutoFairSpec
CONSTANTS
    Autos = {a1, a2}
    MaxExecutions = 2
    MaxNow = 1
    Every = 1
    MaxQueued = 2
    MaxRunning = 1
    MaxHistory = 1
    MaxHistoryAll = 1
    MaxVisits = 1
    MaxCalls = 2
    MaxMishaps = 1
    Triggers = {"interval", "runtime.ready", "network.default_changed"}
CHECK_DEADLOCK FALSE
INVARIANTS
    OneOwner
    ServedOnce
PROPERTIES
    KeepsContract
    DueServed
