SPECIFICATION MgSpec
CONSTANTS
    Execs = {e1}
    MaxCrashes = 1
    MaxReboots = 0
    MaxMgFaults = 0
CHECK_DEADLOCK FALSE
INVARIANT ClearRefusedOnlyWhenStarted
