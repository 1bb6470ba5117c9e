SPECIFICATION FairSpec
CONSTANTS
    MaxGeneration = 3
    MaxFaults = 2
    MaxCrashes = 2
INVARIANTS
    NoResetUnderInstance
PROPERTIES
    EndsComplete
    RecordedResetCompletes
