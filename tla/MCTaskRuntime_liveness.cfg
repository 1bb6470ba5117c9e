SPECIFICATION FairSpec
CONSTANTS
    Tasks = {t1}
    Generations = {g1, g2}
    MaxRunning = 1
    MaxQueued = 1
    Faults = {"refuses"}
    MaxFaults = 2
    MaxInstance = 2
PROPERTIES
    RunningTaskEnds
    StoreRecovers
    CancelAnswers
