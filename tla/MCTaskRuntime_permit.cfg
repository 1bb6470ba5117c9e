SPECIFICATION Spec
CONSTANTS
    Tasks = {t1, t2}
    Generations = {g1}
    MaxRunning = 1
    MaxQueued = 2
    Faults = {"refuses"}
    MaxFaults = 0
    MaxInstance = 1
INVARIANT PermitMeansRoom
