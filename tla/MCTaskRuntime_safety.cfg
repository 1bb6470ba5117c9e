SPECIFICATION Spec
CONSTANTS
    Tasks = {t1, t2}
    Generations = {g1}
    MaxRunning = 1
    MaxQueued = 2
    Faults = {"refuses", "unsynced", "unreadable"}
    MaxFaults = 1
    MaxInstance = 2
SYMMETRY Symmetry
INVARIANTS
    TypeOK
    SettledMeansStopped
    EndFitsPublications
    SettlementIsLegal
    StoreFaultTracked
    ServingOwnsItsWork
    RequestFollowsTask
PROPERTIES
    ImplementsContract
