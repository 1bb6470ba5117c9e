SPECIFICATION StSpec
CONSTANTS
    Execs = {e1, e2}
    Tasks = {e1}
    NoExec = NoExec
    Artifacts = {a1, a2, a3}
    NoArtifact = NoArtifact
    MaxRecords = 2
    CommitAttempts = 2
    MaxStFaults = 1
    MaxRevision = 4
CHECK_DEADLOCK FALSE
SYMMETRY Symmetry
INVARIANTS
    PublishedIsReadable
PROPERTIES
    NoLostUpdate
