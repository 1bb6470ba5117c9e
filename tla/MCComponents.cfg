SPECIFICATION ComponentsSpec
CONSTANTS
    Pieces = 1
    MaxFsFaults = 2
    MaxOutside = 1
    MaxFsFacts = 1
    Frame = 5
    MaxRows = 3
    MaxPackets = 3
    MaxStream = 6
    MaxNtFaults = 1
    Nets = {"wifi", "cell"}
    Capacity = 1
    MaxChanges = 3
    MaxRegs = 3
    MaxNeFaults = 2
    Connections = {c1, c2}
    HostCalls = 1
    MaxTokens = 2
    MaxOld = 1
    MaxMcFaults = 1
    Refs = 4
    PageSize = 1
    MaxWalks = 2
    Commands = {t1, t2, t3}
    PollLimit = 2
    Attempts = 2
    MaxKeys = 2
    MaxTnFaults = 1
    VsCalls = {1, 2, 3}
    VsLimit = 1
    VsTtl = 1
    LeaseTtl = 1
    MaxVsMoves = 1
    MaxVsOpen = 2
CHECK_DEADLOCK FALSE
INVARIANTS
    WholeDestination
    CancelledUnpublished
    ForeignKept
    AnswersWhole
    CaptureSettles
    NoChangeMissed
    NeverForgotten
    RevokedTokenRefused
    RetryableNotServed
    WalkComplete
    NothingOutlivesRefusal
    EndedCredentialUnused
    PinsHeld
PROPERTIES
    NoClobber
    InputUnderLease
