SPECIFICATION RrSpec
CONSTANTS
    Requests = {r1, r2, r3, r4}
    NoRequest = NoRequest
    TaskIds = {i1, i2, i3}
    Window = 2
    History = 3
    MaxTerminal = 2
    MaxRetained = 3
    MaxClock = 5
    ReuseIds = FALSE
SYMMETRY Symmetry
INVARIANTS
    NeverCorrupt
    ReplayFindsItsResult
    SettlementHasRoom
