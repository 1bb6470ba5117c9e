SPECIFICATION RrSpec
CONSTANTS
    Requests = {r1, r2}
    NoRequest = NoRequest
    TaskIds = {i1, i2}
    Window = 2
    History = 3
    MaxTerminal = 2
    MaxRetained = 3
    MaxClock = 5
    ReuseIds = TRUE
INVARIANT NeverCorrupt
