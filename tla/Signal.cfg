CONSTANTS
    p = p
    q = q
    Procs = {p, q}
    Handled <- MCHandled
    MaxDepth = 2
    MaxFrames = 2
    KernelReturn = FALSE
SPECIFICATION FairSpec
INVARIANTS
    MaskIsHandled
PROPERTIES
    HandlerRuns
