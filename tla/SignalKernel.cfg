CONSTANTS
    p = p
    q = q
    Procs = {p, q}
    Handled <- MCHandledBoth
    MaxDepth = 2
    MaxFrames = 2
    KernelReturn = TRUE
SPECIFICATION Spec
INVARIANTS
    TypeOK
    FramesLeadBack
