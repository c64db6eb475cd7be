CONSTANTS
    Procs = {p, q}
    First = p
    Devices = {0, 1, 8}
    Exceptions = {0, 13}
    Numbers = {0, 1, 2, 3, 14}
    MaxDepth = 2
    ReturnsAtomic = TRUE
SPECIFICATION FairSpec
INVARIANTS
    TypeOK
    UserInterruptible
    NoneInService
    ContextFound
PROPERTIES
    ReturnsOwnResult
    Answered
