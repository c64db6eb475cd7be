CONSTANTS
    MaxProcess = 4
    TerminalNum = 2
    MaxTerminalProcess = 3
    Windows = {}
    AnyTime = TRUE
SPECIFICATION Spec
INVARIANT FirstHasNoParent
CHECK_DEADLOCK FALSE
