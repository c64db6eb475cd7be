CONSTANTS
    MaxProcess = 4
    TerminalNum = 2
    MaxTerminalProcess = 3
    Windows = {"exec", "load", "enter", "unwind"}
    AnyTime = FALSE
SPECIFICATION Spec
INVARIANT NoStaleStack
CHECK_DEADLOCK FALSE
