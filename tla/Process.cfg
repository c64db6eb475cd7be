CONSTANTS
    MaxProcess = 6
    TerminalNum = 3
    MaxTerminalProcess = 3
    Windows = {"exec"}
    AnyTime = FALSE
SPECIFICATION Spec
INVARIANTS
    TypeOK
    ProcessTree
    NoLeak
    NoStaleStack
    RunsInItsPage
    ImagesIntact
    PidKeptForShell
PROPERTIES
    ParentOutlivesChild
    TickIsTransparent
