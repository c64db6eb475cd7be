CONSTANTS
    MaxProcess = 5
    TerminalNum = 3
    MaxTerminalProcess = 3
    Windows = {}
    AnyTime = FALSE
SPECIFICATION FairSpec
PROPERTIES
    ShellAppears
    EveryTerminalRuns
