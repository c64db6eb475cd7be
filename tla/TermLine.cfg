CONSTANTS
    TerminalNum = 2
    COLS = 3
    ROWS = 2
    PromptEnd = 1
    BUFFER_SIZE = 4
    Letters = {"a"}
    Sizes = {4}
    Readers = {0}
    MaxAhead = 2
    MaxReads = 2
    AnyUser = FALSE
SPECIFICATION FairSpec
INVARIANTS
    TypeOK
    Routed
    OwnScreen
PROPERTIES
    Implements
    LineDelivered
