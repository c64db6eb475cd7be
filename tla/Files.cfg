CONSTANTS
    BLOCK_SIZE = 3
    MaxBlocks = 4
    Dentries <- MCDentries
    Inodes <- MCInodes
    Procs = {0, 1}
    MaxFd <- MCMaxFd
    Names <- MCNames
    Sizes = {2, 3}
    Freqs = {1, 2}
    Rates = 2
    AnyRead = FALSE
    AnyTerminal = FALSE
SPECIFICATION FairSpec
INVARIANTS
    TypeOK
    ReadsInOrder
PROPERTIES
    Paced
    RtcReturns
