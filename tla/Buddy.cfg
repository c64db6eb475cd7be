CONSTANTS
    LOG2_ENTRIES = 3
    Lengths = {0, 4096, 4097, 16384, 32768, 32769}
    AnyPtr = FALSE
SPECIFICATION Spec
INVARIANTS
    TypeOK
    WellLinked
    Partition
    Coalesced
PROPERTIES
    Implements
