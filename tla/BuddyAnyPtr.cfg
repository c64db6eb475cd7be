CONSTANTS
    LOG2_ENTRIES = 3
    Lengths = {1, 8192}
    AnyPtr = TRUE
SPECIFICATION Spec
PROPERTIES
    RefusesUnused
