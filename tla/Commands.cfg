CONSTANTS
    Procs = {0, 1}
    Lines <- MCLines
    UserPrograms = {"calc", "color", "help"}
    MAX_CMD = 32
    MAX_ARGS = 10
    MAX_ARG_LEN = 32
    Overlap = FALSE
SPECIFICATION Spec
INVARIANTS
    TypeOK
    Calculated
    WordsGiven
    ColorKept
