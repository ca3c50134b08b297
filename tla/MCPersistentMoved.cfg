CONSTANTS
    Graphs <- UnpackedOnly
    Sizes = {1, 2}
    LateFailures = FALSE
    Alignment = 2
    MaxMemory = 12
SPECIFICATION Spec
INVARIANTS
    PersistentAcrossEval
