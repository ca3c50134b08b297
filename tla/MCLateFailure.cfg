CONSTANTS
    Graphs <- ChainOnly
    Sizes = {1, 2}
    LateFailures = TRUE
    Alignment = 2
    MaxMemory = 12
SPECIFICATION Spec
INVARIANTS
    PreparedForInputs
