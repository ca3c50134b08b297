SPECIFICATION Spec
CONSTANTS
    Graphs <- SmallGraphs
    MaxBuffers = 6
    BufferAlign = 2
INVARIANTS
    OperandsHeld
    InsidePlan
    AllPlanned
CHECK_DEADLOCK FALSE
