CONSTANTS
    NumNodes = 4
    Tensors = {0, 1, 2, 3, 4}
    Graphs <- MCGraphs
SPECIFICATION Spec
CHECK_DEADLOCK FALSE
INVARIANTS
    TypeOK
    EveryNodeOnce
    DependencyOrder
    BoundaryExact
    SubsetsMaximal
    ComputesPartition
PROPERTIES
    Terminates
