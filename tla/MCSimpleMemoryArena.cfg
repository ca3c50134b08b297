CONSTANTS
    t1 = t1
    t2 = t2
    Tensors <- MCTensors
    ArenaAlignment = 2
    Alignments = {1, 2}
    Sizes = {0, 1}
    Nodes = {0, 1}
    MaxAllocs = 3
SPECIFICATION Spec
SYMMETRY Symmetry
VIEW View
INVARIANTS
    TypeOK
    NoOverlap
    ResolvedInsideBuffer
    ContentsIntact
