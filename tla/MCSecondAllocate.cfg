CONSTANTS
    m1 = m1
    m2 = m2
    BufferHead = 4
    BufferTail = 18
    Alignments = {1, 2}
    Modulus = 32
    MaxTemps = 4
    Models <- TwoModels
    NumNodes = 1
    PlanBytes <- LargeSmall
    VarBytes <- FirstHasVar
    Size <- Units
    MaxScratch = 1
    MaxRequests = 2
    BufferAlign = 2
    StructAlign = 1
    KernelTemps = 2
    Again = TRUE
SPECIFICATION Spec
INVARIANT RunsPlanned
CHECK_DEADLOCK FALSE
