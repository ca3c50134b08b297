SPECIFICATION Spec
CONSTANTS
    Requirements <- SmallRequirements
    MaxBuffers = 4
INVARIANTS
    TypeOK
    BuffersApart
    ListSorted
    SortedOrder
    HighWaterMark
PROPERTIES
    FirstGapUsed
    SearchEnds
CHECK_DEADLOCK FALSE
