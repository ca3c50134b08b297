CONSTANTS
    Graphs <- MCGraphs
    Sizes = {1, 2}
    LateFailures = FALSE
    Alignment = 2
    MaxMemory = 12
SPECIFICATION Spec
VIEW View
INVARIANTS
    TypeOK
    LiveValuesIntact
    ReadyToRun
    PreparedForInputs
    LifetimesExact
PROPERTIES
    LiveValuesStay
