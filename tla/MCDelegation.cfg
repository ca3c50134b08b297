CONSTANTS
    d1 = d1
    d2 = d2
    d3 = d3
    null = null
    NoDelegate <- null
    Delegates <- MCDelegates
    AllowsDynamic = {d1}
    WantsShapes = {}
    Models <- AllModels
SPECIFICATION Spec
INVARIANTS
    TypeOK
    InvokableIsPlanned
    RunsPrepared
    StatusTruthful
    DelegatesKept
PROPERTIES
    ImplementsInference
    InvokeReturns
