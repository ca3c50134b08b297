CONSTANTS
    d1 = d1
    d2 = d2
    d3 = d3
    null = null
    NoDelegate <- null
    Delegates <- MCDelegates
    AllowsDynamic = {d1}
    WantsShapes = {}
    Models <- FallbackWithBuffer
SPECIFICATION Spec
INVARIANTS
    FallbackOutputValid
