--------------------------- MODULE MCMicroAllocator ---------------------------
(* Instances of MicroAllocator.                                            *)
EXTENDS MicroAllocator, TLC

CONSTANTS m1, m2

TwoModels   == {m1, m2}
LargeSmall  == (m1 :> 6) @@ (m2 :> 2)
FirstHasVar == (m1 :> 2) @@ (m2 :> 0)
Units ==
    [request |-> 1, eval |-> 1, nodes |-> 1, buffer |-> 2, handle |-> 1, info |-> 1,
     planner |-> 2, tensor |-> 1]
=============================================================================
