------------------------ MODULE MCSimpleMemoryArena ------------------------
(***************************************************************************)
(* A small instance of SimpleMemoryArena for TLC.  Two tensors and three   *)
(* entries: a tensor that is allocated again without being deallocated, as *)
(* ArenaPlanner does with persistent tensors, holds several entries.       *)
(***************************************************************************)
EXTENDS SimpleMemoryArena

CONSTANTS t1, t2

MCTensors == {t1, t2}
Symmetry  == Permutations(MCTensors)

(* What the value of a byte is matters only while it is part of a value    *)
(* that must be intact: no action and no property looks at it otherwise.   *)
View ==
    <<planVars, committed, underlying_buffer_size, slack, loopVars, callerVars,
      [b \in DOMAIN memory |-> IF memory[b] \in written THEN memory[b] ELSE Junk]>>
=============================================================================
