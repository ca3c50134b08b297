-------------------------- MODULE MCPlannerFindings ---------------------------
(***************************************************************************)
(* Graphs on which the program does not do what its comments say.  Tensor  *)
(* 0 is the input, 1 the output of node 0 and dynamic, 2 that of node 1,   *)
(* and 3, 4 a weight and the output of the graph.                          *)
(***************************************************************************)
EXTENDS ArenaPlanner

Op(in, out) == [inputs |-> in, outputs |-> {out}, temporaries |-> {}, constant |-> FALSE]

Kind(k2) == 0 :> "ArenaRw" @@ 1 :> "Dynamic" @@ 2 :> k2 @@ 3 :> "MmapRo" @@ 4 :> "ArenaRw"

(* Node 1 reads the dynamic output of node 0.                              *)
Chain == [nodes |-> <<Op(<<0>>, 1), Op(<<1>>, 2), Op(<<2>>, 4)>>,
          inputs |-> {0}, variables |-> {}, outputs |-> {4},
          kind |-> Kind("ArenaRw"), bytes |-> [t \in 0 .. 4 |-> 1]]

(* Node 1 unpacks a weight into a persistent tensor, behind node 0.        *)
UnpackedBehind ==
    [Chain EXCEPT !.nodes = <<Op(<<0>>, 1), [Op(<<3>>, 2) EXCEPT !.constant = TRUE],
                              Op(<<1, 2>>, 4)>>,
                  !.kind = Kind("ArenaRwPersistent")]

ChainOnly    == {Chain}
UnpackedOnly == {UnpackedBehind}
=============================================================================
