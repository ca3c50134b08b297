--------------------------- MODULE MCGraphPartition ---------------------------
(***************************************************************************)
(* Every acyclic graph of four nodes, in any order of the plan, and every  *)
(* set of nodes for the delegate.  Node n writes tensor n, and reads       *)
(* tensor 0, the input of the graph, if it reads nothing else.  The        *)
(* outputs of the graph are what nobody reads, or all tensors.             *)
(***************************************************************************)
EXTENDS GraphPartition

(* What the nodes read: edges that go forward, and the nodes renumbered.   *)
Orders   == {f \in [Nodes -> Nodes] : \A i, j \in Nodes : f[i] = f[j] => i = j}
Forward  == SUBSET {e \in Nodes \X Nodes : e[1] < e[2]}
Sources(edges, f) == [n \in Nodes |-> {m \in Nodes : <<f[m], f[n]>> \in edges}]
MCDags   == {Sources(edges, f) : edges \in Forward, f \in Orders}

MCGraphs ==
    {[inputs    |-> [n \in Nodes |-> IF from[n] = {} THEN {0} ELSE from[n]],
      outputs   |-> [n \in Nodes |-> {n}],
      result    |-> IF all THEN 0 .. NumNodes ELSE Nodes \ UNION {from[n] : n \in Nodes},
      partition |-> partition] :
        from \in MCDags, partition \in SUBSET Nodes, all \in BOOLEAN}
=============================================================================
