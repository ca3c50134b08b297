---------------------------- MODULE GraphPartition ----------------------------
(***************************************************************************)
(* PartitionGraphIntoIndependentNodeSubsets (tensorflow/lite/graph_info.cc):*)
(* the execution plan is cut into node subsets, "epochs", each of nodes    *)
(* that a delegate takes or of nodes that it does not take.  Passes over   *)
(* the plan put every node that is ready and of the type of the current    *)
(* subset into it, until a pass finds none; then the next subset starts.   *)
(*                                                                         *)
(* A node is its position in the plan, an epoch the index of its subset    *)
(* (both from 1).  input_tensors and output_tensors are sets: the code     *)
(* sorts them and removes the duplicates before it returns.                *)
(***************************************************************************)
EXTENDS PartitionOps

CONSTANTS
    NumNodes,    \* num_execution_nodes()
    Tensors,     \* the tensors
    Graphs       \* the graphs: [inputs, outputs: of each node; result: outputs(); partition]

Nodes == 1 .. NumNodes

(* A graph of a model: every tensor has one writer at most, and the nodes  *)
(* can be put in an order in which writers come before readers.            *)
IsGraph(g) ==
    /\ g.inputs \in [Nodes -> SUBSET Tensors] /\ g.outputs \in [Nodes -> SUBSET Tensors]
    /\ g.result \subseteq Tensors /\ g.partition \subseteq Nodes
    /\ \A m, n \in Nodes : m # n => g.outputs[m] \cap g.outputs[n] = {}
    /\ \E rank \in [Nodes -> Nodes] :
          \A m, n \in Nodes : g.outputs[m] \cap g.inputs[n] # {} => rank[m] < rank[n]

ASSUME PartitionAssumption == NumNodes \in Nat /\ \A g \in Graphs : IsGraph(g)

VARIABLES
    graph,           \* the graph and nodes_to_partition; it does not change
    node_subsets,    \* the subsets, the last one is being built
    tensor_epochs,   \* the epoch of each tensor
    node_epochs,     \* the epoch of each node
    node_index,      \* the next node of the pass over the plan
    did_something,   \* whether the pass has assigned a node
    pc               \* "build", then "done"

vars == <<graph, node_subsets, tensor_epochs, node_epochs, node_index, did_something, pc>>

NotReady    == -1    \* kEpochNotReady
AlwaysReady == -2    \* kEpochAlwaysReady

NodeType(n) == IF n \in graph.partition THEN "partition" ELSE "non_partition"
NewSubset == [type |-> "unexplored", nodes |-> <<>>, input_tensors |-> {}, output_tensors |-> {}]

-----------------------------------------------------------------------------
(* The start of Partition and of the first BuildNodeSubset.                *)
Init ==
    /\ graph \in Graphs
    /\ node_subsets = <<NewSubset>>
    /\ tensor_epochs = [t \in Tensors |->
                          IF \E n \in Nodes : t \in graph.outputs[n] THEN NotReady ELSE AlwaysReady]
    /\ node_epochs = [n \in Nodes |-> NotReady]
    /\ node_index = 1
    /\ did_something = FALSE
    /\ pc = "build"

Epoch   == Len(node_subsets)
Current == node_subsets[Epoch]

(* Mutants of Assignable: the type, or the inputs are not looked at.       *)
AssignableAnyType(n) ==
    /\ node_epochs[n] = NotReady
    /\ \A t \in graph.inputs[n] : tensor_epochs[t] # NotReady

AssignableUnready(n) ==
    /\ node_epochs[n] = NotReady
    /\ Current.type \in {"unexplored", NodeType(n)}

(* The checks of UpdateNode: the node has no epoch yet, its inputs have    *)
(* one, and it has the type of the subset, if that has one.                *)
Assignable(n) ==
    /\ node_epochs[n] = NotReady
    /\ \A t \in graph.inputs[n] : tensor_epochs[t] # NotReady
    /\ Current.type \in {"unexplored", NodeType(n)}

(* Mutant of WithNode: the subset of an input is not told.                 *)
WithNodeOneSided(n, te) ==
    [node_subsets EXCEPT ![Epoch] =
        [type |-> NodeType(n), nodes |-> Append(Current.nodes, n),
         input_tensors |-> Current.input_tensors \cup {t \in graph.inputs[n] : te[t] # Epoch},
         output_tensors |-> Current.output_tensors]]

(* The subsets after node n has joined the last one, with the epochs te:   *)
(* inputs from elsewhere become inputs of that subset and outputs of their *)
(* own.                                                                    *)
WithNode(n, te) ==
    LET outside == {t \in graph.inputs[n] : te[t] # Epoch}
    IN  [k \in 1 .. Epoch |->
            IF k = Epoch
            THEN [Current EXCEPT !.type = NodeType(n),
                                 !.nodes = Append(@, n),
                                 !.input_tensors = @ \cup outside]
            ELSE [node_subsets[k] EXCEPT !.output_tensors = @ \cup {t \in outside : te[t] = k}]]

(* UpdateNode when it returns true.                                        *)
AssignNode ==
    /\ pc = "build"
    /\ node_index \in Nodes
    /\ Assignable(node_index)
    /\ tensor_epochs' = [t \in Tensors |->
                            IF t \in graph.outputs[node_index] THEN Epoch ELSE tensor_epochs[t]]
    /\ node_subsets' = WithNode(node_index, tensor_epochs')
    /\ node_epochs' = [node_epochs EXCEPT ![node_index] = Epoch]
    /\ did_something' = TRUE
    /\ node_index' = node_index + 1
    /\ UNCHANGED <<graph, pc>>

(* UpdateNode when it returns false.                                       *)
SkipNode ==
    /\ pc = "build"
    /\ node_index \in Nodes
    /\ ~Assignable(node_index)
    /\ node_index' = node_index + 1
    /\ UNCHANGED <<graph, node_subsets, tensor_epochs, node_epochs, did_something, pc>>

(* Mutants of NextPass: nodes counted from 0, and a flag never reset.      *)
NextPassFromZero ==
    /\ pc = "build"
    /\ node_index > NumNodes
    /\ did_something
    /\ node_index' = 0
    /\ did_something' = FALSE
    /\ UNCHANGED <<graph, node_subsets, tensor_epochs, node_epochs, pc>>

NextPassForever ==
    /\ pc = "build"
    /\ node_index > NumNodes
    /\ did_something
    /\ node_index' = 1
    /\ UNCHANGED <<graph, node_subsets, tensor_epochs, node_epochs, did_something, pc>>

(* A pass that assigned a node is followed by another one.                 *)
NextPass ==
    /\ pc = "build"
    /\ node_index > NumNodes
    /\ did_something
    /\ node_index' = 1
    /\ did_something' = FALSE
    /\ UNCHANGED <<graph, node_subsets, tensor_epochs, node_epochs, pc>>

(* Mutant of NextSubset: one pass is enough.                               *)
NextSubsetAfterPass ==
    /\ pc = "build"
    /\ node_index > NumNodes
    /\ Current.nodes # <<>>
    /\ node_subsets' = Append(node_subsets, NewSubset)
    /\ node_index' = 1
    /\ did_something' = FALSE
    /\ UNCHANGED <<graph, tensor_epochs, node_epochs, pc>>

(* BuildNodeSubset returns with nodes, and is called again.                *)
NextSubset ==
    /\ pc = "build"
    /\ node_index > NumNodes
    /\ ~did_something
    /\ Current.nodes # <<>>
    /\ node_subsets' = Append(node_subsets, NewSubset)
    /\ node_index' = 1
    /\ UNCHANGED <<graph, tensor_epochs, node_epochs, did_something, pc>>

(* BuildNodeSubset returns without nodes: the empty subset is dropped and  *)
(* the outputs of the graph become outputs of their subsets.               *)
Finish ==
    /\ pc = "build"
    /\ node_index > NumNodes
    /\ ~did_something
    /\ Current.nodes = <<>>
    /\ node_subsets' = [k \in 1 .. Epoch - 1 |->
                          [node_subsets[k] EXCEPT !.output_tensors =
                             @ \cup {t \in graph.result : tensor_epochs[t] = k}]]
    /\ pc' = "done"
    /\ UNCHANGED <<graph, tensor_epochs, node_epochs, node_index, did_something>>

Next == AssignNode \/ SkipNode \/ NextPass \/ NextSubset \/ Finish

(* The code is a loop of one thread: it goes on while it can.              *)
Spec == Init /\ [][Next]_vars /\ WF_vars(Next)

-----------------------------------------------------------------------------
Subset == [type : {"unexplored", "partition", "non_partition"}, nodes : Seq(Nodes),
           input_tensors : SUBSET Tensors, output_tensors : SUBSET Tensors]

(* Type invariant of the partition and of its loops.                       *)
TypeOK ==
    /\ graph.partition \subseteq Nodes
    /\ node_subsets \in Seq(Subset)
    /\ tensor_epochs \in [Tensors -> 1 .. NumNodes + 1 \cup {NotReady, AlwaysReady}]
    /\ node_epochs \in [Nodes -> 1 .. NumNodes + 1 \cup {NotReady}]
    /\ node_index \in 1 .. NumNodes + 1
    /\ did_something \in BOOLEAN
    /\ pc \in {"build", "done"}

NodesOf(k)    == Elements(node_subsets[k].nodes)
Reads(S)      == UNION {graph.inputs[n] : n \in S}
Writes(S)     == UNION {graph.outputs[n] : n \in S}
Rest(k)       == Nodes \ NodesOf(k)

(* The places of the new execution plan, the subsets one after the other.  *)
Places(k) == 1 .. Len(node_subsets[k].nodes)

(* The new execution plan runs every node exactly once, and in a subset of *)
(* the node's type: none is lost to a delegate that did not ask for it.    *)
EveryNodeOnce ==
    pc = "done" =>
        /\ \A n \in Nodes : \E k \in DOMAIN node_subsets : n \in NodesOf(k)
        /\ \A k, l \in DOMAIN node_subsets : \A i \in Places(k), j \in Places(l) :
              node_subsets[k].nodes[i] = node_subsets[l].nodes[j] => k = l /\ i = j
        /\ \A k \in DOMAIN node_subsets : \A n \in NodesOf(k) :
              node_subsets[k].type = NodeType(n)

(* The nodes that run before the one at place i of subset k.               *)
RunBefore(k, i) ==
    (UNION {NodesOf(l) : l \in 1 .. k - 1}) \cup {node_subsets[k].nodes[j] : j \in 1 .. i - 1}

(* "Each node sub set is in dependency order" (graph_info.h), and so are   *)
(* the subsets: what a node reads has been written before, although nodes  *)
(* are moved over others of the plan.                                      *)
DependencyOrder ==
    \A k \in DOMAIN node_subsets : \A i \in Places(k) : \A m \in Nodes :
        graph.outputs[m] \cap graph.inputs[node_subsets[k].nodes[i]] # {} => m \in RunBefore(k, i)

(* A delegate kernel gets exactly the tensors that come from outside its   *)
(* subset, all of them available by then, and is asked for exactly those   *)
(* that somebody outside needs.                                            *)
BoundaryExact ==
    pc = "done" =>
        \A k \in DOMAIN node_subsets :
            /\ node_subsets[k].input_tensors = Reads(NodesOf(k)) \ Writes(NodesOf(k))
            /\ node_subsets[k].output_tensors =
                    Writes(NodesOf(k)) \cap (Reads(Rest(k)) \cup graph.result)

(* No cut is made where none is needed: a subset is closed only when the   *)
(* nodes that are left and ready have the other type.                      *)
SubsetsMaximal ==
    \A k \in 1 .. Len(node_subsets) - 1 : node_subsets[k + 1].type # node_subsets[k].type

(* The passes, with their epochs and flags, end with the subsets that the  *)
(* definition of PartitionOps gives, nodes in the same order: the module   *)
(* Subgraph builds its execution plans from it.                            *)
ComputesPartition ==
    pc = "done" => node_subsets = Partition([n \in Nodes |-> n], graph.inputs, graph.outputs,
                                            graph.result, graph.partition)

(* The loops end.                                                          *)
Terminates == <>(pc = "done")
=============================================================================
