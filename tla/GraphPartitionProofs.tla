-------------------------- MODULE GraphPartitionProofs -------------------------
(***************************************************************************)
(* Proofs about GraphPartition, for every graph and every set of nodes for *)
(* the delegate: the new execution plan runs each node once, after what it *)
(* reads, in subsets that are as large as they can be and that know their  *)
(* boundaries.                                                             *)
(***************************************************************************)
EXTENDS GraphPartition, OpsProofs, FiniteSetTheorems

-----------------------------------------------------------------------------
Assigned == {n \in Nodes : node_epochs[n] # NotReady}

Ready(n) == \A t \in graph.inputs[n] : tensor_epochs[t] # NotReady

(* A node has epoch k exactly if it is in subset k, and is there once.     *)
EpochsOfNodes ==
    /\ \A n \in Nodes : node_epochs[n] \in DOMAIN node_subsets \cup {NotReady}
    /\ \A n \in Nodes : \A k \in DOMAIN node_subsets : node_epochs[n] = k <=> n \in NodesOf(k)
    /\ \A k \in DOMAIN node_subsets : \A i, j \in Places(k) :
          node_subsets[k].nodes[i] = node_subsets[k].nodes[j] => i = j

(* A tensor has the epoch of the node that writes it.                      *)
EpochsOfTensors ==
    \A t \in Tensors :
        /\ \A n \in Nodes : t \in graph.outputs[n] => tensor_epochs[t] = node_epochs[n]
        /\ (\A n \in Nodes : t \notin graph.outputs[n]) => tensor_epochs[t] = AlwaysReady

(* A subset has the type of its nodes, and only the last one may have none.*)
TypesOfSubsets ==
    /\ \A k \in DOMAIN node_subsets : \A n \in NodesOf(k) : node_subsets[k].type = NodeType(n)
    /\ \A k \in DOMAIN node_subsets :
          node_subsets[k].nodes = <<>> <=> node_subsets[k].type = "unexplored"
    /\ \A k \in DOMAIN node_subsets :
          node_subsets[k].nodes = <<>> => k = Len(node_subsets) /\ pc = "build"
    /\ pc = "build" => node_subsets # <<>>

Inputs ==
    \A k \in DOMAIN node_subsets :
        node_subsets[k].input_tensors = Reads(NodesOf(k)) \ Writes(NodesOf(k))

(* Outputs so far: for nodes that have an epoch, and in the end the graph. *)
Outputs ==
    \A k \in DOMAIN node_subsets :
        node_subsets[k].output_tensors =
            Writes(NodesOf(k)) \cap (Reads(Assigned \ NodesOf(k)) \cup
                                     (IF pc = "done" THEN graph.result ELSE {}))

(* The nodes that a pass has gone over without a change cannot be assigned.*)
PassedOver ==
    pc = "build" /\ ~did_something => \A n \in Nodes : n < node_index => ~Assignable(n)

(* While a subset is empty, the nodes that are ready do not fit into the   *)
(* one before it.                                                          *)
Closed ==
    pc = "build" /\ Current.nodes = <<>> /\ Epoch > 1 =>
        \A n \in Nodes : node_epochs[n] = NotReady /\ Ready(n) =>
            NodeType(n) # node_subsets[Epoch - 1].type

AllAssigned == pc = "done" => Assigned = Nodes

PartitionInv ==
    /\ graph \in Graphs /\ TypeOK
    /\ EpochsOfNodes /\ EpochsOfTensors /\ TypesOfSubsets
    /\ DependencyOrder /\ Inputs /\ Outputs /\ PassedOver /\ Closed /\ SubsetsMaximal
    /\ AllAssigned

-----------------------------------------------------------------------------
(* What PartitionAssumption says of the graph.                             *)
LEMMA GraphFacts ==
    ASSUME graph \in Graphs
    PROVE  /\ \A n \in Nodes : graph.inputs[n] \subseteq Tensors /\ graph.outputs[n] \subseteq Tensors
           /\ \A m, n \in Nodes : m # n => graph.outputs[m] \cap graph.outputs[n] = {}
           /\ \E rank \in [Nodes -> Nodes] : \A m, n \in Nodes :
                 graph.outputs[m] \cap graph.inputs[n] # {} => rank[m] < rank[n]
           /\ graph.result \subseteq Tensors /\ graph.partition \subseteq Nodes
           /\ NumNodes \in Nat
<1>1. IsGraph(graph) /\ NumNodes \in Nat
  BY PartitionAssumption
<1> QED BY <1>1 DEF IsGraph

(* What the types say of a subset.                                         *)
LEMMA SubsetFacts ==
    ASSUME TypeOK
    PROVE  /\ Len(node_subsets) \in Nat /\ DOMAIN node_subsets = 1 .. Len(node_subsets)
           /\ \A k \in DOMAIN node_subsets :
                 /\ node_subsets[k] \in Subset
                 /\ node_subsets[k].nodes \in Seq(Nodes) /\ Len(node_subsets[k].nodes) \in Nat
                 /\ NodesOf(k) \subseteq Nodes
<1>1. /\ Len(node_subsets) \in Nat /\ DOMAIN node_subsets = 1 .. Len(node_subsets)
      /\ node_subsets \in [1 .. Len(node_subsets) -> Subset]
  BY LenProperties DEF TypeOK
<1>2. ASSUME NEW k \in DOMAIN node_subsets
      PROVE  /\ node_subsets[k] \in Subset
             /\ node_subsets[k].nodes \in Seq(Nodes) /\ Len(node_subsets[k].nodes) \in Nat
             /\ NodesOf(k) \subseteq Nodes
  <2>1. node_subsets[k] \in Subset
    BY <1>1
  <2>2. node_subsets[k].nodes \in Seq(Nodes)
    BY <2>1 DEF Subset
  <2>3. /\ Len(node_subsets[k].nodes) \in Nat
        /\ \A i \in 1 .. Len(node_subsets[k].nodes) : node_subsets[k].nodes[i] \in Nodes
    BY <2>2, LenProperties
  <2> QED BY <2>1, <2>2, <2>3 DEF NodesOf, Elements
<1> QED BY <1>1, <1>2

(* A node is ready when all writers of its inputs have their epoch.        *)
LEMMA ReadyWhenWritten ==
    ASSUME graph \in Graphs, EpochsOfTensors, NEW n \in Nodes
    PROVE  Ready(n) <=> \A m \in Nodes : graph.outputs[m] \cap graph.inputs[n] # {} => m \in Assigned
<1>1. graph.inputs[n] \subseteq Tensors
  BY GraphFacts
<1>2. ASSUME Ready(n), NEW m \in Nodes, graph.outputs[m] \cap graph.inputs[n] # {}
      PROVE  m \in Assigned
  BY <1>1, <1>2 DEF Ready, EpochsOfTensors, Assigned
<1>3. ASSUME \A m \in Nodes : graph.outputs[m] \cap graph.inputs[n] # {} => m \in Assigned
      PROVE  Ready(n)
  <2> SUFFICES ASSUME NEW t \in graph.inputs[n] PROVE tensor_epochs[t] # NotReady
    BY DEF Ready
  <2>1. CASE \E m \in Nodes : t \in graph.outputs[m]
    <3>1. PICK m \in Nodes : t \in graph.outputs[m]
      BY <2>1
    <3> QED BY <1>1, <1>3, <3>1 DEF EpochsOfTensors, Assigned
  <2>2. CASE \A m \in Nodes : t \notin graph.outputs[m]
    BY <1>1, <2>2 DEF EpochsOfTensors, AlwaysReady, NotReady
  <2> QED BY <2>1, <2>2
<1> QED BY <1>2, <1>3

(* What nodes with an epoch read is written by nodes with an epoch.        *)
LEMMA AssignedRead ==
    ASSUME graph \in Graphs, TypeOK, EpochsOfNodes, DependencyOrder,
           NEW n \in Assigned, NEW m \in Nodes, graph.outputs[m] \cap graph.inputs[n] # {}
    PROVE  m \in Assigned
<1>1. /\ n \in Nodes /\ node_epochs[n] \in DOMAIN node_subsets
      /\ n \in NodesOf(node_epochs[n])
  BY DEF Assigned, EpochsOfNodes
<1> DEFINE k == node_epochs[n]
<1>2. PICK i \in Places(k) : node_subsets[k].nodes[i] = n
  BY <1>1 DEF NodesOf, Elements, Places
<1>3. m \in RunBefore(k, i)
  BY <1>1, <1>2 DEF DependencyOrder
<1>4. \A l \in 1 .. k - 1 : l \in DOMAIN node_subsets
  BY <1>1, SubsetFacts
<1>5. \A j \in 1 .. i - 1 : node_subsets[k].nodes[j] \in NodesOf(k)
  <2>1. i \in 1 .. Len(node_subsets[k].nodes) /\ Len(node_subsets[k].nodes) \in Nat
    BY <1>1, <1>2, SubsetFacts DEF Places
  <2> QED BY <2>1 DEF NodesOf, Elements
<1>6. \E l \in DOMAIN node_subsets : m \in NodesOf(l)
  BY <1>1, <1>3, <1>4, <1>5 DEF RunBefore
<1>7. \A l \in DOMAIN node_subsets : l # NotReady
  BY SubsetFacts DEF NotReady
<1> QED BY <1>6, <1>7 DEF EpochsOfNodes, Assigned

-----------------------------------------------------------------------------
(* The start of the partition satisfies the invariant.                     *)
LEMMA PartitionInit == Init => PartitionInv
<1> SUFFICES ASSUME Init PROVE PartitionInv
  OBVIOUS
<1>1. /\ graph \in Graphs /\ node_subsets = <<NewSubset>> /\ node_index = 1
      /\ did_something = FALSE /\ pc = "build"
      /\ node_epochs = [n \in Nodes |-> NotReady]
      /\ tensor_epochs = [t \in Tensors |->
            IF \E n \in Nodes : t \in graph.outputs[n] THEN NotReady ELSE AlwaysReady]
  BY DEF Init
<1>2. NumNodes \in Nat /\ graph.partition \subseteq Nodes
  BY <1>1, GraphFacts
<1>3. NewSubset \in Subset
  BY EmptySeq DEF NewSubset, Subset
<1>4. /\ node_subsets \in Seq(Subset) /\ Len(node_subsets) = 1
      /\ DOMAIN node_subsets = {1} /\ node_subsets[1] = NewSubset
  BY <1>1, <1>3
<1>5. TypeOK
  <2>1. node_epochs \in [Nodes -> 1 .. NumNodes + 1 \cup {NotReady}]
    BY <1>1
  <2>2. tensor_epochs \in [Tensors -> 1 .. NumNodes + 1 \cup {NotReady, AlwaysReady}]
    BY <1>1
  <2>3. node_index \in 1 .. NumNodes + 1
    BY <1>1, <1>2
  <2> QED BY <1>1, <1>2, <1>4, <2>1, <2>2, <2>3, Zenon DEF TypeOK
<1>6. /\ node_subsets[1].nodes = <<>> /\ node_subsets[1].type = "unexplored"
      /\ node_subsets[1].input_tensors = {} /\ node_subsets[1].output_tensors = {}
  BY <1>4 DEF NewSubset
<1>7. NodesOf(1) = {} /\ Places(1) = {}
  BY <1>6 DEF NodesOf, Elements, Places
<1>8. EpochsOfNodes
  BY <1>1, <1>4, <1>7 DEF EpochsOfNodes, NotReady
<1>9. EpochsOfTensors
  BY <1>1, GraphFacts DEF EpochsOfTensors
<1>10. TypesOfSubsets
  BY <1>1, <1>4, <1>6, <1>7 DEF TypesOfSubsets
<1>11. DependencyOrder
  BY <1>4, <1>7 DEF DependencyOrder
<1>12. Inputs /\ Outputs
  BY <1>1, <1>4, <1>6, <1>7 DEF Inputs, Outputs, Reads, Writes
<1>13. PassedOver /\ Closed /\ AllAssigned
  BY <1>1, <1>2, <1>4 DEF PassedOver, Closed, Epoch, AllAssigned, Nodes
<1>14. SubsetsMaximal
  BY <1>4 DEF SubsetsMaximal
<1> QED BY <1>1, <1>5, <1>8, <1>9, <1>10, <1>11, <1>12, <1>13, <1>14 DEF PartitionInv

-----------------------------------------------------------------------------
(* Subsets that are closed have a node, each its own: there are no more of *)
(* them than nodes.                                                        *)
LEMMA EpochBound ==
    ASSUME PartitionInv, pc = "build"
    PROVE  Epoch \in 1 .. NumNodes + 1
<1> DEFINE C == 1 .. Epoch - 1
           first == [k \in C |-> node_subsets[k].nodes[1]]
<1>0. NumNodes \in Nat
  BY GraphFacts DEF PartitionInv
<1>1. /\ Epoch \in Nat \ {0} /\ DOMAIN node_subsets = 1 .. Epoch
      /\ C \subseteq DOMAIN node_subsets
  <2>1. Epoch \in Nat /\ DOMAIN node_subsets = 1 .. Epoch
    BY SubsetFacts DEF PartitionInv, Epoch
  <2>2. node_subsets # <<>> /\ node_subsets \in Seq(Subset)
    BY DEF PartitionInv, TypesOfSubsets, TypeOK
  <2> QED BY <2>1, <2>2, EmptySeq DEF Epoch
<1>2. ASSUME NEW k \in C
      PROVE  first[k] \in Nodes /\ node_epochs[first[k]] = k
  <2>1. node_subsets[k].nodes # <<>> /\ k \in DOMAIN node_subsets
    BY <1>1, <1>2 DEF PartitionInv, TypesOfSubsets, Epoch
  <2>2. node_subsets[k].nodes \in Seq(Nodes) /\ NodesOf(k) \subseteq Nodes
    BY <2>1, SubsetFacts DEF PartitionInv
  <2>3. 1 \in 1 .. Len(node_subsets[k].nodes)
    BY <2>1, <2>2
  <2>4. first[k] \in NodesOf(k)
    BY <2>3 DEF NodesOf, Elements
  <2> HIDE DEF first
  <2> QED BY <2>1, <2>2, <2>4 DEF PartitionInv, EpochsOfNodes
<1>3. first \in Injection(C, Nodes)
  <2>1. first \in [C -> Nodes]
    BY <1>2
  <2> HIDE DEF first
  <2> QED BY <1>2, <2>1 DEF Injection, IsInjective
<1>4. IsFiniteSet(C) /\ Cardinality(C) = Epoch - 1
  BY <1>1, FS_Interval
<1>5. IsFiniteSet(Nodes) /\ Cardinality(Nodes) = NumNodes
  BY <1>0, FS_Interval DEF Nodes
<1>6. Cardinality(C) <= Cardinality(Nodes)
  <2> HIDE DEF C, first
  <2> QED BY <1>3, <1>4, <1>5, FS_Injection DEF ExistsInjection
<1> QED BY <1>0, <1>1, <1>4, <1>5, <1>6

-----------------------------------------------------------------------------
(* What AssignNode changes: node n joins the last subset, and its outputs  *)
(* get the epoch of it.                                                    *)
LEMMA AssignFacts ==
    ASSUME PartitionInv, AssignNode
    PROVE  LET n == node_index
           IN  /\ n \in Nodes /\ node_epochs[n] = NotReady /\ Ready(n)
               /\ Current.type \in {"unexplored", NodeType(n)}
               /\ Epoch \in 1 .. NumNodes + 1 /\ Epoch' = Epoch /\ DOMAIN node_subsets = 1 .. Epoch
               /\ DOMAIN node_subsets' = DOMAIN node_subsets
               /\ node_subsets' \in Seq(Subset)
               /\ \A k \in 1 .. Epoch - 1 :
                     /\ node_subsets'[k].nodes = node_subsets[k].nodes
                     /\ node_subsets'[k].type = node_subsets[k].type
                     /\ node_subsets'[k].input_tensors = node_subsets[k].input_tensors
                     /\ node_subsets'[k].output_tensors = node_subsets[k].output_tensors \cup
                           {t \in graph.inputs[n] : tensor_epochs'[t] = k}
               /\ node_subsets'[Epoch].nodes = Append(Current.nodes, n)
               /\ node_subsets'[Epoch].type = NodeType(n)
               /\ node_subsets'[Epoch].input_tensors = Current.input_tensors \cup
                     {t \in graph.inputs[n] : tensor_epochs'[t] # Epoch}
               /\ node_subsets'[Epoch].output_tensors = Current.output_tensors
<1> DEFINE n == node_index
           outside == {t \in graph.inputs[n] : tensor_epochs'[t] # Epoch}
           told(k) == {t \in graph.inputs[n] : tensor_epochs'[t] = k}
<1>1. /\ n \in Nodes /\ node_epochs[n] = NotReady /\ Ready(n) /\ pc = "build"
      /\ Current.type \in {"unexplored", NodeType(n)}
      /\ node_subsets' = WithNode(n, tensor_epochs')
  BY DEF AssignNode, Assignable, Ready
<1>2. Epoch \in 1 .. NumNodes + 1 /\ DOMAIN node_subsets = 1 .. Epoch /\ NumNodes \in Nat
  BY <1>1, EpochBound, SubsetFacts, GraphFacts DEF PartitionInv, Epoch
<1>3. \A k \in 1 .. Epoch : node_subsets[k] \in Subset
  BY <1>2, SubsetFacts DEF PartitionInv
<1>4. node_subsets' = [k \in 1 .. Epoch |->
          IF k = Epoch
          THEN [Current EXCEPT !.type = NodeType(n), !.nodes = Append(@, n),
                               !.input_tensors = @ \cup outside]
          ELSE [node_subsets[k] EXCEPT !.output_tensors =
                   @ \cup {t \in outside : tensor_epochs'[t] = k}]]
  BY <1>1 DEF WithNode
<1>5. /\ Current \in Subset /\ NodeType(n) \in {"unexplored", "partition", "non_partition"}
      /\ graph.inputs[n] \subseteq Tensors
  BY <1>1, <1>2, <1>3, GraphFacts DEF PartitionInv, Current, NodeType
<1>6. node_subsets'[Epoch] = [type |-> NodeType(n), nodes |-> Append(Current.nodes, n),
                              input_tensors |-> Current.input_tensors \cup outside,
                              output_tensors |-> Current.output_tensors]
  <2> HIDE DEF outside
  <2>1. node_subsets'[Epoch] = [Current EXCEPT !.type = NodeType(n), !.nodes = Append(@, n),
                                               !.input_tensors = @ \cup outside]
    BY <1>2, <1>4
  <2> QED BY <1>5, <2>1 DEF Subset
<1>7. ASSUME NEW k \in 1 .. Epoch - 1
      PROVE  node_subsets'[k] =
               [type |-> node_subsets[k].type, nodes |-> node_subsets[k].nodes,
                input_tensors |-> node_subsets[k].input_tensors,
                output_tensors |-> node_subsets[k].output_tensors \cup told(k)]
  <2>1. k \in 1 .. Epoch /\ k # Epoch /\ node_subsets[k] \in Subset
    BY <1>2, <1>3
  <2>2. {t \in outside : tensor_epochs'[t] = k} = told(k)
    BY <2>1
  <2>3. node_subsets'[k] = [node_subsets[k] EXCEPT !.output_tensors =
                              @ \cup {t \in outside : tensor_epochs'[t] = k}]
    BY <1>4, <2>1
  <2>4. node_subsets'[k] = [node_subsets[k] EXCEPT !.output_tensors = @ \cup told(k)]
    BY <2>2, <2>3
  <2> HIDE DEF told
  <2> QED BY <2>1, <2>4 DEF Subset
<1>8. \A k : told(k) \subseteq Tensors
  BY <1>5
<1>9. node_subsets' \in [1 .. Epoch -> Subset]
  <2>1. node_subsets'[Epoch] \in Subset
    <3>1. Append(Current.nodes, n) \in Seq(Nodes)
      BY <1>1, <1>5, AppendProperties DEF Subset
    <3> QED BY <1>5, <1>6, <3>1 DEF Subset
  <2>2. ASSUME NEW k \in 1 .. Epoch - 1 PROVE node_subsets'[k] \in Subset
    <3>1. node_subsets[k] \in Subset
      BY <1>2, <1>3
    <3> DEFINE out == node_subsets[k].output_tensors \cup told(k)
    <3>2. out \subseteq Tensors
      BY <1>8, <3>1 DEF Subset
    <3>3. node_subsets'[k] =
               [type |-> node_subsets[k].type, nodes |-> node_subsets[k].nodes,
                input_tensors |-> node_subsets[k].input_tensors,
                output_tensors |-> out]
      BY <1>7
    <3> HIDE DEF out
    <3> QED BY <3>1, <3>2, <3>3 DEF Subset
  <2>3. node_subsets' = [k \in 1 .. Epoch |-> node_subsets'[k]]
    BY <1>4
  <2>4. \A k \in 1 .. Epoch : node_subsets'[k] \in Subset
    BY <1>2, <2>1, <2>2
  <2> QED BY <2>3, <2>4
<1>10. node_subsets' \in Seq(Subset) /\ Len(node_subsets') = Epoch
  BY <1>2, <1>9, FunctionIsSeq
<1>11. DOMAIN node_subsets' = 1 .. Epoch
  BY <1>9
<1>12. /\ node_subsets'[Epoch].nodes = Append(Current.nodes, n)
       /\ node_subsets'[Epoch].type = NodeType(n)
       /\ node_subsets'[Epoch].input_tensors = Current.input_tensors \cup outside
       /\ node_subsets'[Epoch].output_tensors = Current.output_tensors
  BY <1>6
<1>13. \A k \in 1 .. Epoch - 1 :
          /\ node_subsets'[k].nodes = node_subsets[k].nodes
          /\ node_subsets'[k].type = node_subsets[k].type
          /\ node_subsets'[k].input_tensors = node_subsets[k].input_tensors
          /\ node_subsets'[k].output_tensors = node_subsets[k].output_tensors \cup told(k)
  <2> SUFFICES ASSUME NEW k \in 1 .. Epoch - 1
               PROVE  /\ node_subsets'[k].nodes = node_subsets[k].nodes
                      /\ node_subsets'[k].type = node_subsets[k].type
                      /\ node_subsets'[k].input_tensors = node_subsets[k].input_tensors
                      /\ node_subsets'[k].output_tensors = node_subsets[k].output_tensors \cup told(k)
    OBVIOUS
  <2> DEFINE out == node_subsets[k].output_tensors \cup told(k)
  <2>1. node_subsets'[k] =
               [type |-> node_subsets[k].type, nodes |-> node_subsets[k].nodes,
                input_tensors |-> node_subsets[k].input_tensors,
                output_tensors |-> out]
    BY <1>7
  <2>2. node_subsets'[k].output_tensors = out
    <3> HIDE DEF out
    <3> QED BY <2>1
  <2> HIDE DEF out
  <2>3. /\ node_subsets'[k].nodes = node_subsets[k].nodes
        /\ node_subsets'[k].type = node_subsets[k].type
        /\ node_subsets'[k].input_tensors = node_subsets[k].input_tensors
    BY <2>1
  <2> QED BY <2>2, <2>3 DEF out
<1>14. Epoch' = Epoch
  BY <1>10 DEF Epoch
<1> QED BY <1>1, <1>2, <1>10, <1>11, <1>12, <1>13, <1>14

(* The nodes of the subsets after AssignNode, and what has an epoch.       *)
LEMMA AssignNodes ==
    ASSUME PartitionInv, AssignNode
    PROVE  /\ \A k \in 1 .. Epoch - 1 : NodesOf(k)' = NodesOf(k) /\ Places(k)' = Places(k)
           /\ Len(Current.nodes) \in Nat
           /\ \A k \in {Epoch} :
                 /\ NodesOf(k)' = NodesOf(k) \cup {node_index}
                 /\ Places(k) = 1 .. Len(Current.nodes)
                 /\ Places(k)' = 1 .. Len(Current.nodes) + 1
                 /\ \A i \in Places(k) : node_subsets'[k].nodes[i] = node_subsets[k].nodes[i]
                 /\ node_subsets'[k].nodes[Len(Current.nodes) + 1] = node_index
           /\ Assigned' = Assigned \cup {node_index}
           /\ node_index \notin Assigned
           /\ \A m \in Nodes : node_epochs'[m] = IF m = node_index THEN Epoch ELSE node_epochs[m]
           /\ \A t \in Tensors : tensor_epochs'[t] =
                 IF t \in graph.outputs[node_index] THEN Epoch ELSE tensor_epochs[t]
           /\ graph' = graph /\ pc' = pc /\ pc = "build"
<1>1. /\ node_index \in Nodes /\ node_epochs[node_index] = NotReady
      /\ Epoch \in 1 .. NumNodes + 1 /\ Epoch' = Epoch
      /\ DOMAIN node_subsets = 1 .. Epoch /\ DOMAIN node_subsets' = 1 .. Epoch
      /\ \A k \in 1 .. Epoch - 1 : node_subsets'[k].nodes = node_subsets[k].nodes
      /\ node_subsets'[Epoch].nodes = Append(Current.nodes, node_index)
  BY AssignFacts
<1>2. Current.nodes \in Seq(Nodes) /\ Len(Current.nodes) \in Nat /\ Current = node_subsets[Epoch]
  BY <1>1, SubsetFacts DEF PartitionInv, Current
<1>3. /\ node_epochs' = [node_epochs EXCEPT ![node_index] = Epoch]
      /\ tensor_epochs' = [t \in Tensors |->
            IF t \in graph.outputs[node_index] THEN Epoch ELSE tensor_epochs[t]]
      /\ graph' = graph /\ pc' = pc /\ pc = "build"
  BY DEF AssignNode
<1>4. \A k \in 1 .. Epoch - 1 : NodesOf(k)' = NodesOf(k) /\ Places(k)' = Places(k)
  BY <1>1 DEF NodesOf, Places
<1>5. ASSUME NEW k \in {Epoch}
      PROVE  /\ NodesOf(k)' = NodesOf(k) \cup {node_index}
             /\ Places(k) = 1 .. Len(Current.nodes)
             /\ Places(k)' = 1 .. Len(Current.nodes) + 1
             /\ \A i \in Places(k) : node_subsets'[k].nodes[i] = node_subsets[k].nodes[i]
             /\ node_subsets'[k].nodes[Len(Current.nodes) + 1] = node_index
  <2> DEFINE s == Current.nodes
             a == Append(s, node_index)
  <2>1. k = Epoch /\ node_subsets'[k].nodes = a /\ node_subsets[k].nodes = s
    BY <1>1, <1>2
  <2>2. /\ Len(a) = Len(s) + 1 /\ \A i \in 1 .. Len(s) : a[i] = s[i]
        /\ a[Len(s) + 1] = node_index
    BY <1>1, <1>2, AppendProperties
  <2>3. Elements(a) = Elements(s) \cup {node_index}
    BY <1>1, <1>2, ElementsAppend
  <2> HIDE DEF s, a
  <2>4. NodesOf(k)' = NodesOf(k) \cup {node_index} /\ Places(k) = 1 .. Len(s)
        /\ Places(k)' = 1 .. Len(s) + 1
    BY <2>1, <2>2, <2>3 DEF NodesOf, Places
  <2> QED BY <2>1, <2>2, <2>4 DEF s
<1>6. \A m \in Nodes : node_epochs'[m] = IF m = node_index THEN Epoch ELSE node_epochs[m]
  BY <1>3 DEF PartitionInv, TypeOK
<1>7. Assigned' = Assigned \cup {node_index} /\ node_index \notin Assigned
  <2>1. Epoch # NotReady
    BY <1>1 DEF NotReady
  <2> QED BY <1>1, <1>6, <2>1 DEF Assigned
<1> QED BY <1>2, <1>3, <1>4, <1>5, <1>6, <1>7

(* AssignNode keeps the epochs, the types of the subsets and the order.    *)
LEMMA AssignKeepsOrder ==
    ASSUME PartitionInv, AssignNode
    PROVE  /\ TypeOK' /\ EpochsOfNodes' /\ EpochsOfTensors' /\ TypesOfSubsets'
           /\ DependencyOrder'
<1> DEFINE n == node_index
<1>1. /\ n \in Nodes /\ node_epochs[n] = NotReady /\ Ready(n) /\ n \notin Assigned
      /\ Current.type \in {"unexplored", NodeType(n)}
      /\ Epoch \in 1 .. NumNodes + 1 /\ Epoch' = Epoch /\ NumNodes \in Nat
      /\ DOMAIN node_subsets = 1 .. Epoch /\ DOMAIN node_subsets' = 1 .. Epoch
      /\ Current = node_subsets[Epoch] /\ graph' = graph /\ pc' = pc /\ pc = "build"
  BY AssignFacts, AssignNodes, GraphFacts DEF PartitionInv, Current
<1>2. \A k \in 1 .. Epoch : k = Epoch \/ k \in 1 .. Epoch - 1
  BY <1>1
<1>3. TypeOK'
  <2>1. node_subsets' \in Seq(Subset)
    BY AssignFacts
  <2>2. tensor_epochs' \in [Tensors -> 1 .. NumNodes + 1 \cup {NotReady, AlwaysReady}]
    BY <1>1 DEF PartitionInv, TypeOK, AssignNode
  <2>3. node_epochs' \in [Nodes -> 1 .. NumNodes + 1 \cup {NotReady}]
    BY <1>1 DEF PartitionInv, TypeOK, AssignNode
  <2>4. node_index' \in 1 .. NumNodes + 1
    BY <1>1 DEF AssignNode, Nodes
  <2>5. did_something' = TRUE /\ graph.partition \subseteq Nodes
    BY DEF AssignNode, PartitionInv, TypeOK
  <2> QED BY <1>1, <2>1, <2>2, <2>3, <2>4, <2>5, Zenon DEF TypeOK
<1>4. EpochsOfNodes'
  <2>1. \A m \in Nodes : node_epochs'[m] \in 1 .. Epoch \cup {NotReady}
    BY <1>1, AssignNodes DEF PartitionInv, EpochsOfNodes
  <2>2. ASSUME NEW m \in Nodes, NEW k \in 1 .. Epoch
        PROVE  node_epochs'[m] = k <=> m \in NodesOf(k)'
    <3>1. node_epochs[m] = k <=> m \in NodesOf(k)
      BY <1>1 DEF PartitionInv, EpochsOfNodes
    <3>2. n \notin NodesOf(k)
      BY <1>1 DEF PartitionInv, EpochsOfNodes, NotReady
    <3> QED BY <1>1, <1>2, <3>1, <3>2, AssignNodes
  <2>3. ASSUME NEW k \in 1 .. Epoch, NEW i \in Places(k)', NEW j \in Places(k)',
               node_subsets'[k].nodes[i] = node_subsets'[k].nodes[j]
        PROVE  i = j
    <3>1. CASE k \in 1 .. Epoch - 1
      <4>1. Places(k)' = Places(k) /\ node_subsets'[k].nodes = node_subsets[k].nodes
        BY <3>1, AssignFacts, AssignNodes
      <4> QED BY <1>1, <2>3, <4>1 DEF PartitionInv, EpochsOfNodes
    <3>2. CASE k = Epoch
      <4> DEFINE len == Len(Current.nodes)
      <4>1. /\ len \in Nat /\ Places(k)' = 1 .. len + 1 /\ Places(k) = 1 .. len
            /\ \A x \in 1 .. len : node_subsets'[k].nodes[x] = node_subsets[k].nodes[x]
            /\ node_subsets'[k].nodes[len + 1] = n
        BY <3>2, AssignNodes
      <4>2. \A x \in 1 .. len : node_subsets[k].nodes[x] # n
        <5>1. \A x \in 1 .. len : node_subsets[k].nodes[x] \in NodesOf(k)
          BY <4>1 DEF NodesOf, Elements, Places
        <5>2. n \notin NodesOf(k)
          BY <1>1 DEF PartitionInv, EpochsOfNodes, NotReady
        <5> QED BY <5>1, <5>2
      <4>3. \A x, y \in 1 .. len :
               node_subsets[k].nodes[x] = node_subsets[k].nodes[y] => x = y
        BY <1>1, <4>1 DEF PartitionInv, EpochsOfNodes
      <4> HIDE DEF len, n
      <4>4. i \in 1 .. len \/ i = len + 1
        BY <4>1
      <4>5. j \in 1 .. len \/ j = len + 1
        BY <4>1
      <4> QED BY <2>3, <4>1, <4>2, <4>3, <4>4, <4>5
    <3> QED BY <1>2, <3>1, <3>2
  <2> QED BY <1>1, <2>1, <2>2, <2>3 DEF EpochsOfNodes
<1>5. EpochsOfTensors'
  <2> SUFFICES ASSUME NEW t \in Tensors
               PROVE  /\ \A m \in Nodes : t \in graph.outputs[m] => tensor_epochs'[t] = node_epochs'[m]
                      /\ (\A m \in Nodes : t \notin graph.outputs[m]) =>
                            tensor_epochs'[t] = AlwaysReady
    BY <1>1 DEF EpochsOfTensors
  <2>1. CASE t \in graph.outputs[n]
    <3>1. \A m \in Nodes : t \in graph.outputs[m] => m = n
      BY <1>1, <2>1, GraphFacts DEF PartitionInv
    <3> QED BY <1>1, <2>1, <3>1, AssignNodes
  <2>2. CASE t \notin graph.outputs[n]
    BY <1>1, <2>2, AssignNodes DEF PartitionInv, EpochsOfTensors
  <2> QED BY <2>1, <2>2
<1>6. TypesOfSubsets'
  <2>1. \A m \in Nodes : NodeType(m)' = NodeType(m)
    BY <1>1 DEF NodeType
  <2>2. NodeType(n) # "unexplored"
    BY DEF NodeType
  <2>3. node_subsets'[Epoch].nodes # <<>> /\ node_subsets'[Epoch].type = NodeType(n)
    <3>1. Current.nodes \in Seq(Nodes)
      BY <1>1, SubsetFacts DEF PartitionInv
    <3> QED BY <1>1, <3>1, AssignFacts, AppendProperties
  <2>4. \A k \in 1 .. Epoch - 1 :
           /\ node_subsets'[k].nodes = node_subsets[k].nodes
           /\ node_subsets'[k].type = node_subsets[k].type /\ k # Epoch
    BY <1>1, AssignFacts
  <2>5. \A k \in 1 .. Epoch : NodesOf(k) \subseteq Nodes
    BY <1>1, SubsetFacts DEF PartitionInv
  <2>6. ASSUME NEW k \in 1 .. Epoch, NEW m \in NodesOf(k)'
        PROVE  node_subsets'[k].type = NodeType(m)'
    <3>1. CASE k = Epoch
      <4>1. m = n \/ m \in NodesOf(Epoch)
        BY <3>1, AssignNodes
      <4>2. m \in NodesOf(Epoch) => Current.type = NodeType(m) /\ m \in Nodes
        BY <1>1, <2>5 DEF PartitionInv, TypesOfSubsets
      <4>3. m \in NodesOf(Epoch) => NodeType(m) = NodeType(n)
        BY <1>1, <4>2 DEF NodeType
      <4> QED BY <1>1, <2>1, <2>3, <3>1, <4>1, <4>2, <4>3
    <3>2. CASE k \in 1 .. Epoch - 1
      <4>1. m \in NodesOf(k)
        BY <3>2, AssignNodes
      <4>2. node_subsets[k].type = NodeType(m) /\ m \in Nodes
        BY <1>1, <2>5, <4>1 DEF PartitionInv, TypesOfSubsets
      <4> QED BY <2>1, <2>4, <3>2, <4>2
    <3> QED BY <1>2, <3>1, <3>2
  <2>7. \A k \in 1 .. Epoch - 1 : node_subsets[k].nodes # <<>> /\ node_subsets[k].type # "unexplored"
    <3>1. \A k \in 1 .. Epoch - 1 : k \in 1 .. Epoch /\ k # Epoch
      BY <1>1
    <3> QED BY <1>1, <3>1 DEF PartitionInv, TypesOfSubsets, Epoch
  <2>8. node_subsets' # <<>>
    BY <1>1
  <2> QED BY <1>1, <1>2, <2>2, <2>3, <2>4, <2>6, <2>7, <2>8 DEF TypesOfSubsets
<1>7. DependencyOrder'
  <2> SUFFICES ASSUME NEW k \in 1 .. Epoch, NEW i \in Places(k)', NEW m \in Nodes,
                      graph.outputs[m] \cap graph.inputs[node_subsets'[k].nodes[i]] # {}
               PROVE  m \in RunBefore(k, i)'
    BY <1>1 DEF DependencyOrder
  <2>1. \A l \in 1 .. k - 1 : l \in 1 .. Epoch - 1
    BY <1>1
  <2>2. \A l \in 1 .. k - 1 : NodesOf(l)' = NodesOf(l)
    BY <2>1, AssignNodes
  <2>3. ASSUME i \in Places(k), \A j \in 1 .. i - 1 : node_subsets'[k].nodes[j] = node_subsets[k].nodes[j],
               node_subsets'[k].nodes[i] = node_subsets[k].nodes[i]
        PROVE  m \in RunBefore(k, i)'
    <3>1. m \in RunBefore(k, i)
      BY <1>1, <2>3 DEF PartitionInv, DependencyOrder
    <3> QED BY <2>2, <2>3, <3>1 DEF RunBefore
  <2>4. CASE k \in 1 .. Epoch - 1
    BY <2>3, <2>4, AssignFacts, AssignNodes
  <2>5. CASE k = Epoch
    <3> DEFINE len == Len(Current.nodes)
    <3>1. /\ len \in Nat /\ Places(k)' = 1 .. len + 1 /\ Places(k) = 1 .. len
          /\ \A x \in 1 .. len : node_subsets'[k].nodes[x] = node_subsets[k].nodes[x]
          /\ node_subsets'[k].nodes[len + 1] = n
      BY <2>5, AssignNodes
    <3>2. CASE i \in 1 .. len
      <4>1. \A j \in 1 .. i - 1 : j \in 1 .. len
        BY <3>1, <3>2
      <4> QED BY <2>3, <3>1, <3>2, <4>1
    <3>3. CASE i = len + 1
      <4>1. m \in Assigned
        BY <1>1, <3>1, <3>3, ReadyWhenWritten DEF PartitionInv
      <4>2. PICK l \in 1 .. Epoch : m \in NodesOf(l)
        BY <1>1, <4>1 DEF PartitionInv, EpochsOfNodes, Assigned
      <4>3. CASE l \in 1 .. Epoch - 1
        BY <2>2, <2>5, <4>2, <4>3 DEF RunBefore
      <4>4. CASE l = Epoch
        <5>1. PICK x \in 1 .. len : node_subsets[k].nodes[x] = m
          BY <2>5, <3>1, <4>2, <4>4 DEF NodesOf, Elements, Places
        <5>2. x \in 1 .. i - 1 /\ node_subsets'[k].nodes[x] = m
          BY <3>1, <3>3, <5>1
        <5> QED BY <5>2 DEF RunBefore
      <4> QED BY <1>2, <4>3, <4>4
    <3> QED BY <3>1, <3>2, <3>3
  <2> QED BY <1>2, <2>4, <2>5
<1> QED BY <1>3, <1>4, <1>5, <1>6, <1>7

(* A tensor has epoch k exactly if a node of subset k writes it.           *)
LEMMA WrittenIn ==
    ASSUME graph \in Graphs, TypeOK, EpochsOfNodes, EpochsOfTensors,
           NEW k \in DOMAIN node_subsets, NEW t \in Tensors
    PROVE  tensor_epochs[t] = k <=> t \in Writes(NodesOf(k))
<1>1. k # NotReady /\ k # AlwaysReady /\ NodesOf(k) \subseteq Nodes
  BY SubsetFacts DEF NotReady, AlwaysReady
<1>2. CASE \E m \in Nodes : t \in graph.outputs[m]
  <2>1. PICK m \in Nodes : t \in graph.outputs[m]
    BY <1>2
  <2>2. \A x \in Nodes : t \in graph.outputs[x] => x = m
    BY <2>1, GraphFacts
  <2>3. tensor_epochs[t] = node_epochs[m]
    BY <2>1 DEF EpochsOfTensors
  <2> QED BY <1>1, <2>1, <2>2, <2>3 DEF EpochsOfNodes, Writes
<1>3. CASE \A m \in Nodes : t \notin graph.outputs[m]
  BY <1>1, <1>3 DEF EpochsOfTensors, Writes
<1> QED BY <1>2, <1>3

(* AssignNode keeps the boundaries: what the node reads comes from its own *)
(* subset or is recorded on both sides, and nobody has read what it writes.*)
LEMMA AssignKeepsBoundaries ==
    ASSUME PartitionInv, AssignNode
    PROVE  Inputs' /\ Outputs'
<1> DEFINE n == node_index
           in == graph.inputs[n]
           out == graph.outputs[n]
           E == Epoch
<1>1. /\ n \in Nodes /\ Ready(n) /\ n \notin Assigned
      /\ E \in Nat \ {0} /\ DOMAIN node_subsets = 1 .. E /\ DOMAIN node_subsets' = 1 .. E
      /\ Current = node_subsets[E] /\ graph' = graph /\ pc' = pc /\ pc = "build"
      /\ graph \in Graphs /\ E \in 1 .. E
  BY AssignFacts, AssignNodes, GraphFacts DEF PartitionInv, Current
<1>2. \A k \in 1 .. E : k = E \/ (k \in 1 .. E - 1 /\ k # E)
  BY <1>1
<1>3. /\ TypeOK' /\ EpochsOfNodes' /\ EpochsOfTensors'
      /\ TypeOK /\ EpochsOfNodes /\ EpochsOfTensors /\ DependencyOrder /\ Inputs /\ Outputs
  BY AssignKeepsOrder DEF PartitionInv
<1>4. in \subseteq Tensors /\ out \subseteq Tensors /\ in \cap out = {}
  <2>1. in \cap out # {} => n \in Assigned
    BY <1>1, <1>3, ReadyWhenWritten
  <2> QED BY <1>1, <2>1, GraphFacts
<1>5. \A k \in 1 .. E : NodesOf(k) \subseteq Assigned /\ n \notin NodesOf(k)
  <2>1. \A k \in 1 .. E : NodesOf(k) \subseteq Nodes /\ k # NotReady
    BY <1>1, <1>3, SubsetFacts DEF NotReady
  <2> QED BY <1>1, <1>3, <2>1 DEF EpochsOfNodes, Assigned
<1>6. Reads(Assigned) \cap out = {}
  <2>1. \A m \in Assigned : graph.inputs[m] \cap out = {}
    BY <1>1, <1>3, AssignedRead
  <2> QED BY <2>1 DEF Reads
<1>7. /\ \A k \in 1 .. E - 1 : NodesOf(k)' = NodesOf(k)
      /\ \A k \in {E} : NodesOf(k)' = NodesOf(k) \cup {n}
      /\ Assigned' = Assigned \cup {n}
      /\ \A t \in Tensors : tensor_epochs'[t] = IF t \in out THEN E ELSE tensor_epochs[t]
  BY AssignNodes
<1>8. \A S : Reads(S)' = Reads(S') /\ Writes(S)' = Writes(S')
  BY <1>1 DEF Reads, Writes
<1>9. /\ \A S : Reads(S \cup {n}) = Reads(S) \cup in
      /\ \A S : Writes(S \cup {n}) = Writes(S) \cup out
  BY DEF Reads, Writes
<1>10. \A k \in 1 .. E : Writes(NodesOf(k)) \cap out = {}
  <2>1. \A m \in Assigned : m \in Nodes /\ m # n
    BY <1>1 DEF Assigned
  <2>2. \A m \in Assigned : graph.outputs[m] \cap out = {}
    BY <1>1, <2>1, GraphFacts
  <2> QED BY <1>5, <2>2 DEF Writes
<1>11. \A k \in 1 .. E : Reads(NodesOf(k)) \cap out = {}
  BY <1>5, <1>6 DEF Reads
<1>12. \A k \in 1 .. E, t \in in : tensor_epochs'[t] = k <=> t \in Writes(NodesOf(k))
  <2>1. \A k \in 1 .. E, t \in in : tensor_epochs[t] = k <=> t \in Writes(NodesOf(k))
    BY <1>1, <1>3, <1>4, WrittenIn
  <2> QED BY <1>4, <1>7, <2>1
<1> DEFINE told(k) == {t \in graph.inputs[n] : tensor_epochs'[t] = k}
<1>13. \A k \in 1 .. E : told(k) = in \cap Writes(NodesOf(k))
  BY <1>12
<1>14. in \ told(E) = {t \in in : tensor_epochs'[t] # E}
  OBVIOUS
<1>15. /\ \A k \in 1 .. E - 1 :
             /\ node_subsets'[k].input_tensors = node_subsets[k].input_tensors
             /\ node_subsets'[k].output_tensors = node_subsets[k].output_tensors \cup told(k)
       /\ node_subsets'[E].input_tensors = Current.input_tensors \cup (in \ told(E))
       /\ node_subsets'[E].output_tensors = Current.output_tensors
  BY AssignFacts, <1>14
<1> HIDE DEF n, in, out, E, told
<1>16. Inputs'
  <2> SUFFICES ASSUME NEW k \in 1 .. E
               PROVE  node_subsets'[k].input_tensors =
                          Reads(NodesOf(k)') \ Writes(NodesOf(k)')
    BY <1>1, <1>8 DEF Inputs, NodesOf, Reads, Writes
  <2>1. node_subsets[k].input_tensors = Reads(NodesOf(k)) \ Writes(NodesOf(k))
    BY <1>1, <1>3 DEF Inputs
  <2>2. CASE k # E
    BY <1>2, <1>7, <1>15, <2>1, <2>2
  <2>3. CASE k = E
    <3>1. NodesOf(k)' = NodesOf(k) \cup {n}
      BY <1>7, <2>3
    <3>2. /\ Reads(NodesOf(k)') = Reads(NodesOf(k)) \cup in
          /\ Writes(NodesOf(k)') = Writes(NodesOf(k)) \cup out
      BY <1>9, <3>1
    <3>3. node_subsets'[k].input_tensors =
             (Reads(NodesOf(k)) \ Writes(NodesOf(k))) \cup (in \ Writes(NodesOf(k)))
      BY <1>1, <1>13, <1>15, <2>1, <2>3
    <3> QED BY <1>4, <1>11, <3>2, <3>3
  <2> QED BY <2>2, <2>3
<1>17. Outputs'
  <2> SUFFICES ASSUME NEW k \in 1 .. E
               PROVE  node_subsets'[k].output_tensors =
                          Writes(NodesOf(k)') \cap Reads(Assigned' \ NodesOf(k)')
    BY <1>1, <1>8 DEF Outputs, NodesOf, Reads, Writes
  <2>1. node_subsets[k].output_tensors = Writes(NodesOf(k)) \cap Reads(Assigned \ NodesOf(k))
    BY <1>1, <1>3 DEF Outputs
  <2>2. CASE k # E
    <3>1. NodesOf(k)' = NodesOf(k)
      BY <1>2, <1>7, <2>2
    <3>2. Assigned' \ NodesOf(k)' = (Assigned \ NodesOf(k)) \cup {n}
      BY <1>5, <1>7, <3>1
    <3>3. Reads(Assigned' \ NodesOf(k)') = Reads(Assigned \ NodesOf(k)) \cup in
      BY <1>9, <3>2
    <3>4. node_subsets'[k].output_tensors =
             node_subsets[k].output_tensors \cup (in \cap Writes(NodesOf(k)))
      BY <1>2, <1>13, <1>15, <2>2
    <3> QED BY <2>1, <3>1, <3>3, <3>4
  <2>3. CASE k = E
    <3>1. NodesOf(k)' = NodesOf(k) \cup {n}
      BY <1>7, <2>3
    <3>2. Assigned' \ NodesOf(k)' = Assigned \ NodesOf(k)
      BY <1>1, <1>7, <3>1
    <3>3. Writes(NodesOf(k)') = Writes(NodesOf(k)) \cup out
      BY <1>9, <3>1
    <3>4. Reads(Assigned \ NodesOf(k)) \cap out = {}
      BY <1>6 DEF Reads
    <3> QED BY <1>1, <1>15, <2>1, <2>3, <3>2, <3>3, <3>4
  <2> QED BY <2>2, <2>3
<1> QED BY <1>16, <1>17

(* AssignNode keeps the rest: the first node of a subset does not fit into *)
(* the subset before it.                                                   *)
LEMMA AssignKeeps ==
    ASSUME PartitionInv, AssignNode
    PROVE  PartitionInv'
<1> DEFINE n == node_index
<1>1. /\ n \in Nodes /\ node_epochs[n] = NotReady /\ Ready(n)
      /\ Current.type \in {"unexplored", NodeType(n)}
      /\ Epoch \in Nat \ {0} /\ Epoch' = Epoch
      /\ DOMAIN node_subsets = 1 .. Epoch /\ DOMAIN node_subsets' = 1 .. Epoch
      /\ \A k \in 1 .. Epoch - 1 : node_subsets'[k].type = node_subsets[k].type
      /\ node_subsets'[Epoch].type = NodeType(n)
      /\ node_subsets'[Epoch].nodes = Append(Current.nodes, n)
  BY AssignFacts
<1>2. graph' = graph /\ pc' = "build" /\ did_something' = TRUE /\ pc = "build"
  BY DEF AssignNode
<1>3. PassedOver' /\ AllAssigned'
  BY <1>2 DEF PassedOver, AllAssigned
<1>4. Closed'
  <2>1. Current' = node_subsets'[Epoch]
    BY <1>1 DEF Current
  <2>2. Current.nodes \in Seq(Nodes)
    BY <1>1, SubsetFacts DEF PartitionInv, Current
  <2>3. Current'.nodes # <<>>
    BY <1>1, <2>1, <2>2, AppendProperties
  <2> QED BY <2>3 DEF Closed
<1>5. SubsetsMaximal'
  <2>1. Len(node_subsets') = Epoch /\ Len(node_subsets) = Epoch
    BY <1>1 DEF Epoch
  <2> SUFFICES ASSUME NEW k \in 1 .. Epoch - 1
               PROVE  node_subsets'[k + 1].type # node_subsets'[k].type
    BY <2>1 DEF SubsetsMaximal
  <2>2. node_subsets[k + 1].type # node_subsets[k].type
    BY <2>1 DEF PartitionInv, SubsetsMaximal
  <2>3. CASE k + 1 # Epoch
    <3>1. k + 1 \in 1 .. Epoch - 1
      BY <1>1, <2>3
    <3> QED BY <1>1, <2>2, <3>1
  <2>4. CASE k + 1 = Epoch
    <3>1. node_subsets'[k + 1].type = NodeType(n) /\ node_subsets'[k].type = node_subsets[k].type
      BY <1>1, <2>4
    <3>2. CASE Current.type = NodeType(n)
      BY <2>2, <2>4, <3>1, <3>2 DEF Current
    <3>3. CASE Current.type = "unexplored"
      <4>1. Current.nodes = <<>>
        BY <1>1, <3>3 DEF PartitionInv, TypesOfSubsets, Current
      <4>2. Epoch > 1 /\ Epoch - 1 = k
        BY <1>1, <2>4
      <4>3. NodeType(n) # node_subsets[k].type
        BY <1>1, <1>2, <4>1, <4>2 DEF PartitionInv, Closed
      <4> QED BY <3>1, <4>3
    <3> QED BY <1>1, <3>2, <3>3
  <2> QED BY <2>3, <2>4
<1>6. graph' \in Graphs
  BY <1>2 DEF PartitionInv
<1> QED BY <1>3, <1>4, <1>5, <1>6, AssignKeepsOrder, AssignKeepsBoundaries DEF PartitionInv

-----------------------------------------------------------------------------
Pass == <<graph, node_subsets, tensor_epochs, node_epochs, pc>>

(* What depends on the subsets and epochs only.                            *)
LEMMA PassKeeps ==
    ASSUME PartitionInv, UNCHANGED Pass,
           node_index' \in 1 .. NumNodes + 1, did_something' \in BOOLEAN, PassedOver'
    PROVE  PartitionInv'
<1>1. /\ graph' = graph /\ node_subsets' = node_subsets /\ tensor_epochs' = tensor_epochs
      /\ node_epochs' = node_epochs /\ pc' = pc
  BY DEF Pass
<1>2. TypeOK'
  BY <1>1, Zenon DEF PartitionInv, TypeOK
<1>3. /\ \A k : NodesOf(k)' = NodesOf(k) /\ Places(k)' = Places(k)
      /\ \A k, i : RunBefore(k, i)' = RunBefore(k, i)
      /\ \A m : NodeType(m)' = NodeType(m) /\ Ready(m)' = Ready(m)
      /\ Assigned' = Assigned /\ Epoch' = Epoch /\ Current' = Current
      /\ \A S : Reads(S)' = Reads(S') /\ Writes(S)' = Writes(S')
  BY <1>1 DEF NodesOf, Places, RunBefore, NodeType, Ready, Assigned, Epoch, Current, Reads, Writes
<1>4. EpochsOfNodes' /\ EpochsOfTensors' /\ TypesOfSubsets'
  BY <1>1, <1>3 DEF PartitionInv, EpochsOfNodes, EpochsOfTensors, TypesOfSubsets
<1>5. DependencyOrder' /\ SubsetsMaximal' /\ AllAssigned' /\ Closed'
  BY <1>1, <1>3 DEF PartitionInv, DependencyOrder, SubsetsMaximal, AllAssigned, Closed
<1>6. Inputs' /\ Outputs'
  BY <1>1 DEF PartitionInv, Inputs, Outputs, Reads, Writes, NodesOf, Assigned
<1> QED BY <1>1, <1>2, <1>4, <1>5, <1>6 DEF PartitionInv

(* SkipNode and NextPass only move on.                                     *)
LEMMA SkipKeeps ==
    ASSUME PartitionInv, SkipNode \/ NextPass
    PROVE  PartitionInv'
<1>0. NumNodes \in Nat /\ node_index \in 1 .. NumNodes + 1 /\ did_something \in BOOLEAN
  BY GraphFacts DEF PartitionInv, TypeOK
<1>1. UNCHANGED Pass
  BY DEF SkipNode, NextPass, Pass
<1>2. \A n : Assignable(n)' = Assignable(n)
  BY <1>1 DEF Pass, Assignable, Current, Epoch, NodeType
<1>3. CASE SkipNode
  <2>1. /\ node_index \in Nodes /\ ~Assignable(node_index) /\ node_index' = node_index + 1
        /\ did_something' = did_something /\ pc' = pc
    BY <1>3 DEF SkipNode
  <2>2. node_index' \in 1 .. NumNodes + 1
    BY <1>0, <2>1 DEF Nodes
  <2>3. PassedOver'
    <3> SUFFICES ASSUME pc = "build", ~did_something, NEW n \in Nodes, n < node_index + 1
                 PROVE  ~Assignable(n)
      BY <1>2, <2>1 DEF PassedOver
    <3>1. n < node_index \/ n = node_index
      BY <2>1 DEF Nodes
    <3> QED BY <2>1, <3>1 DEF PartitionInv, PassedOver
  <2> QED BY <1>0, <1>1, <2>1, <2>2, <2>3, PassKeeps
<1>4. CASE NextPass
  <2>1. node_index' = 1 /\ did_something' = FALSE
    BY <1>4 DEF NextPass
  <2>2. PassedOver'
    BY <2>1 DEF PassedOver, Nodes
  <2>3. node_index' \in 1 .. NumNodes + 1
    BY <1>0, <2>1
  <2>4. did_something' \in BOOLEAN
    BY <2>1
  <2> QED BY <1>1, <2>2, <2>3, <2>4, PassKeeps
<1> QED BY <1>3, <1>4

-----------------------------------------------------------------------------
(* A pass over all nodes has found none for the last subset.               *)
LEMMA PassDone ==
    ASSUME PartitionInv, pc = "build", node_index > NumNodes, ~did_something, NEW n \in Nodes
    PROVE  ~Assignable(n)
<1>1. NumNodes \in Nat /\ node_index \in 1 .. NumNodes + 1
  BY GraphFacts DEF PartitionInv, TypeOK
<1>2. n < node_index
  BY <1>1 DEF Nodes
<1> QED BY <1>2 DEF PartitionInv, PassedOver

(* NextSubset: what is left and ready has the other type.                  *)
LEMMA NextSubsetKeeps ==
    ASSUME PartitionInv, NextSubset
    PROVE  PartitionInv'
<1> DEFINE E == Epoch
<1>1. /\ pc = "build" /\ node_index > NumNodes /\ ~did_something /\ Current.nodes # <<>>
      /\ node_subsets' = Append(node_subsets, NewSubset) /\ node_index' = 1
      /\ graph' = graph /\ tensor_epochs' = tensor_epochs /\ node_epochs' = node_epochs
      /\ did_something' = did_something /\ pc' = pc
  BY DEF NextSubset
<1>2. /\ E \in Nat \ {0} /\ DOMAIN node_subsets = 1 .. E /\ NumNodes \in Nat
      /\ node_subsets \in Seq(Subset) /\ graph \in Graphs /\ Current = node_subsets[E]
      /\ Len(node_subsets) = E
  <2>1. E \in 1 .. NumNodes + 1 /\ NumNodes \in Nat
    BY <1>1, EpochBound, GraphFacts DEF PartitionInv
  <2>2. DOMAIN node_subsets = 1 .. E
    BY SubsetFacts DEF PartitionInv, Epoch
  <2> QED BY <2>1, <2>2 DEF PartitionInv, TypeOK, Current, Epoch
<1>3. NewSubset \in Subset
  BY EmptySeq DEF NewSubset, Subset
<1>4. /\ node_subsets' \in Seq(Subset) /\ Len(node_subsets') = E + 1
      /\ DOMAIN node_subsets' = 1 .. E + 1
      /\ \A k \in 1 .. E : node_subsets'[k] = node_subsets[k]
      /\ node_subsets'[E + 1] = NewSubset
  BY <1>1, <1>2, <1>3, AppendProperties
<1>5. /\ Epoch' = E + 1 /\ Current' = NewSubset
      /\ NewSubset.nodes = <<>> /\ NewSubset.type = "unexplored"
      /\ NewSubset.input_tensors = {} /\ NewSubset.output_tensors = {}
  BY <1>4 DEF Epoch, Current, NewSubset
<1> HIDE DEF E
<1>6. /\ \A k \in 1 .. E : NodesOf(k)' = NodesOf(k) /\ Places(k)' = Places(k)
      /\ \A k \in {E + 1} : NodesOf(k)' = {} /\ Places(k)' = {}
      /\ Assigned' = Assigned
      /\ \A m : NodeType(m)' = NodeType(m) /\ Ready(m)' = Ready(m)
      /\ \A S : Reads(S)' = Reads(S') /\ Writes(S)' = Writes(S')
  <2>1. \A k \in 1 .. E : NodesOf(k)' = NodesOf(k) /\ Places(k)' = Places(k)
    BY <1>4 DEF NodesOf, Elements, Places
  <2>2. \A k \in {E + 1} : node_subsets'[k].nodes = <<>>
    BY <1>4, <1>5
  <2>3. DOMAIN << >> = {} /\ 1 .. Len(<< >>) = {}
    OBVIOUS
  <2>4. \A k \in {E + 1} : NodesOf(k)' = {}
    BY <2>2, <2>3 DEF NodesOf, Elements
  <2>5. \A k \in {E + 1} : Places(k)' = {}
    BY <2>2, <2>3 DEF Places
  <2>6. Assigned' = Assigned /\ \A m : NodeType(m)' = NodeType(m) /\ Ready(m)' = Ready(m)
    BY <1>1, Zenon DEF Assigned, NodeType, Ready
  <2>7. \A S : Reads(S)' = Reads(S') /\ Writes(S)' = Writes(S')
    BY <1>1, Zenon DEF Reads, Writes
  <2> QED BY <2>1, <2>4, <2>5, <2>6, <2>7
<1>7. \A k \in 1 .. E + 1 : k \in 1 .. E \/ k = E + 1
  BY <1>2
<1>8. TypeOK'
  <2>1. node_index' \in 1 .. NumNodes + 1
    BY <1>1, <1>2
  <2> QED BY <1>1, <1>4, <2>1, Zenon DEF PartitionInv, TypeOK
<1>9. EpochsOfNodes'
  <2>1. \A m \in Nodes : node_epochs[m] \in 1 .. E \cup {NotReady}
    BY <1>2 DEF PartitionInv, EpochsOfNodes
  <2>2. \A m \in Nodes : node_epochs[m] # E + 1
    BY <1>2, <2>1 DEF NotReady
  <2>3. \A m \in Nodes : node_epochs[m] \in 1 .. E + 1 \cup {NotReady}
    BY <1>2, <2>1
  <2>4. \A m \in Nodes, k \in 1 .. E + 1 : node_epochs[m] = k <=> m \in NodesOf(k)'
    BY <1>2, <1>6, <1>7, <2>2 DEF PartitionInv, EpochsOfNodes
  <2>5. \A k \in 1 .. E + 1 : \A i, j \in Places(k)' :
           node_subsets'[k].nodes[i] = node_subsets'[k].nodes[j] => i = j
    BY <1>2, <1>4, <1>6, <1>7 DEF PartitionInv, EpochsOfNodes
  <2> QED BY <1>1, <1>4, <2>3, <2>4, <2>5 DEF EpochsOfNodes
<1>10. EpochsOfTensors' /\ AllAssigned'
  BY <1>1 DEF PartitionInv, EpochsOfTensors, AllAssigned
<1>11. TypesOfSubsets'
  <2>1. \A k \in 1 .. E + 1 : \A m \in NodesOf(k)' : node_subsets'[k].type = NodeType(m)'
    BY <1>2, <1>4, <1>6, <1>7 DEF PartitionInv, TypesOfSubsets
  <2>2. \A k \in 1 .. E : node_subsets[k].nodes # <<>> /\ node_subsets[k].type # "unexplored"
    BY <1>1, <1>2 DEF PartitionInv, TypesOfSubsets
  <2>3. node_subsets' # <<>>
    BY <1>2, <1>4
  <2> QED BY <1>1, <1>4, <1>5, <1>7, <2>1, <2>2, <2>3 DEF TypesOfSubsets
<1>12. DependencyOrder'
  <2> SUFFICES ASSUME NEW k \in 1 .. E + 1, NEW i \in Places(k)', NEW m \in Nodes,
                      graph.outputs[m] \cap graph.inputs[node_subsets'[k].nodes[i]] # {}
               PROVE  m \in RunBefore(k, i)'
    BY <1>1, <1>4 DEF DependencyOrder
  <2>1. k \in 1 .. E /\ i \in Places(k)
    BY <1>6, <1>7
  <2>2. m \in RunBefore(k, i)
    BY <1>2, <1>4, <2>1 DEF PartitionInv, DependencyOrder
  <2>3. \A l \in 1 .. k - 1 : l \in 1 .. E
    BY <1>2, <2>1
  <2> QED BY <1>4, <1>6, <2>1, <2>2, <2>3 DEF RunBefore
<1>13. Inputs'
  <2> SUFFICES ASSUME NEW k \in 1 .. E + 1
               PROVE  node_subsets'[k].input_tensors = Reads(NodesOf(k)') \ Writes(NodesOf(k)')
    BY <1>1, <1>4 DEF Inputs, NodesOf, Reads, Writes
  <2>1. CASE k \in 1 .. E
    BY <1>2, <1>4, <1>6, <2>1 DEF PartitionInv, Inputs
  <2>2. CASE k = E + 1
    BY <1>4, <1>5, <1>6, <2>2 DEF Reads
  <2> QED BY <1>7, <2>1, <2>2
<1>14. Outputs'
  <2> SUFFICES ASSUME NEW k \in 1 .. E + 1
               PROVE  node_subsets'[k].output_tensors =
                          Writes(NodesOf(k)') \cap Reads(Assigned \ NodesOf(k)')
    BY <1>1, <1>4, <1>6 DEF Outputs, NodesOf, Reads, Writes
  <2>1. CASE k \in 1 .. E
    BY <1>1, <1>2, <1>4, <1>6, <2>1 DEF PartitionInv, Outputs
  <2>2. CASE k = E + 1
    BY <1>4, <1>5, <1>6, <2>2 DEF Writes
  <2> QED BY <1>7, <2>1, <2>2
<1>15. PassedOver'
  BY <1>1 DEF PassedOver, Nodes
<1>16. Closed'
  <2> SUFFICES ASSUME NEW m \in Nodes, node_epochs[m] = NotReady, Ready(m)
               PROVE  NodeType(m) # node_subsets'[E].type
    <3>1. Epoch' - 1 = E
      BY <1>2, <1>5
    <3> QED BY <1>1, <1>6, <3>1 DEF Closed
  <2>1. ~Assignable(m)
    BY <1>1, PassDone
  <2>2. Current.type # NodeType(m)
    BY <2>1 DEF Assignable, Ready
  <2> QED BY <1>2, <1>4, <2>2
<1>17. SubsetsMaximal'
  <2> SUFFICES ASSUME NEW k \in 1 .. E
               PROVE  node_subsets'[k + 1].type # node_subsets'[k].type
    BY <1>2, <1>4 DEF SubsetsMaximal
  <2>1. CASE k = E
    <3>1. node_subsets[E].type # "unexplored"
      BY <1>1, <1>2 DEF PartitionInv, TypesOfSubsets
    <3> QED BY <1>4, <1>5, <2>1, <3>1
  <2>2. CASE k # E
    <3>1. k \in 1 .. E - 1 /\ k + 1 \in 1 .. E
      BY <1>2, <2>2
    <3>2. node_subsets[k + 1].type # node_subsets[k].type
      BY <1>2, <3>1 DEF PartitionInv, SubsetsMaximal
    <3> QED BY <1>4, <3>1, <3>2
  <2> QED BY <2>1, <2>2
<1>18. graph' \in Graphs
  BY <1>1, <1>2
<1> QED BY <1>8, <1>9, <1>10, <1>11, <1>12, <1>13, <1>14, <1>15, <1>16, <1>17, <1>18
        DEF PartitionInv

-----------------------------------------------------------------------------
(* When a pass finds nothing for an empty subset, every node has an epoch: *)
(* of the nodes without one, the first in an order of the graph is ready.  *)
LEMMA NoneLeft ==
    ASSUME PartitionInv, pc = "build", node_index > NumNodes, ~did_something,
           Current.nodes = <<>>
    PROVE  Assigned = Nodes
<1>0. graph \in Graphs /\ NumNodes \in Nat
  BY GraphFacts DEF PartitionInv
<1>1. PICK rank \in [Nodes -> Nodes] : \A m, n \in Nodes :
         graph.outputs[m] \cap graph.inputs[n] # {} => rank[m] < rank[n]
  BY <1>0, GraphFacts
<1>2. SUFFICES ASSUME Assigned # Nodes PROVE FALSE
  OBVIOUS
<1> DEFINE left == {rank[n] : n \in Nodes \ Assigned}
<1>3. left # {} /\ left \subseteq Nat
  BY <1>2 DEF Assigned, Nodes
<1>4. PICK x \in left : \A y \in left : ~(y < x)
  BY <1>3, Smallest
<1>5. PICK n \in Nodes \ Assigned : x = rank[n]
  BY <1>4
<1>6. \A m \in Nodes : graph.outputs[m] \cap graph.inputs[n] # {} => m \in Assigned
  BY <1>1, <1>4, <1>5
<1>7. Ready(n)
  BY <1>0, <1>5, <1>6, ReadyWhenWritten DEF PartitionInv
<1>8. Current.type = "unexplored"
  <2>1. Epoch \in DOMAIN node_subsets
    BY EpochBound, SubsetFacts DEF PartitionInv, Epoch
  <2> QED BY <2>1 DEF PartitionInv, TypesOfSubsets, Current
<1>9. Assignable(n)
  BY <1>5, <1>7, <1>8 DEF Assignable, Ready, Assigned
<1> QED BY <1>5, <1>9, PassDone

(* Finish drops the empty subset and adds the outputs of the graph.        *)
LEMMA FinishKeeps ==
    ASSUME PartitionInv, Finish
    PROVE  PartitionInv'
<1> DEFINE E == Epoch - 1
           given(k) == {t \in graph.result : tensor_epochs[t] = k}
<1>1. /\ pc = "build" /\ node_index > NumNodes /\ ~did_something /\ Current.nodes = <<>>
      /\ pc' = "done" /\ graph' = graph /\ tensor_epochs' = tensor_epochs
      /\ node_epochs' = node_epochs /\ did_something' = did_something
      /\ node_index' = node_index
  BY DEF Finish
<1>2. Assigned = Nodes
  BY <1>1, NoneLeft
<1>3. /\ E \in Nat /\ DOMAIN node_subsets = 1 .. E + 1 /\ Len(node_subsets) = E + 1
      /\ graph \in Graphs /\ Current = node_subsets[E + 1]
      /\ \A k \in 1 .. E : k \in 1 .. E + 1 /\ node_subsets[k] \in Subset
  <2>1. Epoch \in 1 .. NumNodes + 1 /\ NumNodes \in Nat
    BY <1>1, EpochBound, GraphFacts DEF PartitionInv
  <2>2. DOMAIN node_subsets = 1 .. Epoch
    BY SubsetFacts DEF PartitionInv, Epoch
  <2>3. \A k \in 1 .. Epoch : node_subsets[k] \in Subset
    BY <2>2, SubsetFacts DEF PartitionInv
  <2> QED BY <2>1, <2>2, <2>3 DEF PartitionInv, Current, Epoch
<1>4. node_subsets' = [k \in 1 .. E |-> [node_subsets[k] EXCEPT !.output_tensors = @ \cup given(k)]]
  BY DEF Finish
<1>5. \A k : given(k) \subseteq Tensors
  BY <1>3, GraphFacts
<1>6. NodesOf(E + 1) = {}
  BY <1>1, <1>3 DEF NodesOf, Elements
<1> HIDE DEF E
<1>7. ASSUME NEW k \in 1 .. E
      PROVE  /\ node_subsets'[k] \in Subset
             /\ node_subsets'[k].nodes = node_subsets[k].nodes
             /\ node_subsets'[k].type = node_subsets[k].type
             /\ node_subsets'[k].input_tensors = node_subsets[k].input_tensors
             /\ node_subsets'[k].output_tensors = node_subsets[k].output_tensors \cup given(k)
  <2> DEFINE out == node_subsets[k].output_tensors \cup given(k)
  <2>1. node_subsets'[k] = [node_subsets[k] EXCEPT !.output_tensors = out]
    BY <1>4
  <2>2. node_subsets[k] \in Subset /\ out \subseteq Tensors
    BY <1>3, <1>5 DEF Subset
  <2>3. /\ node_subsets'[k] \in Subset
        /\ node_subsets'[k].nodes = node_subsets[k].nodes
        /\ node_subsets'[k].type = node_subsets[k].type
        /\ node_subsets'[k].input_tensors = node_subsets[k].input_tensors
        /\ node_subsets'[k].output_tensors = out
    <3> HIDE DEF out
    <3> QED BY <2>1, <2>2 DEF Subset
  <2> QED BY <2>3
<1>8. /\ node_subsets' \in Seq(Subset) /\ Len(node_subsets') = E /\ DOMAIN node_subsets' = 1 .. E
  <2>1. DOMAIN node_subsets' = 1 .. E /\ node_subsets' = [k \in 1 .. E |-> node_subsets'[k]]
    BY <1>4
  <2>2. node_subsets' \in [1 .. E -> Subset]
    BY <1>7, <2>1
  <2> QED BY <1>3, <2>1, <2>2, FunctionIsSeq
<1> HIDE DEF given
<1>9. /\ \A k \in 1 .. E : NodesOf(k)' = NodesOf(k) /\ Places(k)' = Places(k)
      /\ Assigned' = Assigned
      /\ \A m : NodeType(m)' = NodeType(m)
  BY <1>1, <1>7 DEF NodesOf, Places, Assigned, NodeType
<1>10. TypeOK'
  BY <1>1, <1>8, Zenon DEF PartitionInv, TypeOK
<1>11. EpochsOfNodes'
  <2>1. \A m \in Nodes : node_epochs[m] \in 1 .. E + 1
    BY <1>2, <1>3 DEF PartitionInv, EpochsOfNodes, Assigned
  <2>2. \A m \in Nodes : node_epochs[m] # E + 1
    BY <1>3, <1>6, <2>1 DEF PartitionInv, EpochsOfNodes
  <2>3. \A m \in Nodes : node_epochs[m] \in 1 .. E
    BY <1>3, <2>1, <2>2
  <2> QED BY <1>1, <1>3, <1>7, <1>8, <1>9, <2>3 DEF PartitionInv, EpochsOfNodes
<1>12. EpochsOfTensors'
  BY <1>1 DEF PartitionInv, EpochsOfTensors
<1>13. AllAssigned' /\ PassedOver' /\ Closed'
  BY <1>1, <1>2, <1>9 DEF AllAssigned, PassedOver, Closed
<1>14. TypesOfSubsets'
  <2>1. \A k \in 1 .. E : node_subsets[k].nodes # <<>> /\ k # E + 1
    BY <1>3 DEF PartitionInv, TypesOfSubsets
  <2> QED BY <1>1, <1>3, <1>7, <1>8, <1>9, <2>1 DEF PartitionInv, TypesOfSubsets
<1>15. DependencyOrder'
  <2> SUFFICES ASSUME NEW k \in 1 .. E, NEW i \in Places(k), NEW m \in Nodes,
                      graph.outputs[m] \cap graph.inputs[node_subsets[k].nodes[i]] # {}
               PROVE  m \in RunBefore(k, i)'
    BY <1>1, <1>7, <1>8, <1>9 DEF DependencyOrder
  <2>1. m \in RunBefore(k, i)
    BY <1>3 DEF PartitionInv, DependencyOrder
  <2>2. \A l \in 1 .. k - 1 : l \in 1 .. E
    BY <1>3
  <2> QED BY <1>7, <1>9, <2>1, <2>2 DEF RunBefore
<1>16. Inputs'
  <2> SUFFICES ASSUME NEW k \in 1 .. E
               PROVE  node_subsets'[k].input_tensors = Reads(NodesOf(k)') \ Writes(NodesOf(k)')
    BY <1>1, <1>8 DEF Inputs, NodesOf, Reads, Writes
  <2> QED BY <1>3, <1>7, <1>9 DEF PartitionInv, Inputs
<1>17. Outputs'
  <2> SUFFICES ASSUME NEW k \in 1 .. E
               PROVE  node_subsets'[k].output_tensors =
                          Writes(NodesOf(k)) \cap (Reads(Assigned \ NodesOf(k)) \cup graph.result)
    BY <1>1, <1>8, <1>9 DEF Outputs, NodesOf, Reads, Writes
  <2>1. node_subsets[k].output_tensors = Writes(NodesOf(k)) \cap Reads(Assigned \ NodesOf(k))
    BY <1>1, <1>3 DEF PartitionInv, Outputs
  <2>2. given(k) = graph.result \cap Writes(NodesOf(k))
    <3>1. graph.result \subseteq Tensors
      BY <1>3, GraphFacts
    <3>2. \A t \in Tensors : tensor_epochs[t] = k <=> t \in Writes(NodesOf(k))
      BY <1>3, WrittenIn DEF PartitionInv
    <3> QED BY <3>1, <3>2 DEF given
  <2> QED BY <1>7, <2>1, <2>2
<1>18. SubsetsMaximal'
  <2> SUFFICES ASSUME NEW k \in 1 .. E - 1
               PROVE  node_subsets'[k + 1].type # node_subsets'[k].type
    BY <1>8 DEF SubsetsMaximal
  <2>1. k \in 1 .. E /\ k + 1 \in 1 .. E
    BY <1>3
  <2>2. node_subsets[k + 1].type # node_subsets[k].type
    BY <1>3, <2>1 DEF PartitionInv, SubsetsMaximal
  <2> QED BY <1>7, <2>1, <2>2
<1> QED BY <1>1, <1>3, <1>10, <1>11, <1>12, <1>13, <1>14, <1>15, <1>16, <1>17, <1>18
        DEF PartitionInv

-----------------------------------------------------------------------------
(* The invariant holds in every state, for every graph.                    *)
LEMMA PartitionInvariant == Spec => []PartitionInv
<1>1. ASSUME PartitionInv, [Next]_vars
      PROVE  PartitionInv'
  <2>1. CASE UNCHANGED vars
    <3>1. UNCHANGED Pass /\ node_index' = node_index /\ did_something' = did_something
      BY <2>1 DEF vars, Pass
    <3>2. PassedOver'
      BY <1>1, <3>1 DEF PartitionInv, PassedOver, Pass, Assignable, Current, Epoch, NodeType
    <3>3. node_index' \in 1 .. NumNodes + 1 /\ did_something' \in BOOLEAN
      BY <1>1, <3>1, Zenon DEF PartitionInv, TypeOK
    <3> QED BY <1>1, <3>1, <3>2, <3>3, PassKeeps
  <2> QED BY <1>1, <2>1, AssignKeeps, SkipKeeps, NextSubsetKeeps, FinishKeeps DEF Next
<1> QED BY <1>1, PartitionInit, PTL DEF Spec

(* The partition of every graph has its types; in particular there are     *)
(* never more subsets than nodes, and one that is empty.                   *)
THEOREM PartitionTypeCorrect == Spec => []TypeOK
<1>1. PartitionInv => TypeOK
  BY DEF PartitionInv
<1> QED BY <1>1, PartitionInvariant, PTL

(* The new execution plan of PartitionGraphIntoIndependentNodeSubsets runs *)
(* each node of the model once, in a subset of its type.                   *)
THEOREM NodesRunOnce == Spec => []EveryNodeOnce
<1>1. ASSUME PartitionInv, pc = "done" PROVE
          /\ \A n \in Nodes : \E k \in DOMAIN node_subsets : n \in NodesOf(k)
          /\ \A k, l \in DOMAIN node_subsets : \A i \in Places(k), j \in Places(l) :
                node_subsets[k].nodes[i] = node_subsets[l].nodes[j] => k = l /\ i = j
          /\ \A k \in DOMAIN node_subsets : \A n \in NodesOf(k) :
                node_subsets[k].type = NodeType(n)
  <2>1. \A n \in Nodes : node_epochs[n] \in DOMAIN node_subsets /\ n \in NodesOf(node_epochs[n])
    BY <1>1 DEF PartitionInv, AllAssigned, Assigned, EpochsOfNodes
  <2>2. ASSUME NEW k \in DOMAIN node_subsets, NEW l \in DOMAIN node_subsets,
               NEW i \in Places(k), NEW j \in Places(l),
               node_subsets[k].nodes[i] = node_subsets[l].nodes[j]
        PROVE  k = l /\ i = j
    <3> DEFINE n == node_subsets[k].nodes[i]
    <3>1. n \in NodesOf(k) /\ n \in NodesOf(l) /\ n \in Nodes
      BY <1>1, <2>2, SubsetFacts DEF NodesOf, Elements, Places, PartitionInv
    <3>2. node_epochs[n] = k /\ node_epochs[n] = l
      BY <1>1, <3>1 DEF PartitionInv, EpochsOfNodes
    <3> QED BY <1>1, <2>2, <3>2 DEF PartitionInv, EpochsOfNodes
  <2> QED BY <1>1, <2>1, <2>2 DEF PartitionInv, TypesOfSubsets
<1>2. PartitionInv => EveryNodeOnce
  BY <1>1 DEF EveryNodeOnce
<1> QED BY <1>2, PartitionInvariant, PTL

(* Although nodes are moved over others of the plan, each one runs after   *)
(* the nodes that write what it reads.                                     *)
THEOREM DependenciesKept == Spec => []DependencyOrder
<1>1. PartitionInv => DependencyOrder
  BY DEF PartitionInv
<1> QED BY <1>1, PartitionInvariant, PTL

(* The inputs and outputs that a delegate is told are exactly those that   *)
(* cross the boundary of its subset.                                       *)
THEOREM BoundariesExact == Spec => []BoundaryExact
<1>1. ASSUME PartitionInv, pc = "done", NEW k \in DOMAIN node_subsets
      PROVE  /\ node_subsets[k].input_tensors = Reads(NodesOf(k)) \ Writes(NodesOf(k))
             /\ node_subsets[k].output_tensors =
                  Writes(NodesOf(k)) \cap (Reads(Rest(k)) \cup graph.result)
  <2>1. Rest(k) = Assigned \ NodesOf(k)
    BY <1>1 DEF PartitionInv, AllAssigned, Rest
  <2> QED BY <1>1, <2>1 DEF PartitionInv, Inputs, Outputs
<1>2. PartitionInv => BoundaryExact
  BY <1>1 DEF BoundaryExact
<1> QED BY <1>2, PartitionInvariant, PTL

(* No cut is made where none is needed.                                    *)
THEOREM SubsetsAreMaximal == Spec => []SubsetsMaximal
<1>1. PartitionInv => SubsetsMaximal
  BY DEF PartitionInv
<1> QED BY <1>1, PartitionInvariant, PTL

-----------------------------------------------------------------------------
(* The loop computes what PartitionOps defines with folds.  g is a graph,  *)
(* B the nodes that are in subsets, type the type of the next subset.      *)

Plan == [n \in Nodes |-> n]

ReadyIn(g, B, n) == ReadyAfter(Plan, g.inputs, g.outputs, B, n)

(* One iteration of a pass.                                                *)
Joined(g, type, B, ns, n) ==
    IF n \notin B \cup Elements(ns) /\ TypeIn(g.partition, n) = type /\ ReadyIn(g, B \cup Elements(ns), n)
    THEN Append(ns, n) ELSE ns

OnePass(g, type, B, ns) == PassOver(Plan, g.inputs, g.outputs, g.partition, type, B, ns)

(* The plan is the identity on the nodes.                                  *)
LEMMA PlanFacts ==
    /\ NumNodes \in Nat /\ Nodes = 1 .. NumNodes /\ Len(Plan) = NumNodes
    /\ Plan \in Seq(Nodes) /\ \A k \in Nodes : Plan[k] = k
    /\ Elements(Plan) = Nodes
<1>1. NumNodes \in Nat /\ Nodes = 1 .. NumNodes
  BY PartitionAssumption DEF Nodes
<1>2. Plan \in [1 .. NumNodes -> Nodes] /\ \A k \in Nodes : Plan[k] = k
  BY <1>1 DEF Plan
<1>3. Plan \in Seq(Nodes) /\ Len(Plan) = NumNodes
  BY <1>1, <1>2, FunctionIsSeq
<1>4. Elements(Plan) = Nodes
  BY <1>1, <1>2, <1>3 DEF Elements
<1> QED BY <1>1, <1>2, <1>3, <1>4

(* Looking at a node leaves a list of nodes.                               *)
LEMMA JoinedType ==
    ASSUME NEW g, NEW type, NEW B, NEW ns \in Seq(Nodes), NEW n \in Nodes
    PROVE  Joined(g, type, B, ns, n) \in Seq(Nodes)
<1> HIDE DEF Nodes
<1> QED BY AppendProperties DEF Joined

(* A pass, iteration by iteration.                                         *)
IsPassRun(f, g, type, B, s) ==
    /\ f \in [0 .. NumNodes -> Seq(Nodes)] /\ f[0] = s
    /\ \A k \in 1 .. NumNodes : f[k] = Joined(g, type, B, f[k - 1], k)
    /\ OnePass(g, type, B, s) = f[NumNodes]

(* The states of one pass of the fold.                                     *)
LEMMA PassRuns ==
    ASSUME NEW g, NEW type, NEW B, NEW s \in Seq(Nodes)
    PROVE  \E f : IsPassRun(f, g, type, B, s)
<1> DEFINE n == NumNodes
           step == [k \in 1 .. n |-> [x \in Seq(Nodes) |-> Joined(g, type, B, x, k)]]
           After(f) == [k \in 0 .. Len(Plan) |->
                          IF k = 0 THEN s
                          ELSE IF /\ Plan[k] \notin B \cup Elements(f[k - 1])
                                  /\ TypeIn(g.partition, Plan[k]) = type
                                  /\ ReadyAfter(Plan, g.inputs, g.outputs,
                                                B \cup Elements(f[k - 1]), Plan[k])
                               THEN Append(f[k - 1], Plan[k])
                               ELSE f[k - 1]]
           run == CHOOSE f : f = After(f)
<1>1. n \in Nat /\ Nodes = 1 .. n /\ Len(Plan) = n /\ \A k \in 1 .. n : Plan[k] = k
  BY PlanFacts
<1>2. OnePass(g, type, B, s) = run[n]
  <2>1. OnePass(g, type, B, s) = run[Len(Plan)]
    BY DEF OnePass, PassOver, Fold
  <2> QED BY <1>1, <2>1
<1>3. ASSUME NEW f, NEW k \in 1 .. n PROVE After(f)[k] = Joined(g, type, B, f[k - 1], k)
  <2>1. k \in 0 .. Len(Plan) /\ k # 0 /\ Plan[k] = k
    BY <1>1
  <2> QED BY <2>1 DEF Joined, ReadyIn
<1>4. ASSUME NEW f PROVE After(f)[0] = s /\ After(f) = [k \in 0 .. n |-> After(f)[k]]
  BY <1>1
<1> HIDE DEF After
<1>5. \E f : f = After(f)
  <2>1. step \in Steps(Seq(Nodes), n)
    BY <1>1, JoinedType DEF Steps
  <2>2. PICK f : IsIteration(f, Seq(Nodes), n, s, step)
    <3> HIDE DEF step, n
    <3> QED BY <1>1, <2>1, IterationExists, Zenon
  <2>3. \A k \in 1 .. n : f[k - 1] \in Seq(Nodes)
    BY <1>1, <2>2 DEF IsIteration
  <2>4. \A k \in 1 .. n : f[k] = Joined(g, type, B, f[k - 1], k)
    BY <2>2, <2>3 DEF IsIteration
  <2>5. f \in [0 .. n -> Seq(Nodes)] /\ f[0] = s
    BY <2>2 DEF IsIteration
  <2>6. \A k \in 0 .. n : f[k] = After(f)[k]
    <3>1. \A k \in 0 .. n : k = 0 \/ k \in 1 .. n
      BY <1>1
    <3> QED BY <1>3, <1>4, <2>4, <2>5, <3>1
  <2>7. f = After(f)
    BY <1>4, <2>5, <2>6
  <2> QED BY <2>7
<1>6. run = After(run)
  BY <1>5
<1> HIDE DEF run
<1>7. run[0] = s /\ \A k \in 1 .. n : run[k] = Joined(g, type, B, run[k - 1], k)
  BY <1>3, <1>4, <1>6
<1> DEFINE T == {k \in 0 .. n : run[k] \in Seq(Nodes)}
<1>8. 0 \in T
  BY <1>1, <1>7
<1>9. ASSUME NEW k \in 1 .. n, k - 1 \in T PROVE k \in T
  <2>1. run[k - 1] \in Seq(Nodes) /\ k \in Nodes /\ k \in 0 .. n
    BY <1>1, <1>9
  <2>2. Joined(g, type, B, run[k - 1], k) \in Seq(Nodes)
    BY <2>1, JoinedType, Zenon
  <2> QED BY <1>7, <2>1, <2>2
<1>10. \A k \in 0 .. n : k \in T
  <2> HIDE DEF T, n
  <2> QED BY <1>1, <1>8, <1>9, UpTo
<1>11. run \in [0 .. n -> Seq(Nodes)]
  <2>1. run = [k \in 0 .. n |-> run[k]]
    BY <1>4, <1>6
  <2>2. \A k \in 0 .. n : run[k] \in Seq(Nodes)
    BY <1>10
  <2> HIDE DEF n
  <2> QED BY <2>1, <2>2
<1> QED BY <1>2, <1>7, <1>11 DEF IsPassRun

(* The passes of a subset, one for each node of the plan.                  *)
AllPasses(g, type, B) ==
    Fold(LAMBDA ns, k : PassOver(Plan, g.inputs, g.outputs, g.partition, type, B, ns), <<>>, Plan)

IsPasses(h, g, type, B) ==
    /\ h \in [0 .. NumNodes -> Seq(Nodes)] /\ h[0] = <<>>
    /\ \A k \in 1 .. NumNodes : h[k] = OnePass(g, type, B, h[k - 1])
    /\ AllPasses(g, type, B) = h[NumNodes]

(* A pass leaves a list of nodes.                                          *)
LEMMA OnePassType ==
    ASSUME NEW g, NEW type, NEW B, NEW s \in Seq(Nodes)
    PROVE  OnePass(g, type, B, s) \in Seq(Nodes)
<1>1. PICK f : IsPassRun(f, g, type, B, s)
  BY PassRuns
<1>2. NumNodes \in 0 .. NumNodes
  BY PlanFacts
<1> QED BY <1>1, <1>2 DEF IsPassRun

(* The states of the fold between its passes.                              *)
LEMMA PassesRun ==
    ASSUME NEW g, NEW type, NEW B
    PROVE  \E h : IsPasses(h, g, type, B)
<1> DEFINE n == NumNodes
           step == [k \in 1 .. n |-> [x \in Seq(Nodes) |-> OnePass(g, type, B, x)]]
           After(f) == [k \in 0 .. Len(Plan) |->
                          IF k = 0 THEN <<>>
                          ELSE PassOver(Plan, g.inputs, g.outputs, g.partition, type, B, f[k - 1])]
           run == CHOOSE f : f = After(f)
<1>1. n \in Nat /\ Nodes = 1 .. n /\ Len(Plan) = n /\ <<>> \in Seq(Nodes)
  BY PlanFacts
<1>2. AllPasses(g, type, B) = run[n]
  <2>1. AllPasses(g, type, B) = run[Len(Plan)]
    BY DEF AllPasses, Fold
  <2> QED BY <1>1, <2>1
<1>3. ASSUME NEW f, NEW k \in 1 .. n PROVE After(f)[k] = OnePass(g, type, B, f[k - 1])
  <2>1. k \in 0 .. Len(Plan) /\ k # 0
    BY <1>1
  <2> QED BY <2>1 DEF OnePass
<1>4. ASSUME NEW f PROVE After(f)[0] = <<>> /\ After(f) = [k \in 0 .. n |-> After(f)[k]]
  BY <1>1
<1> HIDE DEF After
<1>5. \E f : f = After(f)
  <2>1. step \in Steps(Seq(Nodes), n)
    BY <1>1, OnePassType DEF Steps
  <2>2. PICK f : IsIteration(f, Seq(Nodes), n, <<>>, step)
    <3> HIDE DEF step, n
    <3> QED BY <1>1, <2>1, IterationExists, Zenon
  <2>3. \A k \in 1 .. n : f[k - 1] \in Seq(Nodes)
    BY <1>1, <2>2 DEF IsIteration
  <2>4. \A k \in 1 .. n : f[k] = OnePass(g, type, B, f[k - 1])
    BY <2>2, <2>3 DEF IsIteration
  <2>5. f \in [0 .. n -> Seq(Nodes)] /\ f[0] = <<>>
    BY <2>2 DEF IsIteration
  <2>6. \A k \in 0 .. n : f[k] = After(f)[k]
    <3>1. \A k \in 0 .. n : k = 0 \/ k \in 1 .. n
      BY <1>1
    <3> QED BY <1>3, <1>4, <2>4, <2>5, <3>1
  <2>7. f = After(f)
    BY <1>4, <2>5, <2>6
  <2> QED BY <2>7
<1>6. run = After(run)
  BY <1>5
<1> HIDE DEF run
<1>7. run[0] = <<>> /\ \A k \in 1 .. n : run[k] = OnePass(g, type, B, run[k - 1])
  BY <1>3, <1>4, <1>6
<1> DEFINE T == {k \in 0 .. n : run[k] \in Seq(Nodes)}
<1>8. 0 \in T
  <2>1. 0 \in 0 .. n
    BY <1>1
  <2>2. run[0] \in Seq(Nodes)
    BY <1>1, <1>7, Zenon
  <2> QED BY <2>1, <2>2
<1>9. ASSUME NEW k \in 1 .. n, k - 1 \in T PROVE k \in T
  <2>1. run[k - 1] \in Seq(Nodes) /\ k \in 0 .. n
    BY <1>1, <1>9
  <2>2. OnePass(g, type, B, run[k - 1]) \in Seq(Nodes)
    BY <2>1, OnePassType, Zenon
  <2> QED BY <1>7, <2>1, <2>2
<1>10. \A k \in 0 .. n : k \in T
  <2> HIDE DEF T, n
  <2> QED BY <1>1, <1>8, <1>9, UpTo
<1>11. run \in [0 .. n -> Seq(Nodes)]
  <2>1. run = [k \in 0 .. n |-> run[k]]
    BY <1>4, <1>6
  <2>2. \A k \in 0 .. n : run[k] \in Seq(Nodes)
    BY <1>10
  <2> HIDE DEF n
  <2> QED BY <2>1, <2>2
<1> QED BY <1>2, <1>7, <1>11 DEF IsPasses

(* The first node that may start a subset gives it its type.               *)
OpenIn(g, B, n) == n \notin B /\ ReadyIn(g, B, n)
IsFirst(g, B, k) == k \in Nodes /\ OpenIn(g, B, k) /\ \A j \in 1 .. k - 1 : ~OpenIn(g, B, j)
TypeAt(g, B) == TypeIn(g.partition, CHOOSE k : IsFirst(g, B, k))
NextIn(g, B) == NextNodes(Plan, g.inputs, g.outputs, g.partition, B)

(* There is one first open node at most.                                   *)
LEMMA FirstUnique ==
    ASSUME NEW g, NEW B, NEW k, NEW l, IsFirst(g, B, k), IsFirst(g, B, l)
    PROVE  k = l
<1>1. k \in Nat /\ l \in Nat /\ 1 <= k /\ 1 <= l
  BY PlanFacts DEF IsFirst
<1>2. l < k => l \in 1 .. k - 1
  BY <1>1
<1>3. k < l => k \in 1 .. l - 1
  BY <1>1
<1>4. ~(l < k) /\ ~(k < l)
  BY <1>2, <1>3 DEF IsFirst
<1> QED BY <1>1, <1>4

(* If a node is open there is a first open one.                            *)
LEMMA FirstExists ==
    ASSUME NEW g, NEW B, NEW m \in Nodes, OpenIn(g, B, m)
    PROVE  \E k : IsFirst(g, B, k)
<1> DEFINE S == {j \in Nodes : OpenIn(g, B, j)}
<1>1. S \in SUBSET Nat /\ S # {} /\ NumNodes \in Nat /\ Nodes = 1 .. NumNodes
  BY PlanFacts
<1>2. PICK k \in S : \A j \in S : ~(j < k)
  <2> HIDE DEF S
  <2> QED BY <1>1, Smallest
<1>3. \A j \in 1 .. k - 1 : j \in Nodes /\ j < k
  BY <1>1, <1>2
<1> QED BY <1>2, <1>3 DEF IsFirst

(* The type of the next subset is that of the first open node.             *)
LEMMA TypeAtFirst ==
    ASSUME NEW g, NEW B, NEW k, IsFirst(g, B, k)
    PROVE  TypeAt(g, B) = TypeIn(g.partition, k)
<1> DEFINE c == CHOOSE l : IsFirst(g, B, l)
<1>1. IsFirst(g, B, c)
  OBVIOUS
<1> HIDE DEF c
<1>2. c = k
  BY <1>1, FirstUnique
<1> QED BY <1>2 DEF TypeAt, c

(* If a node is open the next subset is made by all passes.                *)
LEMMA NextInFirst ==
    ASSUME NEW g, NEW B, NEW k, IsFirst(g, B, k)
    PROVE  NextIn(g, B) = AllPasses(g, TypeAt(g, B), B)
<1> DEFINE Open(i) == Plan[i] \notin B /\ ReadyAfter(Plan, g.inputs, g.outputs, B, Plan[i])
           first == CHOOSE i \in 1 .. Len(Plan) : Open(i) /\ \A j \in 1 .. i - 1 : ~Open(j)
<1>1. NumNodes \in Nat /\ Nodes = 1 .. Len(Plan) /\ \A i \in Nodes : Plan[i] = i
  BY PlanFacts
<1>2. \A i \in Nodes : Open(i) <=> OpenIn(g, B, i)
  BY <1>1 DEF OpenIn, ReadyIn
<1>3. \A i \in Nodes : \A j \in 1 .. i - 1 : j \in Nodes
  BY PlanFacts
<1>4. k \in 1 .. Len(Plan) /\ Open(k) /\ \A j \in 1 .. k - 1 : ~Open(j)
  BY <1>1, <1>2, <1>3 DEF IsFirst
<1>5. NextIn(g, B) = AllPasses(g, TypeIn(g.partition, Plan[first]), B)
  BY <1>4 DEF NextIn, NextNodes, AllPasses
<1> HIDE DEF Open
<1>6. first \in 1 .. Len(Plan) /\ Open(first) /\ \A j \in 1 .. first - 1 : ~Open(j)
  BY <1>4
<1> HIDE DEF first
<1>7. IsFirst(g, B, first)
  BY <1>1, <1>2, <1>3, <1>6 DEF IsFirst
<1>8. Plan[first] = first /\ TypeAt(g, B) = TypeIn(g.partition, first)
  BY <1>1, <1>6, <1>7, TypeAtFirst
<1> QED BY <1>5, <1>8

(* If no node is open the next subset is empty.                            *)
LEMMA NextInNone ==
    ASSUME NEW g, NEW B, \A k \in Nodes : ~OpenIn(g, B, k)
    PROVE  NextIn(g, B) = <<>>
<1> DEFINE Open(i) == Plan[i] \notin B /\ ReadyAfter(Plan, g.inputs, g.outputs, B, Plan[i])
<1>1. Nodes = 1 .. Len(Plan) /\ \A i \in Nodes : Plan[i] = i
  BY PlanFacts
<1>2. \A i \in 1 .. Len(Plan) : ~Open(i)
  BY <1>1 DEF OpenIn, ReadyIn
<1> QED BY <1>2 DEF NextIn, NextNodes

(* The next subset is a list of nodes.                                     *)
LEMMA NextInType ==
    ASSUME NEW g, NEW B
    PROVE  NextIn(g, B) \in Seq(Nodes)
<1>1. CASE \A k \in Nodes : ~OpenIn(g, B, k)
  <2>1. NextIn(g, B) = <<>> /\ <<>> \in Seq(Nodes)
    BY <1>1, NextInNone
  <2> QED BY <2>1, Zenon
<1>2. CASE \E m \in Nodes : OpenIn(g, B, m)
  <2>1. PICK k : IsFirst(g, B, k)
    BY <1>2, FirstExists
  <2>2. NextIn(g, B) = AllPasses(g, TypeAt(g, B), B)
    BY <2>1, NextInFirst
  <2>3. PICK h : IsPasses(h, g, TypeAt(g, B), B)
    BY PassesRun
  <2>4. NumNodes \in 0 .. NumNodes
    BY PlanFacts
  <2> QED BY <2>2, <2>3, <2>4 DEF IsPasses
<1> QED BY <1>1, <1>2

(* The subsets, one after the other, until there is no next one.           *)
Partial == [subsets : Seq(Seq(Nodes)), done : SUBSET Nodes]
NoSubsets == [subsets |-> <<>>, done |-> {}]

WithNext(g, c) ==
    IF NextIn(g, c.done) = <<>> THEN c
    ELSE [subsets |-> Append(c.subsets, NextIn(g, c.done)),
          done |-> c.done \cup Elements(NextIn(g, c.done))]

AllSubsets(g) ==
    Fold(LAMBDA c, k :
            LET ns == NextNodes(Plan, g.inputs, g.outputs, g.partition, c.done)
            IN  IF ns = <<>> THEN c
                ELSE [subsets |-> Append(c.subsets, ns), done |-> c.done \cup Elements(ns)],
         [subsets |-> <<>>, done |-> {}], Plan)

IsGrowth(c, g) ==
    /\ c \in [0 .. NumNodes -> Partial] /\ c[0] = NoSubsets
    /\ \A k \in 1 .. NumNodes : c[k] = WithNext(g, c[k - 1])
    /\ AllSubsets(g) = c[NumNodes]

(* One more subset leaves a list of lists of nodes.                        *)
LEMMA WithNextType ==
    ASSUME NEW g, NEW c \in Partial
    PROVE  WithNext(g, c) \in Partial
<1> DEFINE ns == NextIn(g, c.done)
<1>1. ns \in Seq(Nodes)
  BY NextInType
<1>2. Elements(ns) \subseteq Nodes
  BY <1>1, LenProperties DEF Elements
<1> HIDE DEF ns
<1>3. c.subsets \in Seq(Seq(Nodes)) /\ c.done \subseteq Nodes
  BY DEF Partial
<1>4. Append(c.subsets, ns) \in Seq(Seq(Nodes))
  BY <1>1, <1>3, AppendProperties
<1>5. WithNext(g, c) = IF ns = <<>> THEN c
                       ELSE [subsets |-> Append(c.subsets, ns), done |-> c.done \cup Elements(ns)]
  BY DEF WithNext, ns
<1> QED BY <1>2, <1>3, <1>4, <1>5 DEF Partial

(* The states of the fold over the subsets.                                *)
LEMMA GrowthRuns ==
    ASSUME NEW g
    PROVE  \E c : IsGrowth(c, g)
<1> DEFINE n == NumNodes
           step == [k \in 1 .. n |-> [x \in Partial |-> WithNext(g, x)]]
           After(f) == [k \in 0 .. Len(Plan) |->
                          IF k = 0 THEN [subsets |-> <<>>, done |-> {}]
                          ELSE IF NextNodes(Plan, g.inputs, g.outputs, g.partition, f[k - 1].done) = <<>>
                               THEN f[k - 1]
                               ELSE [subsets |-> Append(f[k - 1].subsets,
                                                        NextNodes(Plan, g.inputs, g.outputs, g.partition,
                                                                  f[k - 1].done)),
                                     done |-> f[k - 1].done
                                              \cup Elements(NextNodes(Plan, g.inputs, g.outputs,
                                                                      g.partition, f[k - 1].done))]]
           run == CHOOSE f : f = After(f)
<1>1. n \in Nat /\ Nodes = 1 .. n /\ Len(Plan) = n
  BY PlanFacts
<1>0. NoSubsets \in Partial
  <2>1. <<>> \in Seq(Seq(Nodes))
    OBVIOUS
  <2> QED BY <2>1 DEF NoSubsets, Partial
<1>2. AllSubsets(g) = run[n]
  <2>1. AllSubsets(g) = run[Len(Plan)]
    BY DEF AllSubsets, Fold
  <2> QED BY <1>1, <2>1
<1>3. ASSUME NEW f, NEW k \in 1 .. n PROVE After(f)[k] = WithNext(g, f[k - 1])
  <2>1. k \in 0 .. Len(Plan) /\ k # 0
    BY <1>1
  <2> QED BY <2>1 DEF WithNext, NextIn
<1>4. ASSUME NEW f PROVE After(f)[0] = NoSubsets /\ After(f) = [k \in 0 .. n |-> After(f)[k]]
  BY <1>1 DEF NoSubsets
<1> HIDE DEF After
<1>5. \E f : f = After(f)
  <2>1. step \in Steps(Partial, n)
    BY <1>1, WithNextType DEF Steps
  <2>2. PICK f : IsIteration(f, Partial, n, NoSubsets, step)
    <3> HIDE DEF step, n
    <3> QED BY <1>0, <1>1, <2>1, IterationExists, Zenon
  <2>3. \A k \in 1 .. n : f[k - 1] \in Partial
    BY <1>1, <2>2 DEF IsIteration
  <2>4. \A k \in 1 .. n : f[k] = WithNext(g, f[k - 1])
    BY <2>2, <2>3 DEF IsIteration
  <2>5. f \in [0 .. n -> Partial] /\ f[0] = NoSubsets
    BY <2>2 DEF IsIteration
  <2>6. \A k \in 0 .. n : f[k] = After(f)[k]
    <3>1. \A k \in 0 .. n : k = 0 \/ k \in 1 .. n
      BY <1>1
    <3> QED BY <1>3, <1>4, <2>4, <2>5, <3>1
  <2>7. f = After(f)
    BY <1>4, <2>5, <2>6
  <2> QED BY <2>7
<1>6. run = After(run)
  BY <1>5
<1> HIDE DEF run
<1>7. run[0] = NoSubsets /\ \A k \in 1 .. n : run[k] = WithNext(g, run[k - 1])
  BY <1>3, <1>4, <1>6
<1> DEFINE T == {k \in 0 .. n : run[k] \in Partial}
<1>8. 0 \in T
  BY <1>0, <1>1, <1>7
<1>9. ASSUME NEW k \in 1 .. n, k - 1 \in T PROVE k \in T
  <2>1. run[k - 1] \in Partial /\ k \in 0 .. n
    BY <1>1, <1>9
  <2>2. WithNext(g, run[k - 1]) \in Partial
    BY <2>1, WithNextType, Zenon
  <2> QED BY <1>7, <2>1, <2>2
<1>10. \A k \in 0 .. n : k \in T
  <2> HIDE DEF T, n
  <2> QED BY <1>1, <1>8, <1>9, UpTo
<1>11. run \in [0 .. n -> Partial]
  <2>1. run = [k \in 0 .. n |-> run[k]]
    BY <1>4, <1>6
  <2>2. \A k \in 0 .. n : run[k] \in Partial
    BY <1>10
  <2> HIDE DEF n
  <2> QED BY <2>1, <2>2
<1> QED BY <1>2, <1>7, <1>11 DEF IsGrowth

-----------------------------------------------------------------------------
(* Where BuildNodeSubset is: h are the results of the passes, f those of   *)
(* the iterations of pass p + 1, i of which are over and have made ns.     *)
PassAt(g, type, B, ns, i, did, h, f, p) ==
    /\ IsPasses(h, g, type, B) /\ p \in 0 .. NumNodes /\ p <= Len(h[p])
    /\ IsPassRun(f, g, type, B, h[p]) /\ ns = f[i]
    /\ did => Len(h[p]) < Len(ns)
    /\ ~did => ns = h[p]

PassState(g, type, B, ns, i, did) == \E h, f, p : PassAt(g, type, B, ns, i, did, h, f, p)

(* A new subset is in front of the first pass.                             *)
LEMMA PassStart ==
    ASSUME NEW g, NEW type, NEW B
    PROVE  PassState(g, type, B, <<>>, 0, FALSE)
<1>1. PICK h : IsPasses(h, g, type, B)
  BY PassesRun
<1>2. 0 \in 0 .. NumNodes /\ h[0] = <<>> /\ h[0] \in Seq(Nodes) /\ 0 <= Len(h[0])
  <2>1. 0 \in 0 .. NumNodes
    BY PlanFacts
  <2> QED BY <1>1, <2>1 DEF IsPasses
<1>3. PICK f : IsPassRun(f, g, type, B, h[0])
  BY <1>2, PassRuns
<1>4. f[0] = <<>>
  BY <1>2, <1>3 DEF IsPassRun
<1>5. PassAt(g, type, B, <<>>, 0, FALSE, h, f, 0)
  BY <1>1, <1>2, <1>3, <1>4 DEF PassAt
<1> QED BY <1>5 DEF PassState

(* Assigning node i is step i of the pass.                                 *)
LEMMA PassAdds ==
    ASSUME NEW g, NEW type, NEW B, NEW ns \in Seq(Nodes), NEW i \in Nodes, NEW did \in BOOLEAN,
           PassState(g, type, B, ns, i - 1, did), Joined(g, type, B, ns, i) = Append(ns, i)
    PROVE  PassState(g, type, B, Append(ns, i), i, TRUE)
<1>1. PICK h, f, p : PassAt(g, type, B, ns, i - 1, did, h, f, p)
  BY DEF PassState
<1>2. i \in 1 .. NumNodes
  BY PlanFacts
<1>3. f[i] = Append(ns, i)
  BY <1>1, <1>2 DEF PassAt, IsPassRun
<1>4. Len(Append(ns, i)) = Len(ns) + 1 /\ Len(ns) \in Nat
  BY AppendProperties, LenProperties
<1>5. Len(h[p]) < Len(Append(ns, i))
  <2>1. Len(h[p]) \in Nat
    <3>1. h[p] \in Seq(Nodes)
      BY <1>1 DEF PassAt, IsPasses
    <3> QED BY <3>1, LenProperties
  <2>2. CASE did
    BY <1>1, <1>4, <2>1, <2>2 DEF PassAt
  <2>3. CASE ~did
    BY <1>1, <1>4, <2>3 DEF PassAt
  <2> QED BY <2>2, <2>3
<1>6. PassAt(g, type, B, Append(ns, i), i, TRUE, h, f, p)
  BY <1>1, <1>3, <1>5 DEF PassAt
<1> QED BY <1>6 DEF PassState

(* So is skipping it.                                                      *)
LEMMA PassSkips ==
    ASSUME NEW g, NEW type, NEW B, NEW ns, NEW i \in Nodes, NEW did,
           PassState(g, type, B, ns, i - 1, did), Joined(g, type, B, ns, i) = ns
    PROVE  PassState(g, type, B, ns, i, did)
<1>1. PICK h, f, p : PassAt(g, type, B, ns, i - 1, did, h, f, p)
  BY DEF PassState
<1>2. i \in 1 .. NumNodes
  BY PlanFacts
<1>3. f[i] = ns
  BY <1>1, <1>2 DEF PassAt, IsPassRun
<1>4. PassAt(g, type, B, ns, i, did, h, f, p)
  BY <1>1, <1>3 DEF PassAt
<1> QED BY <1>4 DEF PassState

(* After a pass with a change the loop is in front of the next one.        *)
LEMMA PassAgain ==
    ASSUME NEW g, NEW type, NEW B, NEW ns \in Seq(Nodes), Len(ns) <= NumNodes,
           PassState(g, type, B, ns, NumNodes, TRUE)
    PROVE  PassState(g, type, B, ns, 0, FALSE)
<1>1. PICK h, f, p : PassAt(g, type, B, ns, NumNodes, TRUE, h, f, p)
  BY DEF PassState
<1>2. /\ IsPasses(h, g, type, B) /\ p \in 0 .. NumNodes /\ p <= Len(h[p])
      /\ IsPassRun(f, g, type, B, h[p]) /\ ns = f[NumNodes] /\ Len(h[p]) < Len(ns)
  BY <1>1 DEF PassAt
<1>3. h[p] \in Seq(Nodes) /\ Len(h[p]) \in Nat /\ Len(ns) \in Nat /\ NumNodes \in Nat
  <2>1. h[p] \in Seq(Nodes)
    BY <1>2 DEF IsPasses
  <2> QED BY <2>1, LenProperties, PlanFacts
<1> DEFINE q == p + 1
<1>4. q \in 1 .. NumNodes /\ q \in 0 .. NumNodes /\ q - 1 = p /\ q <= Len(ns)
  BY <1>2, <1>3
<1> HIDE DEF q
<1>5. h[q] = ns
  <2>1. h[q] = OnePass(g, type, B, h[p])
    BY <1>2, <1>4 DEF IsPasses
  <2>2. OnePass(g, type, B, h[p]) = ns
    BY <1>2 DEF IsPassRun
  <2> QED BY <2>1, <2>2
<1>6. PICK e : IsPassRun(e, g, type, B, ns)
  BY PassRuns
<1>7. e[0] = ns
  BY <1>6 DEF IsPassRun
<1>8. PassAt(g, type, B, ns, 0, FALSE, h, e, q)
  BY <1>2, <1>4, <1>5, <1>6, <1>7 DEF PassAt
<1> QED BY <1>8 DEF PassState

(* A pass without a change is followed by passes without a change.         *)
LEMMA PassEnd ==
    ASSUME NEW g, NEW type, NEW B, NEW ns, PassState(g, type, B, ns, NumNodes, FALSE)
    PROVE  AllPasses(g, type, B) = ns
<1>1. PICK h, f, p : PassAt(g, type, B, ns, NumNodes, FALSE, h, f, p)
  BY DEF PassState
<1>2. /\ IsPasses(h, g, type, B) /\ p \in 0 .. NumNodes
      /\ IsPassRun(f, g, type, B, h[p]) /\ ns = f[NumNodes] /\ ns = h[p] /\ NumNodes \in Nat
  BY <1>1, PlanFacts DEF PassAt
<1>3. OnePass(g, type, B, ns) = ns
  BY <1>2 DEF IsPassRun
<1> DEFINE T == {k \in 0 .. NumNodes : p <= k => h[k] = ns}
<1>4. 0 \in T
  BY <1>2
<1>5. ASSUME NEW k \in 1 .. NumNodes, k - 1 \in T PROVE k \in T
  <2>1. h[k] = OnePass(g, type, B, h[k - 1])
    BY <1>2 DEF IsPasses
  <2>2. p <= k => p = k \/ p <= k - 1
    BY <1>2
  <2> QED BY <1>2, <1>3, <1>5, <2>1, <2>2
<1>6. \A k \in 0 .. NumNodes : k \in T
  <2> HIDE DEF T
  <2> QED BY <1>2, <1>4, <1>5, UpTo
<1>7. h[NumNodes] = ns
  BY <1>2, <1>6
<1> QED BY <1>2, <1>7 DEF IsPasses

(* Where Partition is: e subsets are there, with the nodes of done.        *)
GrowAt(g, subsets, done, e, c) ==
    IsGrowth(c, g) /\ e \in 0 .. NumNodes /\ c[e] = [subsets |-> subsets, done |-> done]

GrowState(g, subsets, done, e) == \E c : GrowAt(g, subsets, done, e, c)

(* No subset is complete at first.                                         *)
LEMMA GrowStart ==
    ASSUME NEW g
    PROVE  GrowState(g, <<>>, {}, 0)
<1>1. PICK c : IsGrowth(c, g)
  BY GrowthRuns
<1>2. 0 \in 0 .. NumNodes
  BY PlanFacts
<1>3. GrowAt(g, <<>>, {}, 0, c)
  BY <1>1, <1>2 DEF GrowAt, IsGrowth, NoSubsets
<1> QED BY <1>3 DEF GrowState

(* Closing a subset is one step of the fold over the subsets.              *)
LEMMA GrowNext ==
    ASSUME NEW g, NEW subsets, NEW done, NEW e, e < NumNodes, GrowState(g, subsets, done, e),
           NEW ns, NextIn(g, done) = ns, ns # <<>>
    PROVE  GrowState(g, Append(subsets, ns), done \cup Elements(ns), e + 1)
<1>1. PICK c : GrowAt(g, subsets, done, e, c)
  BY DEF GrowState
<1> DEFINE k == e + 1
           a == [subsets |-> subsets, done |-> done]
<1>2. k \in 1 .. NumNodes /\ k \in 0 .. NumNodes /\ k - 1 = e
  BY <1>1, PlanFacts DEF GrowAt
<1>3. a.subsets = subsets /\ a.done = done /\ c[e] = a
  BY <1>1 DEF GrowAt
<1> HIDE DEF a, k
<1>4. c[k] = WithNext(g, a)
  BY <1>1, <1>2, <1>3 DEF GrowAt, IsGrowth
<1>5. c[k] = [subsets |-> Append(subsets, ns), done |-> done \cup Elements(ns)]
  BY <1>3, <1>4 DEF WithNext
<1>6. GrowAt(g, Append(subsets, ns), done \cup Elements(ns), k, c)
  BY <1>1, <1>2, <1>5 DEF GrowAt
<1> QED BY <1>6 DEF GrowState, k

(* When the next subset would be empty the fold has all of them.           *)
LEMMA GrowEnd ==
    ASSUME NEW g, NEW subsets, NEW done, NEW e, GrowState(g, subsets, done, e),
           NextIn(g, done) = <<>>
    PROVE  AllSubsets(g).subsets = subsets
<1>1. PICK c : GrowAt(g, subsets, done, e, c)
  BY DEF GrowState
<1> DEFINE a == [subsets |-> subsets, done |-> done]
           T == {k \in 0 .. NumNodes : e <= k => c[k] = a}
<1>2. a.subsets = subsets /\ a.done = done /\ c[e] = a /\ e \in 0 .. NumNodes /\ NumNodes \in Nat
  BY <1>1, PlanFacts DEF GrowAt
<1> HIDE DEF a
<1>3. WithNext(g, a) = a
  BY <1>2 DEF WithNext
<1>4. 0 \in T
  BY <1>2
<1>5. ASSUME NEW k \in 1 .. NumNodes, k - 1 \in T PROVE k \in T
  <2>1. c[k] = WithNext(g, c[k - 1])
    BY <1>1 DEF GrowAt, IsGrowth
  <2>2. e <= k => e = k \/ e <= k - 1
    BY <1>2
  <2> QED BY <1>2, <1>3, <1>5, <2>1, <2>2
<1>6. \A k \in 0 .. NumNodes : k \in T
  <2> HIDE DEF T
  <2> QED BY <1>2, <1>4, <1>5, UpTo
<1>7. c[NumNodes] = a
  BY <1>2, <1>6
<1> QED BY <1>1, <1>2, <1>7 DEF GrowAt, IsGrowth

-----------------------------------------------------------------------------
(* The nodes of the subsets that are closed.                               *)
Before == UNION {NodesOf(k) : k \in 1 .. Epoch - 1}
NodeLists == [k \in 1 .. Epoch - 1 |-> node_subsets[k].nodes]

(* The loops are where the definitions of PartitionOps would be.           *)
Building ==
    pc = "build" =>
        /\ PassState(graph, TypeAt(graph, Before), Before, Current.nodes, node_index - 1, did_something)
        /\ Current.nodes # <<>> => /\ Current.type = TypeAt(graph, Before)
                                   /\ \E k : IsFirst(graph, Before, k)
        /\ Current.nodes = <<>> => did_something = FALSE
        /\ GrowState(graph, NodeLists, Before, Epoch - 1)

(* A sequence that repeats nothing is not longer than there are nodes.     *)
LEMMA ShortSubset ==
    ASSUME NEW s \in Seq(Nodes), \A i, j \in 1 .. Len(s) : s[i] = s[j] => i = j
    PROVE  Len(s) <= NumNodes
<1> DEFINE C == 1 .. Len(s)
<1>1. NumNodes \in Nat /\ Len(s) \in Nat
  BY PlanFacts, LenProperties
<1>2. s \in Injection(C, Nodes)
  <2>1. s \in [C -> Nodes]
    BY LenProperties
  <2> QED BY <2>1 DEF Injection, IsInjective
<1>3. IsFiniteSet(C) /\ Cardinality(C) = Len(s)
  <2> DEFINE l == Len(s)
  <2> HIDE DEF l
  <2>1. l \in Nat
    BY <1>1 DEF l
  <2>2. IsFiniteSet(1 .. l) /\ Cardinality(1 .. l) = l
    BY <2>1, FS_Interval
  <2> QED BY <2>2 DEF l
<1>4. IsFiniteSet(Nodes) /\ Cardinality(Nodes) = NumNodes
  BY <1>1, FS_Interval DEF Nodes
<1>5. Cardinality(C) <= Cardinality(Nodes)
  <2> HIDE DEF C
  <2> QED BY <1>2, <1>3, <1>4, FS_Injection DEF ExistsInjection
<1> QED BY <1>1, <1>3, <1>4, <1>5

(* The subset that is being built, from PartitionInv.                      *)
LEMMA CurrentFacts ==
    ASSUME PartitionInv, pc = "build"
    PROVE  /\ Epoch \in 1 .. NumNodes + 1 /\ DOMAIN node_subsets = 1 .. Epoch
           /\ Current.nodes \in Seq(Nodes) /\ Len(Current.nodes) <= NumNodes
           /\ Current.nodes = <<>> <=> Current.type = "unexplored"
           /\ Assigned = Before \cup Elements(Current.nodes)
<1>1. Epoch \in 1 .. NumNodes + 1 /\ DOMAIN node_subsets = 1 .. Epoch /\ NumNodes \in Nat
  BY EpochBound, SubsetFacts, GraphFacts DEF PartitionInv, Epoch
<1>2. Epoch \in DOMAIN node_subsets /\ Current = node_subsets[Epoch]
  BY <1>1 DEF Current
<1>3. Current.nodes \in Seq(Nodes)
  BY <1>2, SubsetFacts DEF PartitionInv
<1>4. \A i, j \in 1 .. Len(Current.nodes) : Current.nodes[i] = Current.nodes[j] => i = j
  BY <1>2 DEF PartitionInv, EpochsOfNodes, Places
<1>5. Len(Current.nodes) <= NumNodes
  BY <1>3, <1>4, ShortSubset
<1>6. Current.nodes = <<>> <=> Current.type = "unexplored"
  BY <1>2 DEF PartitionInv, TypesOfSubsets
<1>7. Assigned = Before \cup Elements(Current.nodes)
  <2>1. /\ \A n \in Nodes : node_epochs[n] \in 1 .. Epoch \cup {NotReady}
        /\ \A n \in Nodes : \A k \in 1 .. Epoch : node_epochs[n] = k <=> n \in NodesOf(k)
    BY <1>1 DEF PartitionInv, EpochsOfNodes
  <2>2. \A k \in 1 .. Epoch : NodesOf(k) \subseteq Nodes /\ k # NotReady
    BY <1>1, SubsetFacts DEF PartitionInv, NotReady
  <2>3. 1 .. Epoch = (1 .. Epoch - 1) \cup {Epoch}
    BY <1>1
  <2>4. Elements(Current.nodes) = NodesOf(Epoch)
    BY <1>2 DEF NodesOf
  <2>5. Assigned = UNION {NodesOf(k) : k \in 1 .. Epoch}
    BY <2>1, <2>2 DEF Assigned
  <2>6. UNION {NodesOf(k) : k \in 1 .. Epoch} = Before \cup NodesOf(Epoch)
    BY <2>3 DEF Before
  <2> QED BY <2>4, <2>5, <2>6
<1> QED BY <1>1, <1>3, <1>5, <1>6, <1>7

(* UpdateNode looks at what the definition looks at.                       *)
LEMMA AssignableIs ==
    ASSUME PartitionInv, pc = "build", NEW n \in Nodes
    PROVE  Assignable(n) <=>
              /\ n \notin Before \cup Elements(Current.nodes)
              /\ ReadyIn(graph, Before \cup Elements(Current.nodes), n)
              /\ Current.type \in {"unexplored", TypeIn(graph.partition, n)}
<1>1. Assigned = Before \cup Elements(Current.nodes)
  BY CurrentFacts
<1>2. node_epochs[n] = NotReady <=> n \notin Assigned
  BY DEF Assigned
<1>3. Ready(n) <=> \A m \in Nodes : graph.outputs[m] \cap graph.inputs[n] # {} => m \in Assigned
  BY ReadyWhenWritten DEF PartitionInv
<1>4. Ready(n) <=> ReadyIn(graph, Assigned, n)
  BY <1>3, PlanFacts DEF ReadyIn, ReadyAfter
<1>5. NodeType(n) = TypeIn(graph.partition, n)
  BY DEF NodeType, TypeIn
<1>6. Assignable(n) <=> /\ node_epochs[n] = NotReady /\ Ready(n)
                        /\ Current.type \in {"unexplored", NodeType(n)}
  BY DEF Assignable, Ready
<1> QED BY <1>1, <1>2, <1>4, <1>5, <1>6

(* UpdateNode assigns a node exactly when the fold appends it.             *)
LEMMA NodeJoins ==
    ASSUME PartitionInv, Building, pc = "build", node_index \in Nodes
    PROVE  LET type == TypeAt(graph, Before)
               ns   == Joined(graph, type, Before, Current.nodes, node_index)
           IN  /\ Assignable(node_index) => /\ ns = Append(Current.nodes, node_index)
                                            /\ type = TypeIn(graph.partition, node_index)
                                            /\ \E k : IsFirst(graph, Before, k)
               /\ ~Assignable(node_index) => ns = Current.nodes
<1> DEFINE n == node_index
           s == Current.nodes
           done == Before \cup Elements(s)
<1>1. /\ s # <<>> => /\ Current.type = TypeAt(graph, Before)
                     /\ \E k : IsFirst(graph, Before, k)
      /\ s = <<>> => did_something = FALSE
      /\ s = <<>> <=> Current.type = "unexplored"
  BY CurrentFacts DEF Building
<1>2. \A m \in Nodes : Assignable(m) <=>
         m \notin done /\ ReadyIn(graph, done, m) /\ Current.type \in {"unexplored", TypeIn(graph.partition, m)}
  BY AssignableIs
<1>3. CASE Assignable(n) /\ s = <<>>
  <2>1. done = Before
    BY <1>3 DEF Elements
  <2>2. \A m \in Nodes : Assignable(m) <=> OpenIn(graph, Before, m)
    BY <1>1, <1>2, <1>3, <2>1 DEF OpenIn
  <2>3. \A j \in 1 .. n - 1 : j \in Nodes /\ j < n
    BY PlanFacts
  <2>4. \A j \in 1 .. n - 1 : ~Assignable(j)
    BY <1>1, <1>3, <2>3 DEF PartitionInv, PassedOver
  <2>5. IsFirst(graph, Before, n)
    BY <1>3, <2>2, <2>3, <2>4 DEF IsFirst
  <2>6. TypeAt(graph, Before) = TypeIn(graph.partition, n)
    BY <2>5, TypeAtFirst
  <2> QED BY <1>2, <1>3, <2>5, <2>6 DEF Joined
<1>4. CASE Assignable(n) /\ s # <<>>
  BY <1>1, <1>2, <1>4 DEF Joined
<1>5. CASE ~Assignable(n)
  <2>1. ~(n \notin done /\ ReadyIn(graph, done, n)) \/ TypeIn(graph.partition, n) # TypeAt(graph, Before)
    BY <1>1, <1>2, <1>5
  <2> QED BY <1>5, <2>1 DEF Joined
<1> QED BY <1>3, <1>4, <1>5

(* Assigning a node keeps Building.                                        *)
LEMMA AssignBuilds ==
    ASSUME PartitionInv, Building, AssignNode
    PROVE  Building'
<1> DEFINE n == node_index
           s == Current.nodes
<1>1. /\ pc = "build" /\ pc' = "build" /\ graph' = graph /\ n \in Nodes /\ Assignable(n)
      /\ node_index' = n + 1 /\ did_something' = TRUE
  BY DEF AssignNode
<1>2. /\ Epoch' = Epoch /\ Epoch \in 1 .. NumNodes + 1
      /\ \A k \in 1 .. Epoch - 1 : node_subsets'[k].nodes = node_subsets[k].nodes
      /\ node_subsets'[Epoch].nodes = Append(s, n)
      /\ node_subsets'[Epoch].type = NodeType(n)
  BY AssignFacts
<1>3. Before' = Before /\ NodeLists' = NodeLists
  BY <1>2 DEF Before, NodeLists, NodesOf
<1>4. Current'.nodes = Append(s, n) /\ Current'.type = NodeType(n)
  BY <1>2 DEF Current
<1>5. s \in Seq(Nodes) /\ did_something \in BOOLEAN
  BY <1>1, CurrentFacts DEF PartitionInv, TypeOK
<1> DEFINE type == TypeAt(graph, Before)
<1>6. /\ Joined(graph, type, Before, s, n) = Append(s, n)
      /\ type = TypeIn(graph.partition, n) /\ \E k : IsFirst(graph, Before, k)
  BY <1>1, NodeJoins
<1>7. PassState(graph, type, Before, s, n - 1, did_something) /\ GrowState(graph, NodeLists, Before, Epoch - 1)
  BY <1>1 DEF Building
<1> HIDE DEF s, n, type
<1>8. PassState(graph, type, Before, Append(s, n), n, TRUE)
  BY <1>1, <1>5, <1>6, <1>7, PassAdds
<1>9. node_index' - 1 = n
  BY <1>1, PlanFacts
<1>10. Append(s, n) # <<>>
  BY <1>1, <1>5, AppendProperties
<1>11. NodeType(n) = type
  BY <1>6 DEF NodeType, TypeIn
<1>12. TypeAt(graph, Before)' = type
  BY <1>1, <1>3 DEF type
<1> QED BY <1>1, <1>2, <1>3, <1>4, <1>6, <1>7, <1>8, <1>9, <1>10, <1>11, <1>12 DEF Building, type

(* Skipping a node keeps Building.                                         *)
LEMMA SkipBuilds ==
    ASSUME PartitionInv, Building, SkipNode
    PROVE  Building'
<1> DEFINE n == node_index
           s == Current.nodes
           type == TypeAt(graph, Before)
<1>1. /\ pc = "build" /\ pc' = "build" /\ graph' = graph /\ n \in Nodes /\ ~Assignable(n)
      /\ node_index' = n + 1 /\ did_something' = did_something /\ node_subsets' = node_subsets
  BY DEF SkipNode
<1>2. Before' = Before /\ NodeLists' = NodeLists /\ Current' = Current /\ Epoch' = Epoch
  BY <1>1 DEF Before, NodeLists, NodesOf, Current, Epoch
<1>3. Joined(graph, type, Before, s, n) = s
  BY <1>1, NodeJoins
<1>4. PassState(graph, type, Before, s, n - 1, did_something)
  BY <1>1 DEF Building
<1>5. PassState(graph, type, Before, s, n, did_something)
  <2> HIDE DEF s, n, type
  <2> QED BY <1>1, <1>3, <1>4, PassSkips
<1>6. node_index' - 1 = n
  BY <1>1, PlanFacts
<1> QED BY <1>1, <1>2, <1>5, <1>6 DEF Building

(* Starting another pass keeps Building.                                   *)
LEMMA AgainBuilds ==
    ASSUME PartitionInv, Building, NextPass
    PROVE  Building'
<1> DEFINE s == Current.nodes
           type == TypeAt(graph, Before)
<1>1. /\ pc = "build" /\ pc' = "build" /\ graph' = graph /\ node_index > NumNodes /\ did_something
      /\ node_index' = 1 /\ did_something' = FALSE /\ node_subsets' = node_subsets
  BY DEF NextPass
<1>2. Before' = Before /\ NodeLists' = NodeLists /\ Current' = Current /\ Epoch' = Epoch
  BY <1>1 DEF Before, NodeLists, NodesOf, Current, Epoch
<1>3. node_index - 1 = NumNodes /\ did_something = TRUE
  BY <1>1, PlanFacts DEF PartitionInv, TypeOK
<1>4. PassState(graph, type, Before, s, NumNodes, TRUE)
  BY <1>1, <1>3 DEF Building
<1>5. s \in Seq(Nodes) /\ Len(s) <= NumNodes
  BY <1>1, CurrentFacts
<1>6. PassState(graph, type, Before, s, 0, FALSE)
  <2> HIDE DEF s, type
  <2> QED BY <1>4, <1>5, PassAgain
<1>7. node_index' - 1 = 0
  BY <1>1
<1> QED BY <1>1, <1>2, <1>6, <1>7 DEF Building

(* The subset is closed with the nodes of the definition.                  *)
LEMMA SubsetBuilds ==
    ASSUME PartitionInv, Building, NextSubset
    PROVE  Building'
<1> DEFINE s == Current.nodes
           type == TypeAt(graph, Before)
           E == Epoch
<1>1. /\ pc = "build" /\ pc' = "build" /\ graph' = graph /\ node_index > NumNodes /\ ~did_something
      /\ node_index' = 1 /\ did_something' = did_something /\ s # <<>>
      /\ node_subsets' = Append(node_subsets, NewSubset)
  BY DEF NextSubset
<1>2. PartitionInv'
  BY NextSubsetKeeps
<1>3. E \in 1 .. NumNodes + 1 /\ DOMAIN node_subsets = 1 .. E /\ s \in Seq(Nodes) /\ NumNodes \in Nat
  BY <1>1, CurrentFacts, PlanFacts
<1>4. NewSubset \in Subset /\ NewSubset.nodes = <<>> /\ node_subsets \in Seq(Subset)
  BY EmptySeq DEF NewSubset, Subset, PartitionInv, TypeOK
<1>5. /\ Len(node_subsets') = E + 1
      /\ \A k \in 1 .. E : node_subsets'[k] = node_subsets[k]
      /\ node_subsets'[E + 1] = NewSubset
  BY <1>1, <1>4, AppendProperties DEF Epoch
<1>6. Epoch' = E + 1 /\ Current'.nodes = <<>>
  BY <1>4, <1>5 DEF Epoch, Current
<1>7. E < NumNodes + 1
  <2>1. Epoch' \in 1 .. NumNodes + 1
    <3>1. (PartitionInv /\ pc = "build" => Epoch \in 1 .. NumNodes + 1)'
      BY EpochBound, PTL
    <3> QED BY <1>1, <1>2, <3>1
  <2> QED BY <1>3, <1>6, <2>1
<1>8. did_something = FALSE /\ node_index - 1 = NumNodes
  BY <1>1, PlanFacts DEF PartitionInv, TypeOK
<1>9. /\ PassState(graph, type, Before, s, NumNodes, FALSE)
      /\ \E k : IsFirst(graph, Before, k)
      /\ GrowState(graph, NodeLists, Before, E - 1)
  BY <1>1, <1>8 DEF Building
<1>10. NextIn(graph, Before) = s
  <2>1. PICK k : IsFirst(graph, Before, k)
    BY <1>9
  <2>2. NextIn(graph, Before) = AllPasses(graph, type, Before)
    BY <2>1, NextInFirst
  <2> HIDE DEF s, type
  <2>3. AllPasses(graph, type, Before) = s
    BY <1>9, PassEnd
  <2> QED BY <2>2, <2>3
<1>11. GrowState(graph, Append(NodeLists, s), Before \cup Elements(s), E)
  <2>1. E - 1 < NumNodes /\ (E - 1) + 1 = E
    BY <1>3, <1>7
  <2> DEFINE e == E - 1
  <2> HIDE DEF s, E, e
  <2>2. GrowState(graph, Append(NodeLists, s), Before \cup Elements(s), e + 1)
    BY <1>1, <1>9, <1>10, <2>1, GrowNext DEF e
  <2> QED BY <2>1, <2>2 DEF e
<1>12. Before' = Before \cup Elements(s)
  <2>1. 1 .. Epoch' - 1 = (1 .. E - 1) \cup {E} /\ (1 .. E - 1) \subseteq 1 .. E /\ E \in 1 .. E
    BY <1>3, <1>6
  <2>2. \A k \in 1 .. E : NodesOf(k)' = NodesOf(k)
    BY <1>5 DEF NodesOf
  <2>3. NodesOf(E) = Elements(s)
    BY DEF NodesOf, Current
  <2>4. Before' = UNION {NodesOf(k) : k \in 1 .. E}
    <3>1. 1 .. Epoch' - 1 = 1 .. E
      BY <1>3, <1>6
    <3> QED BY <2>2, <3>1 DEF Before
  <2> HIDE DEF s, E
  <2>5. UNION {NodesOf(k) : k \in 1 .. E} = (UNION {NodesOf(k) : k \in 1 .. E - 1}) \cup NodesOf(E)
    <3>1. 1 .. E = (1 .. E - 1) \cup {E}
      BY <1>3
    <3> QED BY <3>1
  <2> QED BY <2>3, <2>4, <2>5 DEF Before, E
<1>13. NodeLists' = Append(NodeLists, s)
  <2> DEFINE l == NodeLists
             a == Append(l, s)
  <2>1. l \in [1 .. E - 1 -> Seq(Nodes)]
    <3>1. \A k \in 1 .. E - 1 : node_subsets[k].nodes \in Seq(Nodes)
      <4>1. \A k \in 1 .. E - 1 : k \in DOMAIN node_subsets
        BY <1>3
      <4> QED BY <4>1, SubsetFacts DEF PartitionInv
    <3> QED BY <3>1 DEF NodeLists
  <2>2. l \in Seq(Seq(Nodes)) /\ Len(l) = E - 1
    <3>1. E - 1 \in Nat
      BY <1>3
    <3> DEFINE e == E - 1
    <3> HIDE DEF e, l
    <3>2. l \in [1 .. e -> Seq(Nodes)] /\ e \in Nat
      BY <2>1, <3>1 DEF e
    <3>3. l \in Seq(Seq(Nodes)) /\ Len(l) = e
      BY <3>2, FunctionIsSeq
    <3> QED BY <3>3 DEF e
  <2> HIDE DEF l
  <2>3. /\ a \in Seq(Seq(Nodes)) /\ Len(a) = E /\ \A k \in 1 .. E - 1 : a[k] = l[k]
        /\ a[E] = s
    BY <1>3, <2>2, AppendProperties
  <2>4. \A k \in 1 .. E : a[k] = node_subsets'[k].nodes
    <3>1. \A k \in 1 .. E : k = E \/ k \in 1 .. E - 1
      BY <1>3
    <3>2. \A k \in 1 .. E - 1 : l[k] = node_subsets[k].nodes
      BY DEF l, NodeLists
    <3>3. s = node_subsets[E].nodes
      BY DEF Current
    <3> QED BY <1>5, <2>3, <3>1, <3>2, <3>3
  <2>5. a = [k \in 1 .. E |-> a[k]]
    <3> HIDE DEF a
    <3>1. a \in [1 .. Len(a) -> Seq(Nodes)]
      BY <2>3, LenProperties
    <3> QED BY <2>3, <3>1
  <2>6. NodeLists' = [k \in 1 .. E |-> node_subsets'[k].nodes]
    <3>1. Epoch' - 1 = E
      BY <1>3, <1>6
    <3> QED BY <3>1 DEF NodeLists
  <2> HIDE DEF a
  <2>7. NodeLists' = a
    BY <2>4, <2>5, <2>6
  <2> QED BY <2>7 DEF a, l
<1>14. GrowState(graph, NodeLists, Before, Epoch - 1)'
  <2>1. Epoch' - 1 = E
    BY <1>3, <1>6
  <2> HIDE DEF s, E
  <2> QED BY <1>1, <1>11, <1>12, <1>13, <2>1
<1>15. PassState(graph, TypeAt(graph, Before), Before, Current.nodes, node_index - 1, did_something)'
  <2>1. node_index' - 1 = 0 /\ did_something' = FALSE
    BY <1>1, <1>8
  <2> DEFINE t == TypeAt(graph', Before')
  <2> HIDE DEF t
  <2>2. PassState(graph', t, Before', <<>>, 0, FALSE)
    BY PassStart
  <2> QED BY <1>6, <2>1, <2>2 DEF t
<1> QED BY <1>1, <1>6, <1>8, <1>14, <1>15 DEF Building

(* The partition of PartitionOps, from its subsets.                        *)
SubsetOf(g, ns) ==
    [type           |-> TypeIn(g.partition, ns[1]),
     nodes          |-> ns,
     input_tensors  |-> ReadsOf(g.inputs, Elements(ns)) \ WritesOf(g.outputs, Elements(ns)),
     output_tensors |-> WritesOf(g.outputs, Elements(ns)) \cap
                        (ReadsOf(g.inputs, Nodes \ Elements(ns)) \cup g.result)]

(* Partition is the list of subsets, each with its boundary.               *)
LEMMA PartitionIs ==
    ASSUME NEW g, NEW s, AllSubsets(g).subsets = s
    PROVE  Partition(Plan, g.inputs, g.outputs, g.result, g.partition)
              = [k \in 1 .. Len(s) |-> SubsetOf(g, s[k])]
<1> DEFINE t == AllSubsets(g).subsets
<1>1. Partition(Plan, g.inputs, g.outputs, g.result, g.partition)
         = [k \in 1 .. Len(t) |->
              [type           |-> TypeIn(g.partition, t[k][1]),
               nodes          |-> t[k],
               input_tensors  |-> ReadsOf(g.inputs, Elements(t[k])) \ WritesOf(g.outputs, Elements(t[k])),
               output_tensors |-> WritesOf(g.outputs, Elements(t[k])) \cap
                                  (ReadsOf(g.inputs, Elements(Plan) \ Elements(t[k])) \cup g.result)]]
  BY DEF Partition, AllSubsets
<1>2. Elements(Plan) = Nodes
  BY PlanFacts
<1> HIDE DEF t
<1>3. t = s
  BY DEF t
<1> QED BY <1>1, <1>2, <1>3 DEF SubsetOf

(* Finish: no node is left that could start a subset.                      *)
LEMMA FinishComputes ==
    ASSUME PartitionInv, Building, Finish
    PROVE  ComputesPartition'
<1> DEFINE E == Epoch - 1
           s == NodeLists
<1>1. /\ pc = "build" /\ pc' = "done" /\ graph' = graph /\ node_index > NumNodes /\ ~did_something
      /\ Current.nodes = <<>>
  BY DEF Finish
<1>2. PartitionInv' /\ (Assigned = Nodes)'
  <2>1. PartitionInv'
    BY FinishKeeps
  <2> QED BY <1>1, <2>1 DEF PartitionInv, AllAssigned
<1>3. Epoch \in 1 .. NumNodes + 1 /\ DOMAIN node_subsets = 1 .. Epoch /\ NumNodes \in Nat
      /\ Current.type = "unexplored"
  BY <1>1, CurrentFacts, PlanFacts
<1>4. E \in Nat /\ \A k \in 1 .. E : k \in DOMAIN node_subsets
  BY <1>3
<1>5. \A k \in 1 .. E : /\ node_subsets[k] \in Subset /\ node_subsets[k].nodes \in Seq(Nodes)
  BY <1>4, SubsetFacts DEF PartitionInv
<1>6. NextIn(graph, Before) = <<>>
  <2>1. Elements(Current.nodes) = {}
    BY <1>1 DEF Elements
  <2>2. ASSUME NEW n \in Nodes PROVE ~OpenIn(graph, Before, n)
    <3>1. ~Assignable(n)
      BY <1>1, PassDone
    <3>2. Before \cup Elements(Current.nodes) = Before
      BY <2>1
    <3> QED BY <1>1, <1>3, <3>1, <3>2, AssignableIs DEF OpenIn
  <2> QED BY <2>2, NextInNone
<1>7. AllSubsets(graph).subsets = s
  <2>1. GrowState(graph, s, Before, E)
    BY <1>1 DEF Building
  <2> HIDE DEF s, E
  <2> QED BY <1>6, <2>1, GrowEnd
<1>8. s = [k \in 1 .. E |-> node_subsets[k].nodes] /\ Len(s) = E
  <2>1. s = [k \in 1 .. E |-> node_subsets[k].nodes]
    BY DEF NodeLists
  <2>2. s \in [1 .. E -> Seq(Nodes)]
    BY <1>5, <2>1
  <2> HIDE DEF s, E
  <2> QED BY <1>4, <2>1, <2>2, FunctionIsSeq
<1> DEFINE after == node_subsets'
<1>9. after = [k \in 1 .. E |-> [node_subsets[k] EXCEPT !.output_tensors =
                                   @ \cup {t \in graph.result : tensor_epochs[t] = k}]]
  BY DEF Finish
<1>10. /\ DOMAIN after = 1 .. E
       /\ \A k \in 1 .. E : after[k].nodes = node_subsets[k].nodes
  <2>1. DOMAIN after = 1 .. E
    BY <1>9
  <2>2. ASSUME NEW k \in 1 .. E PROVE after[k].nodes = node_subsets[k].nodes
    <3> DEFINE u == {t \in graph.result : tensor_epochs[t] = k}
    <3>1. after[k] = [node_subsets[k] EXCEPT !.output_tensors = @ \cup u]
      BY <1>9
    <3> HIDE DEF u, after
    <3> QED BY <1>5, <3>1 DEF Subset
  <2> QED BY <2>1, <2>2
<1> HIDE DEF after
<1>11. ASSUME NEW k \in 1 .. E PROVE after[k] = SubsetOf(graph, s[k])
  <2> DEFINE a == after[k]
             N == Elements(a.nodes)
  <2>1. k \in DOMAIN node_subsets' /\ s[k] = a.nodes
    BY <1>8, <1>10 DEF after
  <2>2. a \in Subset /\ a.nodes \in Seq(Nodes)
    <3>1. after \in Seq(Subset)
      BY <1>2 DEF PartitionInv, TypeOK, after
    <3>2. after \in [1 .. Len(after) -> Subset]
      BY <3>1, LenProperties
    <3>3. k \in 1 .. Len(after)
      BY <1>10, <3>2
    <3>4. a \in Subset
      BY <3>2, <3>3
    <3> QED BY <3>4 DEF Subset
  <2>3. a = [type |-> a.type, nodes |-> a.nodes, input_tensors |-> a.input_tensors,
             output_tensors |-> a.output_tensors]
    <3> HIDE DEF a
    <3> QED BY <2>2 DEF Subset
  <2>4. a.input_tensors = ReadsOf(graph.inputs, N) \ WritesOf(graph.outputs, N)
    BY <1>1, <1>2, <2>1 DEF PartitionInv, Inputs, Reads, Writes, ReadsOf, WritesOf, NodesOf, after
  <2>5. a.output_tensors = WritesOf(graph.outputs, N) \cap
                           (ReadsOf(graph.inputs, Nodes \ N) \cup graph.result)
    BY <1>1, <1>2, <2>1 DEF PartitionInv, Outputs, Reads, Writes, ReadsOf, WritesOf, NodesOf, after
  <2>6. a.type = TypeIn(graph.partition, a.nodes[1])
    <3>1. a.nodes # <<>> /\ \A n \in N : a.type = NodeType(n)'
      BY <1>1, <1>2, <2>1 DEF PartitionInv, TypesOfSubsets, NodesOf, after
    <3>2. a.nodes[1] \in N
      <4> HIDE DEF a
      <4>1. 1 \in 1 .. Len(a.nodes)
        BY <2>2, <3>1
      <4> QED BY <4>1 DEF Elements
    <3> QED BY <1>1, <3>1, <3>2 DEF NodeType, TypeIn
  <2> HIDE DEF a
  <2> QED BY <2>1, <2>3, <2>4, <2>5, <2>6 DEF SubsetOf, a
<1>12. after = [k \in 1 .. E |-> SubsetOf(graph, s[k])]
  <2>1. after = [k \in 1 .. E |-> after[k]]
    BY <1>9
  <2> QED BY <1>11, <2>1
<1>13. after = Partition(Plan, graph.inputs, graph.outputs, graph.result, graph.partition)
  <2> HIDE DEF s, E
  <2>1. Partition(Plan, graph.inputs, graph.outputs, graph.result, graph.partition)
           = [k \in 1 .. Len(s) |-> SubsetOf(graph, s[k])]
    BY <1>7, PartitionIs
  <2>2. Len(s) = E
    BY <1>8
  <2> QED BY <1>12, <2>1, <2>2
<1> QED BY <1>1, <1>13 DEF ComputesPartition, Plan, after

(* The passes of PartitionGraphIntoIndependentNodeSubsets, with their      *)
(* epochs and flags, end with the subsets that PartitionOps defines, nodes *)
(* in the same order: Subgraph may use that definition for the loop.       *)
THEOREM LoopComputesPartition == Spec => []ComputesPartition
<1> DEFINE LoopInv == Building /\ ComputesPartition
<1>1. Init => LoopInv
  <2> SUFFICES ASSUME Init PROVE LoopInv
    OBVIOUS
  <2>1. /\ node_subsets = <<NewSubset>> /\ node_index = 1 /\ did_something = FALSE /\ pc = "build"
        /\ NewSubset.nodes = <<>>
    BY DEF Init, NewSubset
  <2>2. Epoch = 1 /\ Current = NewSubset /\ node_index - 1 = 0 /\ Epoch - 1 = 0
    BY <2>1 DEF Epoch, Current
  <2>3. Before = {} /\ NodeLists = <<>>
    BY <2>2 DEF Before, NodeLists
  <2>4. PassState(graph, TypeAt(graph, Before), Before, <<>>, 0, FALSE)
    <3> DEFINE t == TypeAt(graph, Before)
    <3> HIDE DEF t
    <3>1. PassState(graph, t, Before, <<>>, 0, FALSE)
      BY PassStart
    <3> QED BY <3>1 DEF t
  <2>5. GrowState(graph, <<>>, {}, 0)
    BY GrowStart
  <2>6. Building
    BY <2>1, <2>2, <2>3, <2>4, <2>5 DEF Building
  <2> QED BY <2>1, <2>6 DEF ComputesPartition
<1>2. PartitionInv /\ LoopInv /\ [Next]_vars => LoopInv'
  <2> SUFFICES ASSUME PartitionInv, Building, ComputesPartition, [Next]_vars PROVE LoopInv'
    OBVIOUS
  <2>1. CASE UNCHANGED vars
    <3>1. /\ graph' = graph /\ node_subsets' = node_subsets /\ node_index' = node_index
          /\ did_something' = did_something /\ pc' = pc
      BY <2>1 DEF vars
    <3>2. Before' = Before /\ NodeLists' = NodeLists /\ Current' = Current /\ Epoch' = Epoch
      BY <3>1 DEF Before, NodeLists, NodesOf, Current, Epoch
    <3>3. Building'
      BY <3>1, <3>2 DEF Building
    <3>4. ComputesPartition'
      BY <3>1 DEF ComputesPartition
    <3> QED BY <3>3, <3>4
  <2>2. CASE AssignNode \/ SkipNode \/ NextPass \/ NextSubset
    <3>1. Building'
      BY <2>2, AssignBuilds, SkipBuilds, AgainBuilds, SubsetBuilds
    <3>2. pc' = "build"
      BY <2>2 DEF AssignNode, SkipNode, NextPass, NextSubset
    <3> QED BY <3>1, <3>2 DEF ComputesPartition
  <2>3. CASE Finish
    <3>1. pc' = "done"
      BY <2>3 DEF Finish
    <3> QED BY <2>3, <3>1, FinishComputes DEF Building
  <2> QED BY <2>1, <2>2, <2>3 DEF Next
<1>3. LoopInv => ComputesPartition
  OBVIOUS
<1> HIDE DEF LoopInv
<1> QED BY <1>1, <1>2, <1>3, PartitionInvariant, PTL DEF Spec
=============================================================================
