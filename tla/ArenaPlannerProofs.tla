-------------------------- MODULE ArenaPlannerProofs --------------------------
(***************************************************************************)
(* Proofs about ArenaPlanner, for every set of graphs in execution order,  *)
(* with any number of nodes and tensors, and for all sizes.                *)
(***************************************************************************)
EXTENDS ArenaPlanner, OpsProofs, FiniteSetTheorems

-----------------------------------------------------------------------------
(* What IsGraph says of the graph, in the words of the model.              *)

NodeIds  == 0 .. NumNodes - 1
Given    == graph.inputs \cup graph.variables
Temps(i) == Node(i).temporaries

IsLegal == graph \in Graphs

(* kNodeNotAssigned is a number.                                           *)
LEMMA NotAssignedIsNat == NodeNotAssigned \in Nat
  BY SMT DEF NodeNotAssigned

(* What a legal graph gives the proofs, without its definition.            *)
LEMMA GraphFacts ==
    ASSUME IsLegal
    PROVE  /\ NumNodes \in Nat /\ 1 <= NumNodes /\ NumNodes <= NodeNotAssigned
           /\ \A i \in NodeIds :
                 /\ Node(i).inputs \in Seq(Tensors) /\ NodeInputs(i) = Elements(Node(i).inputs)
                 /\ NodeInputs(i) \subseteq Tensors
                 /\ Node(i).outputs \subseteq Tensors /\ Temps(i) \subseteq Tensors
                 /\ Node(i).constant \in BOOLEAN
                 /\ Given \cap (Node(i).outputs \cup Temps(i)) = {}
                 /\ Temps(i) \cap graph.outputs = {}
                 /\ \A t \in NodeInputs(i) : InArena(t) =>
                       t \in Given \/ \E j \in NodeIds : t \in Node(j).outputs
           /\ \A t \in graph.outputs : InArena(t) =>
                 t \in Given \/ \E j \in NodeIds : t \in Node(j).outputs
           /\ \A i, j \in NodeIds :
                 /\ i # j => Node(i).outputs \cap Node(j).outputs = {}
                 /\ i # j => Temps(i) \cap Temps(j) = {}
                 /\ i <= j => NodeInputs(i) \cap Node(j).outputs = {}
                 /\ Temps(i) \cap (NodeInputs(j) \cup Node(j).outputs) = {}
           /\ Given \cup graph.outputs \subseteq Tensors
           /\ graph.bytes \in [Tensors -> Sizes]
           /\ graph.kind \in [Tensors -> {"ArenaRw", "ArenaRwPersistent", "Dynamic", "MmapRo"}]
           /\ IsFiniteSet(Tensors)
           /\ \A t \in graph.variables : IsPersistent(t)
<1> DEFINE n == Len(graph.nodes)
           T == DOMAIN graph.kind
           NodeSet == [inputs : Seq(T), outputs : SUBSET T, temporaries : SUBSET T,
                       constant : BOOLEAN]
           read == UNION {Elements(graph.nodes[k].inputs) : k \in 1 .. n}
<1>1. IsGraph(graph)
  BY PlannerAssumption DEF IsLegal
<1>2. /\ graph.nodes \in Seq(NodeSet) /\ n \in 1 .. NodeNotAssigned
      /\ graph.kind \in [T -> {"ArenaRw", "ArenaRwPersistent", "Dynamic", "MmapRo"}]
      /\ graph.bytes \in [T -> Sizes] /\ IsFiniteSet(T)
      /\ Given \cup graph.outputs \subseteq T
      /\ \A t \in graph.variables : graph.kind[t] = "ArenaRwPersistent"
  BY <1>1 DEF IsGraph, Given
<1>3. \A i, j \in 1 .. n :
            /\ i # j => graph.nodes[i].outputs \cap graph.nodes[j].outputs = {}
            /\ i # j => graph.nodes[i].temporaries \cap graph.nodes[j].temporaries = {}
            /\ i <= j => Elements(graph.nodes[i].inputs) \cap graph.nodes[j].outputs = {}
  BY <1>1 DEF IsGraph
<1>4. \A i \in 1 .. n :
            /\ Given \cap (graph.nodes[i].outputs \cup graph.nodes[i].temporaries) = {}
            /\ graph.nodes[i].temporaries \cap (read \cup graph.outputs) = {}
            /\ \A j \in 1 .. n : graph.nodes[i].temporaries \cap graph.nodes[j].outputs = {}
  BY <1>1 DEF IsGraph, Given
<1>5. \A t \in read \cup graph.outputs : graph.kind[t] \in {"ArenaRw", "ArenaRwPersistent"} =>
            t \in Given \/ \E i \in 1 .. n : t \in graph.nodes[i].outputs
  BY <1>1 DEF IsGraph, Given
<1>6. NumNodes = n /\ Tensors = T
  BY DEF NumNodes, Tensors
<1> HIDE DEF n, T, read
<1>7. NodeNotAssigned \in Nat
  BY NotAssignedIsNat
<1>8. n \in Nat /\ 1 <= n /\ n <= NodeNotAssigned /\ \A i \in NodeIds : i \in Nat /\ i + 1 \in 1 .. n
  BY <1>2, <1>6, <1>7 DEF NodeIds
<1>9. \A k \in 1 .. n : k - 1 \in NodeIds /\ (k - 1) + 1 = k
  BY <1>6, <1>8 DEF NodeIds
<1>10. ASSUME NEW i \in NodeIds
       PROVE  /\ Node(i).inputs \in Seq(T) /\ Node(i).outputs \subseteq T /\ Temps(i) \subseteq T
              /\ Node(i).constant \in BOOLEAN
              /\ NodeInputs(i) = Elements(Node(i).inputs)
              /\ NodeInputs(i) \subseteq T
              /\ NodeInputs(i) \subseteq read
  <2>1. Node(i) = graph.nodes[i + 1] /\ i + 1 \in 1 .. n
    BY <1>8 DEF Node
  <2>2. Node(i) \in NodeSet
    <3> HIDE DEF NodeSet
    <3> QED BY <1>2, <2>1, LenProperties DEF n
  <2>3. Node(i).inputs \in Seq(T) /\ Node(i).outputs \subseteq T /\ Node(i).temporaries \subseteq T
        /\ Node(i).constant \in BOOLEAN
    BY <2>2
  <2> DEFINE s == Node(i).inputs
  <2>4. s \in Seq(T)
    BY <2>3
  <2>5. NodeInputs(i) = {s[k] : k \in DOMAIN s}
    BY DEF NodeInputs, ToSet
  <2> HIDE DEF s, NodeSet
  <2>6. DOMAIN s = 1 .. Len(s) /\ \A k \in 1 .. Len(s) : s[k] \in T
    BY <2>4, LenProperties
  <2>7. NodeInputs(i) = Elements(s) /\ NodeInputs(i) \subseteq T
    BY <2>5, <2>6 DEF Elements
  <2>8. Elements(s) \subseteq read
    BY <2>1 DEF read, s
  <2> QED BY <2>3, <2>7, <2>8 DEF s, Temps
<1>11. \A i \in NodeIds :
          /\ Given \cap (Node(i).outputs \cup Temps(i)) = {}
          /\ Temps(i) \cap graph.outputs = {}
          /\ Temps(i) \cap read = {}
  BY <1>4, <1>8 DEF Node, Temps
<1>12. \A i, j \in NodeIds :
          /\ i # j => Node(i).outputs \cap Node(j).outputs = {}
          /\ i # j => Temps(i) \cap Temps(j) = {}
          /\ i <= j => NodeInputs(i) \cap Node(j).outputs = {}
          /\ Temps(i) \cap Node(j).outputs = {}
  <2> SUFFICES ASSUME NEW i \in NodeIds, NEW j \in NodeIds
               PROVE  /\ i # j => Node(i).outputs \cap Node(j).outputs = {}
                      /\ i # j => Temps(i) \cap Temps(j) = {}
                      /\ i <= j => NodeInputs(i) \cap Node(j).outputs = {}
                      /\ Temps(i) \cap Node(j).outputs = {}
    OBVIOUS
  <2> DEFINE a == i + 1
             b == j + 1
  <2>1. a \in 1 .. n /\ b \in 1 .. n /\ (i # j => a # b) /\ (i <= j => a <= b)
    BY <1>8
  <2>2. /\ Node(i) = graph.nodes[a] /\ Node(j) = graph.nodes[b]
        /\ NodeInputs(i) = Elements(graph.nodes[a].inputs)
    BY <1>10 DEF Node
  <2> HIDE DEF a, b
  <2> QED BY <1>3, <1>4, <2>1, <2>2 DEF Temps
<1>13. ASSUME NEW t \in read \cup graph.outputs, InArena(t)
       PROVE  t \in Given \/ \E j \in NodeIds : t \in Node(j).outputs
  <2>1. graph.kind[t] \in {"ArenaRw", "ArenaRwPersistent"}
    BY <1>13 DEF InArena, IsRw, IsPersistent
  <2>2. CASE \E k \in 1 .. n : t \in graph.nodes[k].outputs
    <3>1. PICK k \in 1 .. n : t \in graph.nodes[k].outputs
      BY <2>2
    <3> QED BY <1>9, <3>1 DEF Node
  <2> QED BY <1>5, <2>1, <2>2
<1>14. \A t \in graph.variables : IsPersistent(t)
  BY <1>2 DEF IsPersistent
<1>15. \A i, j \in NodeIds : Temps(i) \cap (NodeInputs(j) \cup Node(j).outputs) = {}
  BY <1>10, <1>11, <1>12
<1> QED
  <2> HIDE DEF NodeSet
  <2> QED BY <1>2, <1>6, <1>8, <1>10, <1>11, <1>12, <1>13, <1>14, <1>15
-----------------------------------------------------------------------------
(* The counters of Subgraph and the sizes that nodes are prepared for.     *)

(* PrepareOpsStartingAt stops at some node.                                *)
LEMMA LastPreparedType ==
    ASSUME IsLegal, NEW first \in NodeIds
    PROVE  LastPrepared(first) \in first .. NumNodes - 1
<1> DEFINE dynamic == {i \in first .. NumNodes - 1 : HasDynamicOutput(i)}
<1>1. NumNodes \in Nat /\ first \in Nat /\ first <= NumNodes - 1
  BY GraphFacts DEF NodeIds
<1>2. CASE dynamic = {}
  BY <1>1, <1>2 DEF LastPrepared
<1>3. CASE dynamic # {}
  <2>1. dynamic \in SUBSET Nat /\ dynamic \subseteq first .. NumNodes - 1
    BY <1>1
  <2>2. LastPrepared(first) = CHOOSE i \in dynamic : \A j \in dynamic : i <= j
    BY <1>3 DEF LastPrepared
  <2> HIDE DEF dynamic
  <2>3. PICK x \in dynamic : \A y \in dynamic : ~(y < x)
    BY <1>3, <2>1, Smallest
  <2>4. x \in Nat /\ \A y \in dynamic : y \in Nat
    BY <2>1
  <2>5. \A y \in dynamic : x <= y
    BY <2>3, <2>4
  <2> QED BY <2>1, <2>2, <2>3, <2>5
<1> QED BY <1>2, <1>3

(* Preparing nodes changes the sizes of what they write, and nothing else. *)
LEMMA PreparedSizesFacts ==
    ASSUME IsLegal, bytes \in [Tensors -> Sizes],
           NEW first \in Int, NEW last \in Int, first .. last \subseteq NodeIds,
           NEW size \in PreparedSizes(first, last)
    PROVE  /\ size \in [Tensors -> Sizes]
           /\ \A t \in Tensors : size[t] # bytes[t] =>
                 /\ InArena(t)
                 /\ \E i \in first .. last : t \in Node(i).outputs \cup Temps(i)
<1> DEFINE nodes == {i \in first .. last : ~Node(i).constant}
           sized == {t \in UNION {Node(i).outputs \cup Node(i).temporaries : i \in nodes} :
                       InArena(t)}
           New(f) == [t \in Tensors |-> IF t \in sized THEN f[t] ELSE bytes[t]]
<1>1. PreparedSizes(first, last) = {New(f) : f \in [sized -> Sizes]}
  BY DEF PreparedSizes
<1>2. PICK f \in [sized -> Sizes] : size = New(f)
  BY <1>1
<1>3. \A t \in sized : InArena(t) /\ \E i \in first .. last : t \in Node(i).outputs \cup Temps(i)
  BY DEF Temps
<1> HIDE DEF sized
<1> QED BY <1>2, <1>3

(* Nor does it change the sizes of what nodes before them read.            *)
LEMMA InputSizesKept ==
    ASSUME IsLegal, bytes \in [Tensors -> Sizes],
           NEW first \in Int, NEW last \in Int, first .. last \subseteq NodeIds,
           NEW size \in [Tensors -> Sizes],
           \A t \in Tensors : size[t] # bytes[t] =>
                 \E i \in first .. last : t \in Node(i).outputs \cup Temps(i),
           NEW k \in NodeIds, k <= first
    PROVE  InputSizes(k, size) = InputSizes(k, bytes)
<1>1. \A t \in NodeInputs(k) : t \in Tensors /\ size[t] = bytes[t]
  <2> SUFFICES ASSUME NEW t \in NodeInputs(k), size[t] # bytes[t] PROVE FALSE
    BY GraphFacts
  <2>1. t \in Tensors
    BY GraphFacts
  <2>2. PICK i \in first .. last : t \in Node(i).outputs \cup Temps(i)
    BY <2>1
  <2>3. i \in NodeIds /\ k <= i
    BY DEF NodeIds
  <2> QED BY <2>2, <2>3, GraphFacts
<1> QED BY <1>1 DEF InputSizes

(* What the counters say, which a failed AllocateTensors starts again from *)
(* 0: nodes in front of next_to_prepare are prepared, and planned.         *)
DriverInv ==
    /\ IsLegal
    /\ bytes \in [Tensors -> Sizes]
    /\ state \in {"uninvokable", "invokable"}
    /\ pc \in {"idle", "prepare", "run"}
    /\ exec \in NodeIds
    /\ next_to_prepare \in 0 .. NumNodes
    /\ next_to_plan = next_to_prepare
    /\ pc # "idle" => state = "invokable" /\ exec <= next_to_prepare
    /\ pc = "run" => exec < next_to_prepare

(* The counters are in order in a new subgraph.                            *)
LEMMA DriverInit == Init => DriverInv
<1> SUFFICES ASSUME Init PROVE DriverInv
  OBVIOUS
<1>1. IsLegal
  BY DEF Init, IsLegal
<1>2. NumNodes \in Nat /\ NumNodes >= 1
  BY <1>1, GraphFacts
<1> QED BY <1>1, <1>2, GraphFacts DEF Init, DriverInv, NodeIds

(* The expressions that only the graph determines.                         *)
LEMMA GraphStays ==
    ASSUME graph' = graph
    PROVE  /\ Tensors' = Tensors /\ NumNodes' = NumNodes /\ NodeIds' = NodeIds
           /\ IsLegal' = IsLegal /\ Given' = Given
           /\ \A i : Node(i)' = Node(i) /\ NodeInputs(i)' = NodeInputs(i) /\ Temps(i)' = Temps(i)
           /\ \A t : InArena(t)' = InArena(t) /\ IsRw(t)' = IsRw(t)
                     /\ IsPersistent(t)' = IsPersistent(t) /\ IsDynamic(t)' = IsDynamic(t)
  BY DEF Tensors, NumNodes, NodeIds, IsLegal, Given, Node, NodeInputs, Temps, InArena, IsRw,
         IsPersistent, IsDynamic

(* Each action keeps the counters in order.                                *)
LEMMA DriverStep == DriverInv /\ [Next]_vars => DriverInv'
<1> SUFFICES ASSUME DriverInv, [Next]_vars PROVE DriverInv'
  OBVIOUS
<1>1. /\ NumNodes \in Nat /\ 1 <= NumNodes /\ 0 \in NodeIds /\ exec \in Nat
      /\ next_to_prepare \in Nat
  BY GraphFacts DEF DriverInv, NodeIds
<1>2. CASE UNCHANGED vars
  BY <1>2, GraphStays DEF DriverInv, vars, driverVars
<1>3. ASSUME NEW p, NEW first \in NodeIds, NEW plan, PrepareOpsAndTensors(p, first, plan)
      PROVE  /\ bytes' \in [Tensors -> Sizes]
             /\ next_to_prepare' \in first + 1 .. NumNodes
             /\ next_to_plan' = next_to_prepare'
  <2>1. LastPrepared(first) \in first .. NumNodes - 1
    BY LastPreparedType DEF DriverInv
  <2>2. PICK size \in PreparedSizes(first, LastPrepared(first)) :
            /\ bytes' = size
            /\ next_to_prepare' = LastPrepared(first) + 1
            /\ next_to_plan' = LastPrepared(first) + 1
    BY <1>3 DEF PrepareOpsAndTensors
  <2>3. first .. LastPrepared(first) \subseteq NodeIds /\ first \in Int
        /\ LastPrepared(first) \in Int
    BY <1>1, <2>1 DEF NodeIds
  <2>4. size \in [Tensors -> Sizes]
    BY <2>2, <2>3, PreparedSizesFacts DEF DriverInv
  <2> QED BY <1>1, <2>1, <2>2, <2>3, <2>4
<1>4. ASSUME NEW p, NEW first \in NodeIds, PrepareFails(p, first)
      PROVE  bytes' \in [Tensors -> Sizes]
  <2>1. LastPrepared(first) \in first .. NumNodes - 1
    BY LastPreparedType DEF DriverInv
  <2>2. PICK failing \in first .. LastPrepared(first) :
            \E size \in PreparedSizes(first, failing - 1) : bytes' = size
    BY <1>4 DEF PrepareFails
  <2>3. first .. failing - 1 \subseteq NodeIds /\ first \in Int /\ failing - 1 \in Int
    BY <1>1, <2>1 DEF NodeIds
  <2> QED BY <2>2, <2>3, PreparedSizesFacts DEF DriverInv
<1>5. CASE AllocateTensors
  <2>1. /\ bytes' \in [Tensors -> Sizes] /\ next_to_prepare' \in 0 + 1 .. NumNodes
        /\ next_to_plan' = next_to_prepare'
    BY <1>1, <1>3, <1>5 DEF AllocateTensors
  <2> QED BY <1>1, <1>5, <2>1, GraphStays DEF AllocateTensors, DriverInv
<1>6. CASE AllocateTensorsFails
  <2>1. bytes' \in [Tensors -> Sizes]
    BY <1>1, <1>4, <1>6 DEF AllocateTensorsFails
  <2> QED BY <1>1, <1>6, <2>1, GraphStays DEF AllocateTensorsFails, DriverInv
<1>7. CASE AcquireNonPersistentMemory
  BY <1>7, GraphStays DEF AcquireNonPersistentMemory, DriverInv, driverVars
<1>8. CASE ReleaseNonPersistentMemory
  BY <1>8, GraphStays DEF ReleaseNonPersistentMemory, DriverInv, driverVars
<1>9. ASSUME NEW t \in graph.inputs, NEW n \in Sizes, ResizeInputTensor(t, n) PROVE DriverInv'
  BY <1>9, GraphStays DEF ResizeInputTensor, DriverInv
<1>10. CASE FeedInputs
  BY <1>10, GraphStays DEF FeedInputs, DriverInv, driverVars
<1>11. CASE InvokeStart
  BY <1>1, <1>11, GraphStays DEF InvokeStart, DriverInv
<1>12. CASE InvokePrepare
  <2>1. CASE exec = next_to_prepare
    <3>1. /\ bytes' \in [Tensors -> Sizes] /\ next_to_prepare' \in exec + 1 .. NumNodes
          /\ next_to_plan' = next_to_prepare'
      BY <1>3, <1>12, <2>1 DEF InvokePrepare, DriverInv
    <3> QED BY <1>1, <1>12, <2>1, <3>1, GraphStays DEF InvokePrepare, DriverInv
  <2>2. CASE exec # next_to_prepare
    BY <1>1, <1>12, <2>2, GraphStays DEF InvokePrepare, DriverInv
  <2> QED BY <2>1, <2>2
<1>13. CASE InvokePrepareFails
  <2>1. bytes' \in [Tensors -> Sizes]
    BY <1>4, <1>13 DEF InvokePrepareFails, DriverInv
  <2> QED BY <1>1, <1>13, <2>1, GraphStays DEF InvokePrepareFails, DriverInv
<1>14. CASE InvokeReturns
  BY <1>1, <1>14, GraphStays DEF InvokeReturns, DriverInv
<1>15. ASSUME NEW size \in RunSizes(exec) PROVE size \in [Tensors -> Sizes]
  <2> DEFINE dynamic == {t \in Node(exec).outputs : IsDynamic(t)}
  <2>1. PICK f \in [dynamic -> Sizes] :
            size = [t \in Tensors |-> IF t \in dynamic THEN f[t] ELSE bytes[t]]
    BY <1>15 DEF RunSizes
  <2> HIDE DEF dynamic
  <2> QED BY <2>1 DEF DriverInv
<1>16. CASE InvokeNode
  <2>1. PICK size \in RunSizes(exec) :
            /\ bytes' = size
            /\ next_to_prepare' = NextToPrepare(size)
            /\ next_to_plan' = IF MustReplan(size) THEN exec + 1 ELSE next_to_plan
    BY <1>16 DEF InvokeNode
  <2>2. /\ pc = "run" /\ state' = state /\ graph' = graph
        /\ \/ exec = NumNodes - 1 /\ pc' = "idle" /\ exec' = 0
           \/ exec # NumNodes - 1 /\ pc' = "prepare" /\ exec' = exec + 1
    BY <1>16 DEF InvokeNode, NextNode
  <2>3. exec < next_to_prepare /\ next_to_prepare <= NumNodes /\ next_to_plan = next_to_prepare
    BY <1>1, <2>2 DEF DriverInv
  <2>4. /\ next_to_prepare' \in 0 .. NumNodes /\ next_to_plan' = next_to_prepare'
        /\ exec + 1 <= next_to_prepare'
    BY <1>1, <2>1, <2>3 DEF NextToPrepare, MustReplan
  <2>5. exec' \in NodeIds
    BY <1>1, <2>2, <2>3 DEF NodeIds
  <2> QED BY <1>1, <1>15, <2>1, <2>2, <2>4, <2>5, GraphStays DEF DriverInv
<1>17. CASE InvokeNodeFails
  <2>1. bytes' \in [Tensors -> Sizes]
    BY <1>15, <1>17 DEF InvokeNodeFails, DriverInv
  <2> QED BY <1>1, <1>17, <2>1, GraphStays DEF InvokeNodeFails, DriverInv
<1> QED BY <1>2, <1>5, <1>6, <1>7, <1>8, <1>9, <1>10, <1>11, <1>12, <1>13, <1>14, <1>16, <1>17
        DEF Next

(* A graph that may be invoked has each node in front of next_to_prepare   *)
(* prepared for the sizes that its inputs have now.                        *)
PreparedInv ==
    /\ DOMAIN prepared = NodeIds
    /\ state = "invokable" =>
          \A i \in 0 .. next_to_prepare - 1 : prepared[i] = InputSizes(i, bytes)

(* It needs that a node that fails has not resized its outputs, and that   *)
(* nodes resize only what nodes behind them read.                          *)
LEMMA PreparedStep ==
    ASSUME LateFailures = FALSE, DriverInv, PreparedInv, [Next]_vars
    PROVE  PreparedInv'
<1>1. /\ NumNodes \in Nat /\ 1 <= NumNodes /\ 0 \in NodeIds /\ exec \in Nat /\ IsLegal
      /\ next_to_prepare \in 0 .. NumNodes /\ bytes \in [Tensors -> Sizes]
      /\ \A i \in 0 .. next_to_prepare - 1 : i \in NodeIds
      /\ exec \in NodeIds
  BY GraphFacts DEF DriverInv, NodeIds
<1>2. graph' = graph => NodeIds' = NodeIds /\ Tensors' = Tensors
                        /\ \A i : InputSizes(i, bytes)' = InputSizes(i, bytes')
  BY GraphStays DEF InputSizes, NodeInputs, Node
<1>3. CASE UNCHANGED vars
  BY <1>2, <1>3 DEF PreparedInv, vars, driverVars
<1>4. ASSUME NEW p, NEW first \in NodeIds, NEW plan, PrepareOpsAndTensors(p, first, plan)
      PROVE  /\ \A i \in NodeIds : i < first => prepared'[i] = prepared[i]
                                                /\ InputSizes(i, bytes') = InputSizes(i, bytes)
             /\ \A i \in first .. next_to_prepare' - 1 : prepared'[i] = InputSizes(i, bytes')
             /\ DOMAIN prepared' = NodeIds /\ next_to_prepare' \in 0 .. NumNodes
  <2> DEFINE last == LastPrepared(first)
  <2>1. last \in first .. NumNodes - 1
    BY <1>1, LastPreparedType
  <2>2. PICK size \in PreparedSizes(first, last) :
            /\ bytes' = size
            /\ prepared' = Prepared(first, last, size)
            /\ next_to_prepare' = last + 1
    BY <1>4 DEF PrepareOpsAndTensors
  <2> HIDE DEF last
  <2>3. first .. last \subseteq NodeIds /\ first \in Int /\ last \in Int
    BY <1>1, <2>1 DEF NodeIds
  <2>4. /\ size \in [Tensors -> Sizes]
        /\ \A t \in Tensors : size[t] # bytes[t] =>
              \E i \in first .. last : t \in Node(i).outputs \cup Temps(i)
    BY <1>1, <2>2, <2>3, PreparedSizesFacts
  <2>5. \A i \in NodeIds : i < first => InputSizes(i, size) = InputSizes(i, bytes)
    <3>1. \A i \in NodeIds : i < first => i <= first
      BY <2>3 DEF NodeIds
    <3> QED BY <1>1, <2>3, <2>4, <3>1, InputSizesKept
  <2>6. /\ DOMAIN prepared' = NodeIds
        /\ \A i \in NodeIds : prepared'[i] = IF i \in first .. last THEN InputSizes(i, size)
                                             ELSE prepared[i]
    BY <2>2 DEF Prepared, PreparedInv
  <2> QED BY <1>1, <2>1, <2>2, <2>3, <2>5, <2>6 DEF NodeIds
<1>5. ASSUME NEW p, NEW first \in NodeIds, PrepareFails(p, first)
      PROVE  /\ \A i \in NodeIds : i < first => prepared'[i] = prepared[i]
                                                /\ InputSizes(i, bytes') = InputSizes(i, bytes)
             /\ DOMAIN prepared' = NodeIds
  <2>1. LastPrepared(first) \in first .. NumNodes - 1
    BY <1>1, LastPreparedType
  <2>2. PICK failing \in first .. LastPrepared(first) :
            \E size \in PreparedSizes(first, failing - 1) :
                bytes' = size /\ prepared' = Prepared(first, failing - 1, size)
    BY <1>5 DEF PrepareFails
  <2> DEFINE last == failing - 1
  <2>3. first .. last \subseteq NodeIds /\ first \in Int /\ last \in Int
    BY <1>1, <2>1 DEF NodeIds
  <2>4. PICK size \in PreparedSizes(first, last) :
            bytes' = size /\ prepared' = Prepared(first, last, size)
    BY <2>2
  <2> HIDE DEF last
  <2>5. /\ size \in [Tensors -> Sizes]
        /\ \A t \in Tensors : size[t] # bytes[t] =>
              \E i \in first .. last : t \in Node(i).outputs \cup Temps(i)
    BY <1>1, <2>3, <2>4, PreparedSizesFacts
  <2>6. \A i \in NodeIds : i < first => InputSizes(i, size) = InputSizes(i, bytes)
    <3>1. \A i \in NodeIds : i < first => i <= first
      BY <2>3 DEF NodeIds
    <3> QED BY <1>1, <2>3, <2>5, <3>1, InputSizesKept
  <2>7. /\ DOMAIN prepared' = NodeIds
        /\ \A i \in NodeIds : i < first => prepared'[i] = prepared[i]
    BY <2>3, <2>4 DEF Prepared, PreparedInv, NodeIds
  <2> QED BY <2>4, <2>6, <2>7
<1>6. CASE AllocateTensors
  BY <1>1, <1>2, <1>4, <1>6 DEF AllocateTensors, PreparedInv
<1>7. CASE AllocateTensorsFails
  BY <1>1, <1>2, <1>5, <1>7 DEF AllocateTensorsFails, PreparedInv
<1>8. CASE AcquireNonPersistentMemory
  BY <1>2, <1>8 DEF AcquireNonPersistentMemory, PreparedInv, driverVars
<1>9. CASE ReleaseNonPersistentMemory
  BY <1>2, <1>9 DEF ReleaseNonPersistentMemory, PreparedInv, driverVars
<1>10. ASSUME NEW t \in graph.inputs, NEW n \in Sizes, ResizeInputTensor(t, n) PROVE PreparedInv'
  BY <1>2, <1>10 DEF ResizeInputTensor, PreparedInv
<1>11. CASE FeedInputs
  BY <1>2, <1>11 DEF FeedInputs, PreparedInv, driverVars
<1>12. CASE InvokeStart
  BY <1>2, <1>12 DEF InvokeStart, PreparedInv
<1>13. CASE InvokePrepare
  <2>1. CASE exec = next_to_prepare
    <3>1. PrepareOpsAndTensors(planner, exec, next_to_plan) /\ state' = state /\ graph' = graph
      BY <1>13, <2>1 DEF InvokePrepare
    <3>2. \A i \in 0 .. exec - 1 : i \in NodeIds /\ i < exec
      BY <1>1, <2>1
    <3>3. \A i \in 0 .. next_to_prepare' - 1 : i \in exec .. next_to_prepare' - 1 \/ i \in 0 .. exec - 1
      BY <1>1, <1>4, <3>1
    <3> QED BY <1>1, <1>2, <1>4, <2>1, <3>1, <3>2, <3>3 DEF PreparedInv
  <2>2. CASE exec # next_to_prepare
    BY <1>2, <1>13, <2>2 DEF InvokePrepare, PreparedInv
  <2> QED BY <2>1, <2>2
<1>14. CASE InvokePrepareFails
  <2>1. PrepareFails(planner, exec) /\ state' = state /\ graph' = graph
        /\ next_to_prepare' = next_to_prepare /\ exec = next_to_prepare
    BY <1>14 DEF InvokePrepareFails
  <2>2. \A i \in 0 .. exec - 1 : i \in NodeIds /\ i < exec
    BY <1>1, <2>1
  <2> QED BY <1>1, <1>2, <1>5, <2>1, <2>2 DEF PreparedInv
<1>15. CASE InvokeReturns
  BY <1>2, <1>15 DEF InvokeReturns, PreparedInv
<1>16. CASE InvokeNode
  <2>1. PICK size \in RunSizes(exec) : bytes' = size /\ next_to_prepare' = NextToPrepare(size)
    BY <1>16 DEF InvokeNode
  <2>2. graph' = graph /\ state' = state /\ prepared' = prepared /\ exec < next_to_prepare
    BY <1>16 DEF InvokeNode, DriverInv
  <2> DEFINE dynamic == {t \in Node(exec).outputs : IsDynamic(t)}
  <2>3. PICK f \in [dynamic -> Sizes] :
            size = [t \in Tensors |-> IF t \in dynamic THEN f[t] ELSE bytes[t]]
    BY <2>1 DEF RunSizes
  <2>4. \A t \in dynamic : t \in Node(exec).outputs
    OBVIOUS
  <2> HIDE DEF dynamic
  <2>5. size \in [Tensors -> Sizes] /\ \A t \in Tensors : size[t] # bytes[t] => t \in Node(exec).outputs
    BY <1>1, <2>3, <2>4
  <2>6. \A i \in NodeIds : i <= exec => InputSizes(i, size) = InputSizes(i, bytes)
    <3>1. exec .. exec \subseteq NodeIds /\ exec \in Int /\ exec \in exec .. exec
      BY <1>1
    <3>2. \A t \in Tensors : size[t] # bytes[t] =>
              \E i \in exec .. exec : t \in Node(i).outputs \cup Temps(i)
      BY <2>5, <3>1
    <3> QED BY <1>1, <2>5, <3>1, <3>2, InputSizesKept
  <2>7. \A i \in 0 .. exec : i \in NodeIds /\ i <= exec /\ i \in 0 .. next_to_prepare - 1
    BY <1>1, <2>2
  <2>8. CASE size = bytes
    BY <1>2, <2>1, <2>2, <2>8 DEF PreparedInv, NextToPrepare
  <2>9. CASE size # bytes
    <3>1. next_to_prepare' - 1 = exec
      BY <1>1, <2>1, <2>9 DEF NextToPrepare
    <3> QED BY <1>2, <2>1, <2>2, <2>6, <2>7, <3>1 DEF PreparedInv
  <2> QED BY <2>8, <2>9
<1>17. CASE InvokeNodeFails
  BY <1>2, <1>17 DEF InvokeNodeFails, PreparedInv
<1> QED BY <1>3, <1>6, <1>7, <1>8, <1>9, <1>10, <1>11, <1>12, <1>13, <1>14, <1>15, <1>16, <1>17
        DEF Next

(* If nodes fail before they resize their outputs, a node that Invoke runs *)
(* was prepared for the sizes its inputs have (core/subgraph.cc:1063).     *)
THEOREM RunsAsPrepared == LateFailures = FALSE => (Spec => []PreparedForInputs)
<1> SUFFICES ASSUME LateFailures = FALSE PROVE Spec => []PreparedForInputs
  OBVIOUS
<1>1. Init => PreparedInv
  BY DEF Init, PreparedInv, NodeIds
<1>2. DriverInv /\ PreparedInv => PreparedForInputs
  <2> SUFFICES ASSUME DriverInv, PreparedInv, pc = "run"
               PROVE  prepared[exec] = InputSizes(exec, bytes)
    BY DEF PreparedForInputs
  <2>1. exec \in 0 .. next_to_prepare - 1
    BY GraphFacts DEF DriverInv, NodeIds
  <2> QED BY <2>1 DEF DriverInv, PreparedInv
<1> QED BY <1>1, <1>2, DriverInit, DriverStep, PreparedStep, PTL DEF Spec

-----------------------------------------------------------------------------
(* SimpleMemoryArena::Allocate as the planner uses it: the loop over the   *)
(* plan is a fold here.                                                    *)

AllocRecords == [tensor : Tensors \cup {-1}, offset : Nat, size : Nat, first_node : Int,
                 last_node : Int]
ArenaRecords == [allocs : Seq(AllocRecords), buffer : BOOLEAN]
AllocRequests == [tensor : Tensors, size : Nat, alignment : Nat \ {0}, first_node : Nat,
                  last_node : Nat]
ScanRecords == [current_offset : Nat, best_offset : Nat \cup {-1}, best_offset_fit : Nat \cup {-1}]

(* The plan is sorted by offset.                                           *)
SortedPlan(s) == \A j, k \in 1 .. Len(s) : j < k => s[j].offset <= s[k].offset

(* No part of a is where a block of n bytes at offset o would be.          *)
ClearOf(a, o, n) == End(a) <= o \/ o + n <= a.offset

(* One iteration: what was passed ends at or before current_offset, and a  *)
(* new best gap begins behind it and ends before the entry.                *)
LEMMA ScanStepFacts ==
    ASSUME NEW sc \in ScanRecords, NEW a \in AllocRecords, NEW r \in AllocRequests
    PROVE  /\ ScanStep(sc, a, r) \in ScanRecords
           /\ ScanStep(sc, a, r).current_offset >= sc.current_offset
           /\ ~Apart(a, r) => End(a) <= ScanStep(sc, a, r).current_offset
           /\ \/ ScanStep(sc, a, r).best_offset = sc.best_offset
              \/ /\ ScanStep(sc, a, r).best_offset >= sc.current_offset
                 /\ ScanStep(sc, a, r).best_offset + r.size <= a.offset
<1> DEFINE c == sc.current_offset
           aligned == AlignTo(r.alignment, c)
           better  == /\ aligned + r.size <= a.offset
                      /\ \/ sc.best_offset_fit = NotAssigned
                         \/ a.offset - aligned < sc.best_offset_fit
           x == IF c < End(a) THEN End(a) ELSE c
           y == IF better THEN aligned ELSE sc.best_offset
           z == IF better THEN a.offset - c ELSE sc.best_offset_fit
           new == ScanStep(sc, a, r)
<1>1. /\ r.alignment \in Nat \ {0} /\ r.size \in Nat /\ a.offset \in Nat /\ c \in Nat
      /\ End(a) \in Nat /\ sc.best_offset \in Nat \cup {-1}
      /\ sc.best_offset_fit \in Nat \cup {-1}
  BY DEF ScanRecords, AllocRecords, AllocRequests, End
<1>2. aligned \in Nat /\ aligned >= c
  <2>1. c % r.alignment \in 0 .. r.alignment - 1
    BY <1>1
  <2> QED BY <1>1, <2>1 DEF AlignTo
<1>3. new = IF Apart(a, r) THEN sc
            ELSE [current_offset |-> x, best_offset |-> y, best_offset_fit |-> z]
  BY DEF ScanStep
<1> HIDE DEF aligned
<1>4. /\ x \in Nat /\ x >= c /\ End(a) <= x
      /\ y \in Nat \cup {-1} /\ z \in Nat \cup {-1}
      /\ y = sc.best_offset \/ (y >= c /\ y + r.size <= a.offset)
  BY <1>1, <1>2
<1> HIDE DEF new, x, y, z, better
<1>5. CASE Apart(a, r)
  BY <1>1, <1>3, <1>5 DEF new
<1>6. CASE ~Apart(a, r)
  <2>1. new = [current_offset |-> x, best_offset |-> y, best_offset_fit |-> z]
    BY <1>3, <1>6
  <2>2. new \in ScanRecords /\ new.current_offset = x /\ new.best_offset = y
    BY <1>4, <2>1 DEF ScanRecords
  <2> QED BY <1>4, <2>2 DEF new
<1> QED BY <1>5, <1>6

(* The record that Allocate returns, and that it is clear of what is used  *)
(* at the same time.                                                       *)
LEMMA AllocationFacts ==
    ASSUME NEW arena \in ArenaRecords, NEW r \in AllocRequests
    PROVE  LET new == Allocation(arena, r)
               s   == arena.allocs
           IN  /\ new \in AllocRecords
               /\ new.tensor = r.tensor /\ new.size = r.size
               /\ new.first_node = r.first_node /\ new.last_node = r.last_node
               /\ r.size # 0 /\ SortedPlan(s) =>
                     \A j \in 1 .. Len(s) : Apart(s[j], r) \/ ClearOf(s[j], new.offset, r.size)
<1> DEFINE s == arena.allocs
           n == Len(s)
           step == [k \in 1 .. n |-> [sc \in ScanRecords |-> ScanStep(sc, s[k], r)]]
           After(f) == [k \in 0 .. Len(s) |-> IF k = 0 THEN ScanStart
                                              ELSE ScanStep(f[k - 1], s[k], r)]
           found == CHOOSE f : f = After(f)
<1>1. s \in Seq(AllocRecords) /\ n \in Nat /\ \A k \in 1 .. n : s[k] \in AllocRecords
  <2>1. s \in Seq(AllocRecords)
    BY DEF ArenaRecords
  <2> HIDE DEF s
  <2> QED BY <2>1, LenProperties
<1>2. ScanStart \in ScanRecords
  BY DEF ScanStart, ScanRecords, NotAssigned
<1>3. \E f : f = After(f)
  <2>1. step \in Steps(ScanRecords, n)
    <3>1. \A k \in 1 .. n : \A sc \in ScanRecords : ScanStep(sc, s[k], r) \in ScanRecords
      BY <1>1, ScanStepFacts
    <3> HIDE DEF s, n
    <3> QED BY <3>1 DEF Steps
  <2>2. PICK f : IsIteration(f, ScanRecords, n, ScanStart, step)
    <3> HIDE DEF step, n
    <3> QED BY <1>1, <1>2, <2>1, IterationExists, Zenon
  <2>3. /\ f \in [0 .. n -> ScanRecords] /\ f[0] = ScanStart
        /\ \A k \in 1 .. n : f[k] = step[k][f[k - 1]]
    BY <2>2 DEF IsIteration
  <2>4. /\ \A k \in 1 .. n : f[k - 1] \in ScanRecords
        /\ \A k \in 0 .. n : k = 0 \/ k \in 1 .. n
    BY <1>1, <2>3
  <2>5. \A k \in 1 .. n : f[k] = ScanStep(f[k - 1], s[k], r)
    <3> HIDE DEF s, n
    <3> QED BY <2>3, <2>4
  <2> HIDE DEF s, step
  <2>6. f = After(f)
    BY <2>3, <2>4, <2>5
  <2> QED BY <2>6
<1>4. found = After(found)
  BY <1>3
<1>5. Allocation(arena, r).offset = (IF r.size = 0 THEN 0 ELSE ScanResult(found[n], r))
  BY DEF Allocation, Fold
<1> HIDE DEF found, s
<1>6. found[0] = ScanStart /\ \A k \in 1 .. n : found[k] = ScanStep(found[k - 1], s[k], r)
  BY <1>1, <1>4
<1>7. \A k \in 0 .. n : found[k] \in ScanRecords
  <2> DEFINE U == {k \in 0 .. n : found[k] \in ScanRecords}
  <2>1. 0 \in U
    BY <1>1, <1>2, <1>6
  <2>2. \A k \in 1 .. n : k - 1 \in U => k \in U
    BY <1>1, <1>6, ScanStepFacts
  <2> HIDE DEF U
  <2>3. \A k \in 0 .. n : k \in U
    BY <1>1, <2>1, <2>2, UpTo
  <2> QED BY <2>3 DEF U
<1>8. ScanResult(found[n], r) \in Nat /\ (found[n].best_offset # -1 => ScanResult(found[n], r) = found[n].best_offset)
      /\ (found[n].best_offset = -1 => ScanResult(found[n], r) >= found[n].current_offset)
  <2> DEFINE e == found[n]
  <2>1. e \in ScanRecords
    BY <1>1, <1>7
  <2> HIDE DEF e
  <2>2. e.current_offset \in Nat /\ e.best_offset \in Nat \cup {-1} /\ r.alignment \in Nat \ {0}
    BY <2>1 DEF ScanRecords, AllocRequests
  <2>3. e.current_offset % r.alignment \in 0 .. r.alignment - 1
    BY <2>2
  <2>4. ScanResult(e, r) \in Nat /\ (e.best_offset # -1 => ScanResult(e, r) = e.best_offset)
      /\ (e.best_offset = -1 => ScanResult(e, r) >= e.current_offset)
    BY <2>2, <2>3 DEF ScanResult, AlignTo, NotAssigned
  <2> QED BY <2>4 DEF e
<1>9. /\ Allocation(arena, r) \in AllocRecords
      /\ Allocation(arena, r).tensor = r.tensor /\ Allocation(arena, r).size = r.size
      /\ Allocation(arena, r).first_node = r.first_node
      /\ Allocation(arena, r).last_node = r.last_node
  <2> DEFINE o == Allocation(arena, r).offset
  <2>1. Allocation(arena, r) = [tensor |-> r.tensor, offset |-> o, size |-> r.size,
                                first_node |-> r.first_node, last_node |-> r.last_node]
    BY DEF Allocation
  <2>2. o \in Nat
    BY <1>5, <1>8
  <2> HIDE DEF o
  <2> QED BY <2>1, <2>2 DEF AllocRecords, AllocRequests
<1>10. ASSUME r.size # 0, SortedPlan(s), NEW j \in 1 .. n, ~Apart(s[j], r)
       PROVE  ClearOf(s[j], Allocation(arena, r).offset, r.size)
  <2> DEFINE Passed(k, f) ==
          /\ j <= k => End(s[j]) <= f.current_offset
          /\ f.best_offset # -1 /\ j <= k => ClearOf(s[j], f.best_offset, r.size)
          /\ f.best_offset # -1 /\ k < j => f.best_offset + r.size <= s[j].offset
             U == {k \in 0 .. n : Passed(k, found[k])}
  <2>1. 0 \in U
    BY <1>1, <1>6 DEF ScanStart, NotAssigned
  <2>2. ASSUME NEW k \in 1 .. n, k - 1 \in U PROVE k \in U
    <3> DEFINE f == found[k - 1]
               g == found[k]
    <3>1. f \in ScanRecords /\ g \in ScanRecords /\ g = ScanStep(f, s[k], r) /\ Passed(k - 1, f)
          /\ s[k] \in AllocRecords /\ s[j] \in AllocRecords
      BY <1>1, <1>6, <1>7, <2>2
    <3>2. /\ g.current_offset >= f.current_offset
          /\ ~Apart(s[k], r) => End(s[k]) <= g.current_offset
          /\ \/ g.best_offset = f.best_offset
             \/ /\ g.best_offset >= f.current_offset
                /\ g.best_offset + r.size <= s[k].offset
      BY <3>1, ScanStepFacts
    <3>3. k < j => s[k].offset <= s[j].offset
      BY <1>1, <1>10 DEF SortedPlan
    <3>4. j = k \/ j < k \/ k < j
      BY <1>1
    <3>5. /\ f.current_offset \in Nat /\ g.current_offset \in Nat /\ r.size \in Nat
          /\ f.best_offset \in Nat \cup {-1} /\ g.best_offset \in Nat \cup {-1}
          /\ s[k].offset \in Nat /\ s[j].offset \in Nat /\ End(s[j]) \in Nat
      <4> HIDE DEF f, g
      <4>1. r.size \in Nat
        BY DEF AllocRequests
      <4>2. /\ f.current_offset \in Nat /\ g.current_offset \in Nat
            /\ f.best_offset \in Nat \cup {-1} /\ g.best_offset \in Nat \cup {-1}
        BY <3>1 DEF ScanRecords
      <4>3. s[k].offset \in Nat /\ s[j].offset \in Nat /\ s[j].size \in Nat
        BY <3>1 DEF AllocRecords
      <4>4. End(s[j]) = s[j].offset + s[j].size
        BY DEF End
      <4>5. End(s[j]) \in Nat
        BY <4>3, <4>4
      <4> QED BY <4>1, <4>2, <4>3, <4>5
    <3> HIDE DEF f, g
    <3>6. (j <= k - 1 <=> j < k) /\ (k - 1 < j <=> k <= j)
      BY <1>1
    <3>7. Passed(k, g)
      <4>1. CASE j = k
        BY <1>10, <3>1, <3>2, <3>5, <3>6, <4>1 DEF ClearOf
      <4>2. CASE j < k
        BY <1>1, <3>1, <3>2, <3>5, <3>6, <4>2 DEF ClearOf
      <4>3. CASE k < j
        <5>1. ~(j <= k) /\ k - 1 < j
          BY <1>1, <4>3
        <5>2. g.best_offset # -1 => g.best_offset + r.size <= s[j].offset
          <6>1. CASE g.best_offset = f.best_offset
            BY <3>1, <5>1, <6>1
          <6>2. CASE g.best_offset + r.size <= s[k].offset /\ g.best_offset # -1
            <7> DEFINE x == g.best_offset
                       y == s[k].offset
                       z == s[j].offset
            <7>1. x \in Nat /\ y \in Nat /\ z \in Nat /\ r.size \in Nat /\ y <= z
              BY <3>3, <3>5, <4>3, <6>2
            <7>2. x + r.size <= y
              BY <6>2
            <7> HIDE DEF x, y, z
            <7>3. x + r.size <= z
              BY <7>1, <7>2
            <7> QED BY <7>3 DEF x, z
          <6> QED BY <3>2, <6>1, <6>2
        <5> QED BY <5>1, <5>2
      <4> QED BY <3>4, <4>1, <4>2, <4>3
    <3> QED BY <1>1, <3>7 DEF g
  <2> HIDE DEF U
  <2>3. n \in U
    <3>1. \A k \in 0 .. n : k \in U
      BY <1>1, <2>1, <2>2, UpTo
    <3> QED BY <1>1, <3>1
  <2>4. Passed(n, found[n]) /\ j <= n
    BY <1>1, <2>3 DEF U
  <2>5. found[n].current_offset \in Nat /\ End(s[j]) \in Nat
    <3>1. found[n] \in ScanRecords /\ s[j] \in AllocRecords
      BY <1>1, <1>7
    <3> QED BY <3>1 DEF ScanRecords, AllocRecords, End
  <2> QED BY <1>5, <1>8, <1>10, <2>4, <2>5 DEF ClearOf
<1> QED
  <2> HIDE DEF n
  <2> QED BY <1>9, <1>10 DEF s, n

(* Members of a plan by their places.                                      *)
LEMMA PlanMembers ==
    ASSUME NEW s \in Seq(AllocRecords)
    PROVE  /\ Len(s) \in Nat
           /\ \A k \in 1 .. Len(s) : s[k] \in Elements(s) /\ s[k] \in AllocRecords
           /\ \A a \in Elements(s) : a \in AllocRecords /\ \E k \in 1 .. Len(s) : a = s[k]
           /\ \A a \in AllocRecords : a.offset \in Nat /\ a.size \in Nat /\ a.first_node \in Int
                                      /\ a.last_node \in Int
<1>1. Len(s) \in Nat /\ \A k \in 1 .. Len(s) : s[k] \in AllocRecords
  BY LenProperties
<1>2. \A a \in AllocRecords : a.offset \in Nat /\ a.size \in Nat /\ a.first_node \in Int
                              /\ a.last_node \in Int
  BY DEF AllocRecords
<1> QED BY <1>1, <1>2 DEF Elements

(* A new entry is put where the plan stays sorted.                         *)
LEMMA WithAllocationFacts ==
    ASSUME NEW arena \in ArenaRecords, NEW new \in AllocRecords
    PROVE  LET with == WithAllocation(arena, new)
           IN  /\ with \in ArenaRecords /\ with.buffer = arena.buffer
               /\ Elements(with.allocs) =
                     Elements(arena.allocs) \cup (IF new.size = 0 THEN {} ELSE {new})
               /\ SortedPlan(arena.allocs) => SortedPlan(with.allocs)
<1> DEFINE s == arena.allocs
           n == Len(s)
           o == new.offset
           with == WithAllocation(arena, new)
           spot == CHOOSE k \in 1 .. Len(arena.allocs) + 1 : InsertionPoint(arena.allocs, new.offset, k)
           r == WithInserted(s, spot, new)
<1>1. s \in Seq(AllocRecords) /\ arena.buffer \in BOOLEAN
  BY DEF ArenaRecords
<1>2. /\ n \in Nat /\ \A k \in 1 .. n : s[k] \in AllocRecords /\ s[k].offset \in Nat
      /\ o \in Nat
  <2> HIDE DEF s
  <2> QED BY <1>1, PlanMembers
<1>3. CASE new.size = 0
  BY <1>3 DEF WithAllocation
<1>4. CASE new.size # 0
  <2>1. PICK x \in 1 .. n + 1 : InsertionPoint(s, o, x)
    <3> DEFINE B == {j \in 1 .. n + 1 : j = n + 1 \/ ~(s[j].offset < o)}
    <3>1. B \in SUBSET Nat /\ n + 1 \in B
      BY <1>2
    <3>2. PICK x \in B : \A y \in B : ~(y < x)
      BY <3>1, Smallest
    <3>3. x \in 1 .. n + 1 /\ (x <= n => ~(s[x].offset < o))
      BY <1>2, <3>2
    <3>4. \A j \in 1 .. x - 1 : j \in 1 .. n + 1 /\ j < x /\ j # n + 1
      BY <1>2, <3>3
    <3>5. \A j \in 1 .. x - 1 : s[j].offset < o
      BY <3>2, <3>4
    <3> QED BY <3>3, <3>5 DEF InsertionPoint
  <2>2. spot \in 1 .. n + 1 /\ InsertionPoint(s, o, spot)
    BY <2>1
  <2>3. with = [arena EXCEPT !.allocs = r]
    BY <1>4 DEF WithAllocation, InsertAt, WithInserted
  <2> HIDE DEF spot, s, with
  <2>4. /\ r \in Seq(AllocRecords) /\ Len(r) = n + 1
        /\ \A j \in 1 .. n + 1 : r[j] = IF j < spot THEN s[j] ELSE IF j = spot THEN new ELSE s[j - 1]
    BY <1>1, <2>2, Inserted
  <2> HIDE DEF r
  <2>5. with \in ArenaRecords /\ with.buffer = arena.buffer /\ with.allocs = r
    BY <2>3, <2>4 DEF ArenaRecords
  <2>6. /\ spot \in Nat /\ \A j \in 1 .. n + 1 : j \in Nat /\ (j < spot => j \in 1 .. n)
        /\ \A j \in 1 .. n + 1 : j > spot => j - 1 \in 1 .. n /\ j - 1 >= spot
    BY <1>2, <2>2
  <2>7. Elements(r) = Elements(s) \cup {new}
    <3>1. \A j \in 1 .. n + 1 : r[j] \in Elements(s) \cup {new}
      BY <1>2, <2>4, <2>6 DEF Elements
    <3>2. r[spot] = new /\ spot \in 1 .. n + 1
      BY <2>2, <2>4, <2>6
    <3>3. \A j \in 1 .. n : \E k \in 1 .. n + 1 : r[k] = s[j]
      <4> SUFFICES ASSUME NEW j \in 1 .. n PROVE \E k \in 1 .. n + 1 : r[k] = s[j]
        OBVIOUS
      <4>1. CASE j < spot
        BY <1>2, <2>4, <4>1
      <4>2. CASE ~(j < spot)
        <5>1. j + 1 \in 1 .. n + 1 /\ ~(j + 1 < spot) /\ j + 1 # spot /\ (j + 1) - 1 = j
          BY <1>2, <2>6, <4>2
        <5> QED BY <2>4, <5>1
      <4> QED BY <4>1, <4>2
    <3>4. Elements(r) = {r[k] : k \in 1 .. n + 1} /\ Elements(s) = {s[k] : k \in 1 .. n}
      BY <2>4 DEF Elements
    <3>5. Elements(r) \subseteq Elements(s) \cup {new}
      BY <3>1, <3>4
    <3>6. Elements(s) \subseteq Elements(r) /\ new \in Elements(r)
      BY <3>2, <3>3, <3>4
    <3> QED BY <3>5, <3>6
  <2>8. ASSUME SortedPlan(s) PROVE SortedPlan(r)
    <3> SUFFICES ASSUME NEW j \in 1 .. n + 1, NEW k \in 1 .. n + 1, j < k
                 PROVE  r[j].offset <= r[k].offset
      BY <2>4 DEF SortedPlan
    <3>1. /\ \A i \in 1 .. spot - 1 : s[i].offset < o
          /\ spot <= n => ~(s[spot].offset < o)
      BY <2>2 DEF InsertionPoint
    <3>2. \A i \in 1 .. n : i >= spot => o <= s[i].offset
      <4> SUFFICES ASSUME NEW i \in 1 .. n, i >= spot PROVE o <= s[i].offset
        OBVIOUS
      <4>1. spot \in 1 .. n /\ s[spot].offset <= s[i].offset
        <5>1. spot \in 1 .. n /\ (i = spot \/ spot < i)
          BY <1>2, <2>2
        <5> QED BY <1>2, <2>8, <5>1 DEF SortedPlan
      <4> QED BY <1>2, <3>1, <4>1
    <3>3. CASE k < spot
      <4>1. j < spot /\ j \in 1 .. n /\ k \in 1 .. n
        BY <2>6, <3>3
      <4> QED BY <2>4, <2>8, <3>3, <4>1 DEF SortedPlan
    <3>4. CASE k = spot
      <4>1. j < spot /\ j \in 1 .. spot - 1 /\ j \in 1 .. n /\ ~(k < spot)
        BY <2>6, <3>4
      <4> QED BY <1>2, <2>4, <3>1, <3>4, <4>1
    <3>5. CASE k > spot
      <4>1. ~(k < spot) /\ k # spot /\ k - 1 \in 1 .. n /\ k - 1 >= spot
        BY <2>6, <3>5
      <4>2. r[k] = s[k - 1]
        BY <2>4, <4>1
      <4>3. CASE j = spot
        BY <2>4, <3>2, <4>1, <4>2, <4>3
      <4>4. CASE j < spot
        <5>1. j \in 1 .. n /\ j < k - 1 /\ r[j] = s[j]
          BY <2>4, <2>6, <4>1, <4>4
        <5> QED BY <2>8, <4>1, <4>2, <5>1 DEF SortedPlan
      <4>5. CASE j > spot
        <5>1. j - 1 \in 1 .. n /\ j - 1 < k - 1 /\ r[j] = s[j - 1]
          BY <2>4, <2>6, <4>5
        <5> QED BY <2>8, <4>1, <4>2, <5>1 DEF SortedPlan
      <4> QED BY <2>6, <4>3, <4>4, <4>5
    <3> QED BY <2>6, <3>3, <3>4, <3>5
  <2> QED BY <1>4, <2>5, <2>7, <2>8 DEF s, with
<1> QED BY <1>3, <1>4

(* Deallocate takes the entries of some tensors out, and moves no other.   *)
LEMMA DeallocatedFacts ==
    ASSUME NEW arena \in ArenaRecords, NEW ts
    PROVE  LET rest == Deallocated(arena, ts)
           IN  /\ rest \in ArenaRecords /\ rest.buffer = arena.buffer
               /\ Elements(rest.allocs) = {a \in Elements(arena.allocs) : a.tensor \notin ts}
               /\ SortedPlan(arena.allocs) => SortedPlan(rest.allocs)
<1> DEFINE s == arena.allocs
           n == Len(s)
           L == Seq(AllocRecords)
           Keep(kept, a) == IF a.tensor \in ts THEN kept ELSE Append(kept, a)
           step == [k \in 1 .. n |-> [kept \in L |-> Keep(kept, s[k])]]
           After(f) == [k \in 0 .. Len(s) |-> IF k = 0 THEN <<>> ELSE Keep(f[k - 1], s[k])]
           found == CHOOSE f : f = After(f)
           rest == Deallocated(arena, ts)
<1>1. s \in L /\ arena.buffer \in BOOLEAN
  BY DEF ArenaRecords
<1>2. /\ n \in Nat /\ \A k \in 1 .. n : s[k] \in AllocRecords
      /\ \A a \in AllocRecords : a.offset \in Nat
  <2> HIDE DEF s
  <2> QED BY <1>1, PlanMembers
<1>3. \A k \in 1 .. n : \A kept \in L : Keep(kept, s[k]) \in L
  <2> HIDE DEF s, n
  <2> QED BY <1>2
<1>4. <<>> \in L
  OBVIOUS
<1>5. \E f : f = After(f)
  <2>1. step \in Steps(L, n)
    <3> HIDE DEF s, n, L, Keep
    <3> QED BY <1>3 DEF Steps
  <2>2. PICK f : IsIteration(f, L, n, <<>>, step)
    <3> HIDE DEF step, n, L
    <3> QED BY <1>2, <1>4, <2>1, IterationExists, Zenon
  <2>3. f \in [0 .. n -> L] /\ f[0] = <<>> /\ \A k \in 1 .. n : f[k] = step[k][f[k - 1]]
    BY <2>2 DEF IsIteration
  <2> HIDE DEF L, Keep
  <2>4. /\ \A k \in 1 .. n : f[k - 1] \in L
        /\ \A k \in 0 .. n : k = 0 \/ k \in 1 .. n
    BY <1>2, <2>3
  <2>5. \A k \in 1 .. n : f[k] = Keep(f[k - 1], s[k])
    <3> HIDE DEF s, n
    <3> QED BY <2>3, <2>4
  <2> HIDE DEF s, step
  <2>6. f = After(f)
    BY <2>3, <2>4, <2>5
  <2> QED BY <2>6
<1>6. found = After(found)
  <2> HIDE DEF After
  <2> QED BY <1>5
<1>7. rest = [arena EXCEPT !.allocs = found[n]]
  BY DEF Deallocated, Fold
<1> HIDE DEF found, s, rest
<1>8. found[0] = <<>> /\ \A k \in 1 .. n : found[k] = Keep(found[k - 1], s[k])
  <2> HIDE DEF Keep
  <2> QED BY <1>2, <1>6
<1> DEFINE Passed(k) == {s[j] : j \in {i \in 1 .. k : s[i].tensor \notin ts}}
           Right(k) == /\ found[k] \in L
                       /\ Elements(found[k]) = Passed(k)
                       /\ SortedPlan(s) => SortedPlan(found[k])
           U == {k \in 0 .. n : Right(k)}
<1>9. 0 \in U
  <2>1. Len(<<>>) = 0 /\ 1 .. 0 = {} /\ 0 \in 0 .. n
    BY <1>2
  <2>2. Elements(<<>>) = {} /\ Passed(0) = {} /\ SortedPlan(<<>>)
    BY <2>1 DEF Elements, SortedPlan
  <2> HIDE DEF Passed
  <2> QED BY <1>4, <1>8, <2>1, <2>2
<1>10. ASSUME NEW k \in 1 .. n, k - 1 \in U PROVE k \in U
  <2> DEFINE f == found[k - 1]
             g == found[k]
  <2>1. Right(k - 1) /\ g = Keep(f, s[k]) /\ s[k] \in AllocRecords
    BY <1>2, <1>8, <1>10
  <2>2. /\ \A i \in 1 .. k : i = k \/ i \in 1 .. k - 1
        /\ \A i \in 1 .. k - 1 : i \in 1 .. k /\ i < k /\ i \in 1 .. n
        /\ k \in 1 .. k
    BY <1>2
  <2>3. f \in L /\ Elements(f) = Passed(k - 1) /\ (SortedPlan(s) => SortedPlan(f))
    BY <2>1
  <2> HIDE DEF Right, f, g
  <2>4. CASE s[k].tensor \in ts
    <3>1. Passed(k) = Passed(k - 1) /\ g = f
      BY <2>1, <2>2, <2>4
    <3> HIDE DEF Passed
    <3> QED BY <1>2, <2>3, <3>1 DEF Right, f, g
  <2>5. CASE s[k].tensor \notin ts
    <3>1. Passed(k) = Passed(k - 1) \cup {s[k]} /\ g = Append(f, s[k])
      BY <2>1, <2>2, <2>5
    <3>2. g \in L /\ Elements(g) = Elements(f) \cup {s[k]}
      BY <2>1, <2>3, <3>1, ElementsAppend
    <3>3. ASSUME SortedPlan(s) PROVE SortedPlan(g)
      <4>1. /\ Len(f) \in Nat /\ Len(g) = Len(f) + 1
            /\ \A i \in 1 .. Len(f) : g[i] = f[i]
            /\ g[Len(f) + 1] = s[k]
        BY <2>1, <2>3, <3>1, AppendProperties, LenProperties
      <4>2. \A i \in 1 .. Len(f) : f[i].offset <= s[k].offset
        <5> SUFFICES ASSUME NEW i \in 1 .. Len(f) PROVE f[i].offset <= s[k].offset
          OBVIOUS
        <5>1. f[i] \in Passed(k - 1)
          BY <2>3 DEF Elements
        <5>2. PICK j \in 1 .. k - 1 : f[i] = s[j]
          BY <5>1
        <5> QED BY <2>2, <3>3, <5>2 DEF SortedPlan
      <4>3. \A i \in 1 .. Len(f) + 1 : i \in 1 .. Len(f) \/ i = Len(f) + 1
        BY <4>1
      <4>4. \A i, j \in 1 .. Len(f) + 1 : i < j => i \in 1 .. Len(f)
        BY <4>1
      <4> QED BY <2>3, <3>3, <4>1, <4>2, <4>3, <4>4 DEF SortedPlan
    <3> HIDE DEF Passed
    <3>4. g \in L /\ Elements(g) = Passed(k) /\ (SortedPlan(s) => SortedPlan(g))
      BY <2>3, <3>1, <3>2, <3>3
    <3>5. k \in 0 .. n
      BY <1>2
    <3> QED BY <3>4, <3>5 DEF Right, g
  <2> QED BY <2>4, <2>5
<1> HIDE DEF U
<1>11. n \in U
  <2>1. \A k \in 0 .. n : k \in U
    BY <1>2, <1>9, <1>10, UpTo
  <2> QED BY <1>2, <2>1
<1>12. Right(n)
  BY <1>11 DEF U
<1>13. Passed(n) = {a \in Elements(s) : a.tensor \notin ts}
  BY DEF Elements
<1>14. rest \in ArenaRecords /\ rest.buffer = arena.buffer /\ rest.allocs = found[n]
  <2> DEFINE x == found[n]
  <2>1. x \in Seq(AllocRecords) /\ rest = [arena EXCEPT !.allocs = x]
    BY <1>7, <1>12
  <2> HIDE DEF x
  <2>2. rest \in ArenaRecords /\ rest.buffer = arena.buffer /\ rest.allocs = x
    BY <2>1 DEF ArenaRecords
  <2> QED BY <2>2 DEF x
<1> QED
  <2> HIDE DEF Passed
  <2> QED BY <1>12, <1>13, <1>14 DEF s, rest

-----------------------------------------------------------------------------
(* The planner once it exists, and what CalculateAllocations does to it.   *)

Plans == [exists : {TRUE}, arena : ArenaRecords, persistent : ArenaRecords,
          allocs : [Tensors -> AllocRecords], alloc_node : [Tensors -> Nat],
          dealloc_node : [Tensors -> Nat]]

(* The plan of an arena: sorted, and what is used together is apart.       *)
SoundPlan(s) ==
    /\ SortedPlan(s)
    /\ \A a, b \in Elements(s) : a = b \/ Apart(a, b) \/ ClearOf(a, b.offset, b.size)

SoundPlans(p) == SoundPlan(p.arena.allocs) /\ SoundPlan(p.persistent.allocs)

(* The memory that a tensor has is in the plan of its arena.               *)
ArenaFor(p, t) == IF IsPersistent(t) THEN p.persistent ELSE p.arena
Registered(p, t) ==
    InArena(t) /\ p.allocs[t].size # 0 => p.allocs[t] \in Elements(ArenaFor(p, t).allocs)

(* A tensor has memory of the given size for its lifetime.                 *)
LastNode(p, t) == IF IsPersistent(t) THEN NodeNotAssigned ELSE p.dealloc_node[t]
HasSize(p, size, t) ==
    /\ p.allocs[t].tensor = t /\ p.allocs[t].size = size[t]
    /\ p.allocs[t].first_node = p.alloc_node[t] /\ p.allocs[t].last_node = LastNode(p, t)

(* What stays when a planner is given another plan for its arenas.         *)
SameFrame(p, q) ==
    /\ q \in Plans
    /\ q.alloc_node = p.alloc_node /\ q.dealloc_node = p.dealloc_node
    /\ q.arena.buffer = p.arena.buffer /\ q.persistent.buffer = p.persistent.buffer

(* The fields of a plan have their types.                                  *)
LEMMA PlanFields ==
    ASSUME NEW p \in Plans
    PROVE  /\ p.exists = TRUE /\ p.arena \in ArenaRecords /\ p.persistent \in ArenaRecords
           /\ p.allocs \in [Tensors -> AllocRecords]
           /\ p.alloc_node \in [Tensors -> Nat] /\ p.dealloc_node \in [Tensors -> Nat]
           /\ p.arena.allocs \in Seq(AllocRecords) /\ p.persistent.allocs \in Seq(AllocRecords)
           /\ p.arena.buffer \in BOOLEAN /\ p.persistent.buffer \in BOOLEAN
<1>1. /\ p.exists = TRUE /\ p.arena \in ArenaRecords /\ p.persistent \in ArenaRecords
      /\ p.allocs \in [Tensors -> AllocRecords]
      /\ p.alloc_node \in [Tensors -> Nat] /\ p.dealloc_node \in [Tensors -> Nat]
  BY DEF Plans
<1>2. \A a \in ArenaRecords : a.allocs \in Seq(AllocRecords) /\ a.buffer \in BOOLEAN
  BY DEF ArenaRecords
<1> QED BY <1>1, <1>2

(* A plan that gets an entry which is clear of what is used together.      *)
LEMMA SoundWith ==
    ASSUME NEW arena \in ArenaRecords, NEW r \in AllocRequests, SoundPlan(arena.allocs)
    PROVE  SoundPlan(WithAllocation(arena, Allocation(arena, r)).allocs)
<1> DEFINE s == arena.allocs
           new == Allocation(arena, r)
           w == WithAllocation(arena, new).allocs
<1>1. /\ new \in AllocRecords /\ new.size = r.size
      /\ new.first_node = r.first_node /\ new.last_node = r.last_node
      /\ r.size # 0 /\ SortedPlan(s) =>
            \A j \in 1 .. Len(s) : Apart(s[j], r) \/ ClearOf(s[j], new.offset, r.size)
  BY AllocationFacts
<1>2. /\ Elements(w) = Elements(s) \cup (IF new.size = 0 THEN {} ELSE {new})
      /\ SortedPlan(s) => SortedPlan(w)
  BY <1>1, WithAllocationFacts
<1>3. s \in Seq(AllocRecords) /\ SoundPlan(s)
  BY DEF ArenaRecords
<1> HIDE DEF s, w, new
<1>4. ASSUME NEW a \in Elements(s), new.size # 0
      PROVE  /\ Apart(a, new) \/ ClearOf(a, new.offset, new.size)
             /\ Apart(new, a) \/ ClearOf(new, a.offset, a.size)
  <2>1. PICK j \in 1 .. Len(s) : a = s[j]
    BY DEF Elements
  <2>2. Apart(a, r) \/ ClearOf(a, new.offset, new.size)
    BY <1>1, <1>3, <1>4, <2>1 DEF SoundPlan
  <2>3. a \in AllocRecords
    BY <1>3, PlanMembers
  <2>4. Apart(a, r) = Apart(a, new)
    BY <1>1 DEF Apart
  <2>5. /\ a.first_node \in Int /\ a.last_node \in Int /\ a.offset \in Nat /\ a.size \in Nat
        /\ new.first_node \in Int /\ new.last_node \in Int /\ new.offset \in Nat /\ new.size \in Nat
    BY <1>1, <2>3 DEF AllocRecords
  <2>6. Apart(a, new) => Apart(new, a)
    BY <2>5 DEF Apart
  <2>7. ClearOf(a, new.offset, new.size) => ClearOf(new, a.offset, a.size)
    BY <2>5 DEF ClearOf, End
  <2> QED BY <2>2, <2>4, <2>6, <2>7
<1>5. SoundPlan(w)
  BY <1>2, <1>3, <1>4 DEF SoundPlan
<1> QED BY <1>5 DEF w, new

(* Allocating one tensor gives it its size, leaves the allocations of the  *)
(* others alone, and keeps the plans sound.                                *)
LEMMA AllocateTensorFacts ==
    ASSUME NEW p \in Plans, NEW size \in [Tensors -> Nat], NEW t \in Tensors
    PROVE  LET q == AllocateTensor(p, size, t)
           IN  /\ SameFrame(p, q)
               /\ \A u \in Tensors : u # t \/ ~InArena(t) => q.allocs[u] = p.allocs[u]
               /\ InArena(t) => HasSize(q, size, t)
               /\ Registered(q, t) \/ ~InArena(t)
               /\ \A u \in Tensors : u # t /\ Registered(p, u) => Registered(q, u)
               /\ SoundPlans(p) => SoundPlans(q)
<1> DEFINE last == IF IsPersistent(t) THEN NodeNotAssigned ELSE p.dealloc_node[t]
           r == [tensor |-> t, size |-> size[t], alignment |-> Alignment,
                 first_node |-> p.alloc_node[t], last_node |-> last]
           arena == IF IsPersistent(t) THEN p.persistent ELSE p.arena
           new == Allocation(arena, r)
           with == WithAllocation(arena, new)
           al == [p.allocs EXCEPT ![t] = new]
           q == AllocateTensor(p, size, t)
<1>1. /\ p.arena \in ArenaRecords /\ p.persistent \in ArenaRecords
      /\ p.allocs \in [Tensors -> AllocRecords]
      /\ p.alloc_node \in [Tensors -> Nat] /\ p.dealloc_node \in [Tensors -> Nat]
  BY PlanFields
<1>2. r \in AllocRequests /\ r.tensor = t /\ r.size = size[t] /\ r.first_node = p.alloc_node[t]
      /\ r.last_node = last /\ arena \in ArenaRecords
  <2>1. last \in Nat /\ size[t] \in Nat /\ p.alloc_node[t] \in Nat /\ Alignment \in Nat \ {0}
    BY <1>1, PlannerAssumption, NotAssignedIsNat
  <2> HIDE DEF last
  <2> QED BY <1>1, <2>1 DEF AllocRequests
<1>3. q = IF IsRw(t) THEN [p EXCEPT !.arena = with, !.allocs = al]
          ELSE IF IsPersistent(t) THEN [p EXCEPT !.persistent = with, !.allocs = al]
          ELSE p
  BY DEF AllocateTensor, IsRw, IsPersistent
<1> HIDE DEF r, arena, q
<1>4. /\ new \in AllocRecords /\ new.tensor = t /\ new.size = size[t]
      /\ new.first_node = p.alloc_node[t] /\ new.last_node = last
  BY <1>2, AllocationFacts
<1>5. SoundPlan(arena.allocs) => SoundPlan(with.allocs)
  BY <1>2, SoundWith
<1> HIDE DEF new
<1>6. /\ with \in ArenaRecords /\ with.buffer = arena.buffer
      /\ Elements(with.allocs) = Elements(arena.allocs) \cup (IF new.size = 0 THEN {} ELSE {new})
  BY <1>2, <1>4, WithAllocationFacts
<1> HIDE DEF with
<1>7. al \in [Tensors -> AllocRecords] /\ al[t] = new /\ \A u \in Tensors : u # t => al[u] = p.allocs[u]
  BY <1>1, <1>4
<1> HIDE DEF al
<1>8. CASE ~InArena(t)
  <2>1. q = p
    BY <1>3, <1>8 DEF InArena
  <2> QED BY <1>8, <2>1 DEF SameFrame, q
<1>9. CASE IsRw(t)
  <2>1. ~IsPersistent(t) /\ InArena(t) /\ arena = p.arena
    BY <1>9 DEF IsRw, IsPersistent, InArena, arena
  <2>2. q = [p EXCEPT !.arena = with, !.allocs = al]
    BY <1>3, <1>9
  <2>3. /\ q \in Plans /\ q.arena = with /\ q.allocs = al /\ q.persistent = p.persistent
        /\ q.alloc_node = p.alloc_node /\ q.dealloc_node = p.dealloc_node
    BY <1>6, <1>7, <2>2 DEF Plans
  <2>4. SameFrame(p, q)
    BY <1>6, <2>1, <2>3 DEF SameFrame
  <2>5. HasSize(q, size, t)
    BY <1>4, <1>7, <2>1, <2>3 DEF HasSize, LastNode
  <2>6. Registered(q, t)
    BY <1>6, <1>7, <2>1, <2>3 DEF Registered, ArenaFor
  <2>7. \A u \in Tensors : u # t /\ Registered(p, u) => Registered(q, u)
    BY <1>6, <1>7, <2>1, <2>3 DEF Registered, ArenaFor
  <2>8. SoundPlans(p) => SoundPlans(q)
    BY <1>5, <2>1, <2>3 DEF SoundPlans
  <2> QED BY <1>7, <2>1, <2>3, <2>4, <2>5, <2>6, <2>7, <2>8 DEF q
<1>10. CASE IsPersistent(t)
  <2>1. ~IsRw(t) /\ InArena(t) /\ arena = p.persistent
    BY <1>10 DEF IsRw, IsPersistent, InArena, arena
  <2>2. q = [p EXCEPT !.persistent = with, !.allocs = al]
    BY <1>3, <1>10, <2>1
  <2>3. /\ q \in Plans /\ q.arena = p.arena /\ q.allocs = al /\ q.persistent = with
        /\ q.alloc_node = p.alloc_node /\ q.dealloc_node = p.dealloc_node
    BY <1>6, <1>7, <2>2 DEF Plans
  <2>4. SameFrame(p, q)
    BY <1>6, <2>1, <2>3 DEF SameFrame
  <2>5. HasSize(q, size, t)
    BY <1>4, <1>7, <1>10, <2>1, <2>3 DEF HasSize, LastNode
  <2>6. Registered(q, t)
    BY <1>6, <1>7, <1>10, <2>1, <2>3 DEF Registered, ArenaFor
  <2>7. \A u \in Tensors : u # t /\ Registered(p, u) => Registered(q, u)
    BY <1>6, <1>7, <1>10, <2>1, <2>3 DEF Registered, ArenaFor
  <2>8. SoundPlans(p) => SoundPlans(q)
    BY <1>5, <2>1, <2>3 DEF SoundPlans
  <2> QED BY <1>7, <2>1, <2>3, <2>4, <2>5, <2>6, <2>7, <2>8 DEF q
<1> QED BY <1>8, <1>9, <1>10 DEF InArena

(* Every tensor of the vector gets memory of its size, the others keep     *)
(* what they have, and the plans stay sound.                               *)
LEMMA ExecuteFacts ==
    ASSUME NEW p \in Plans, NEW size \in [Tensors -> Nat], NEW order \in Seq(Tensors)
    PROVE  LET q == ExecuteAllocations(p, size, order)
           IN  /\ q \in Plans
               /\ q.alloc_node = p.alloc_node /\ q.dealloc_node = p.dealloc_node
               /\ q.arena.buffer = TRUE
               /\ \A u \in Elements(order) : InArena(u) => HasSize(q, size, u)
               /\ \A u \in Tensors : u \notin Elements(order) \/ ~InArena(u) =>
                     q.allocs[u] = p.allocs[u]
               /\ (\A u \in Tensors : Registered(p, u)
                                      /\ (p.allocs[u].size # 0 => p.allocs[u].tensor = u)) =>
                     \A u \in Tensors : Registered(q, u)
               /\ SoundPlans(p) => SoundPlans(q)
<1> DEFINE n == Len(order)
           old == {t \in ToSet(order) : IsRw(t) /\ p.allocs[t].size # 0}
           rest == Deallocated(p.arena, old)
           start == [p EXCEPT !.arena = Deallocated(@, old)]
           step == [k \in 1 .. n |-> [a \in Plans |-> AllocateTensor(a, size, order[k])]]
           After(f) == [k \in 0 .. Len(order) |->
                          IF k = 0 THEN start ELSE AllocateTensor(f[k - 1], size, order[k])]
           found == CHOOSE f : f = After(f)
           q == ExecuteAllocations(p, size, order)
<1>1. n \in Nat /\ \A k \in 1 .. n : order[k] \in Tensors
  BY LenProperties
<1>2. Elements(order) \subseteq Tensors /\ old \subseteq Elements(order)
  <2>1. DOMAIN order = 1 .. n
    BY LenProperties
  <2>2. ToSet(order) = Elements(order)
    BY <2>1 DEF ToSet, Elements
  <2> QED BY <1>1, <2>2 DEF Elements
<1>3. /\ rest \in ArenaRecords /\ rest.buffer = p.arena.buffer
      /\ Elements(rest.allocs) = {a \in Elements(p.arena.allocs) : a.tensor \notin old}
      /\ SortedPlan(p.arena.allocs) => SortedPlan(rest.allocs)
  <2>1. p.arena \in ArenaRecords
    BY PlanFields
  <2> HIDE DEF old
  <2> QED BY <2>1, DeallocatedFacts
<1> HIDE DEF rest, old
<1>4. /\ start \in Plans /\ start.arena = rest /\ start.allocs = p.allocs
      /\ start.persistent = p.persistent
      /\ start.alloc_node = p.alloc_node /\ start.dealloc_node = p.dealloc_node
  <2>1. start = [p EXCEPT !.arena = rest]
    BY DEF rest
  <2> HIDE DEF start
  <2> QED BY <1>3, <2>1 DEF Plans
<1> HIDE DEF start
<1>5. \A k \in 1 .. n : \A a \in Plans : AllocateTensor(a, size, order[k]) \in Plans
  BY <1>1, AllocateTensorFacts DEF SameFrame
<1>6. \E f : f = After(f)
  <2>1. step \in Steps(Plans, n)
    <3> HIDE DEF n
    <3> QED BY <1>5 DEF Steps
  <2>2. PICK f : IsIteration(f, Plans, n, start, step)
    <3> HIDE DEF step, n
    <3> QED BY <1>1, <1>4, <2>1, IterationExists, Zenon
  <2>3. f \in [0 .. n -> Plans] /\ f[0] = start /\ \A k \in 1 .. n : f[k] = step[k][f[k - 1]]
    BY <2>2 DEF IsIteration
  <2>4. /\ \A k \in 1 .. n : f[k - 1] \in Plans
        /\ \A k \in 0 .. n : k = 0 \/ k \in 1 .. n
    <3> HIDE DEF n, step
    <3> QED BY <1>1, <2>3
  <2>5. \A k \in 1 .. n : f[k] = AllocateTensor(f[k - 1], size, order[k])
    <3> HIDE DEF n
    <3> QED BY <2>3, <2>4
  <2> HIDE DEF step
  <2>6. f = After(f)
    BY <2>3, <2>4, <2>5
  <2> QED BY <2>6
<1>7. found = After(found)
  <2> HIDE DEF After
  <2> QED BY <1>6
<1>8. q = [found[n] EXCEPT !.arena = Committed(@), !.persistent = Committed(@)]
  BY DEF ExecuteAllocations, CalculateAllocations, Fold, start, old
<1> HIDE DEF found, q
<1>9. found[0] = start /\ \A k \in 1 .. n : found[k] = AllocateTensor(found[k - 1], size, order[k])
  BY <1>1, <1>7
<1> DEFINE Done(k) == {order[j] : j \in 1 .. k}
           Regular == \A u \in Tensors : Registered(p, u)
                                         /\ (p.allocs[u].size # 0 => p.allocs[u].tensor = u)
           Right(k) ==
              /\ SameFrame(start, found[k])
              /\ \A u \in Done(k) : InArena(u) => HasSize(found[k], size, u)
              /\ \A u \in Tensors : u \notin Done(k) \/ ~InArena(u) =>
                    found[k].allocs[u] = p.allocs[u]
              /\ Regular => \A u \in Tensors : u \in Done(k) \/ u \notin Elements(order) =>
                               Registered(found[k], u)
              /\ SoundPlans(p) => SoundPlans(found[k])
           U == {k \in 0 .. n : Right(k)}
<1>10. 0 \in U
  <2>1. Done(0) = {} /\ 0 \in 0 .. n
    BY <1>1
  <2>2. SameFrame(start, start)
    BY <1>4 DEF SameFrame
  <2>3. ASSUME Regular, NEW u \in Tensors, u \notin Elements(order) PROVE Registered(start, u)
    <3>1. Registered(p, u) /\ (p.allocs[u].size # 0 => p.allocs[u].tensor = u) /\ u \notin old
      BY <1>2, <2>3
    <3> QED BY <1>3, <1>4, <3>1 DEF Registered, ArenaFor
  <2>4. SoundPlans(p) => SoundPlans(start)
    BY <1>3, <1>4 DEF SoundPlans, SoundPlan
  <2> HIDE DEF Done, Regular
  <2> QED BY <1>4, <1>9, <2>1, <2>2, <2>3, <2>4
<1>11. ASSUME NEW k \in 1 .. n, k - 1 \in U PROVE k \in U
  <2> DEFINE f == found[k - 1]
             g == found[k]
             t == order[k]
  <2>1. Right(k - 1) /\ g = AllocateTensor(f, size, t) /\ t \in Tensors /\ k \in 0 .. n
    <3>1. Right(k - 1)
      <4> HIDE DEF Right
      <4> QED BY <1>11
    <3> HIDE DEF Right
    <3> QED BY <1>1, <1>9, <3>1
  <2>2. Done(k) = Done(k - 1) \cup {t}
    <3>1. 1 .. k = (1 .. k - 1) \cup {k}
      BY <1>1
    <3> QED BY <3>1
  <2> HIDE DEF Done, Regular, t
  <2>3. f \in Plans /\ SameFrame(start, f)
    BY <2>1 DEF SameFrame
  <2>4. /\ SameFrame(f, g)
        /\ \A u \in Tensors : u # t \/ ~InArena(t) => g.allocs[u] = f.allocs[u]
        /\ InArena(t) => HasSize(g, size, t)
        /\ Registered(g, t) \/ ~InArena(t)
        /\ \A u \in Tensors : u # t /\ Registered(f, u) => Registered(g, u)
        /\ SoundPlans(f) => SoundPlans(g)
    <3> HIDE DEF f, g, U, Right
    <3> QED BY <2>1, <2>3, AllocateTensorFacts
  <2>5. /\ \A u \in Done(k - 1) : InArena(u) => HasSize(f, size, u)
        /\ \A u \in Tensors : u \notin Done(k - 1) \/ ~InArena(u) => f.allocs[u] = p.allocs[u]
        /\ Regular => \A u \in Tensors : u \in Done(k - 1) \/ u \notin Elements(order) =>
                         Registered(f, u)
        /\ SoundPlans(p) => SoundPlans(f)
    BY <2>1
  <2>6. Done(k - 1) \subseteq Tensors
    BY <1>1 DEF Done
  <2> HIDE DEF f, g, Right
  <2>7. SameFrame(start, g)
    BY <2>3, <2>4 DEF SameFrame
  <2>8. \A u \in Done(k) : InArena(u) => HasSize(g, size, u)
    <3> SUFFICES ASSUME NEW u \in Done(k), InArena(u), u # t PROVE HasSize(g, size, u)
      BY <2>4
    <3>1. u \in Done(k - 1) /\ HasSize(f, size, u) /\ g.allocs[u] = f.allocs[u]
      BY <2>2, <2>4, <2>5, <2>6
    <3> QED BY <2>4, <3>1 DEF HasSize, LastNode, SameFrame
  <2>9. \A u \in Tensors : u \notin Done(k) \/ ~InArena(u) => g.allocs[u] = p.allocs[u]
    BY <2>2, <2>4, <2>5
  <2>10. ASSUME Regular, NEW u \in Tensors, u \in Done(k) \/ u \notin Elements(order)
         PROVE  Registered(g, u)
    <3>1. CASE u # t
      BY <2>2, <2>4, <2>5, <2>10, <3>1
    <3>2. CASE u = t
      BY <2>4, <3>2 DEF Registered
    <3> QED BY <3>1, <3>2
  <2> QED BY <2>1, <2>4, <2>5, <2>7, <2>8, <2>9, <2>10 DEF Right, g
<1> HIDE DEF U
<1>12. n \in U
  <2>1. \A k \in 0 .. n : k \in U
    BY <1>1, <1>10, <1>11, UpTo
  <2> QED BY <1>1, <2>1
<1>13. Right(n) /\ Done(n) = Elements(order)
  BY <1>12 DEF U, Elements
<1> DEFINE e == found[n]
           x == Committed(e.arena)
           y == Committed(e.persistent)
<1>14. e \in Plans /\ q = [e EXCEPT !.arena = x, !.persistent = y]
       /\ e.alloc_node = p.alloc_node /\ e.dealloc_node = p.dealloc_node
  BY <1>4, <1>8, <1>13 DEF SameFrame
<1>15. /\ \A u \in Elements(order) : InArena(u) => HasSize(e, size, u)
       /\ \A u \in Tensors : u \notin Elements(order) \/ ~InArena(u) => e.allocs[u] = p.allocs[u]
       /\ Regular => \A u \in Tensors : Registered(e, u)
       /\ SoundPlans(p) => SoundPlans(e)
  BY <1>13
<1> HIDE DEF e, Right, Done, Regular
<1>16. x \in ArenaRecords /\ x.allocs = e.arena.allocs /\ x.buffer = TRUE
       /\ y \in ArenaRecords /\ y.allocs = e.persistent.allocs
  <2>1. \A a \in ArenaRecords : /\ Committed(a) \in ArenaRecords /\ Committed(a).allocs = a.allocs
                                /\ Committed(a).buffer = TRUE
    BY DEF ArenaRecords, Committed
  <2>2. e.arena \in ArenaRecords /\ e.persistent \in ArenaRecords
    BY <1>14, PlanFields
  <2> QED BY <2>1, <2>2
<1> HIDE DEF x, y
<1>17. /\ q \in Plans /\ q.arena = x /\ q.persistent = y /\ q.allocs = e.allocs
       /\ q.alloc_node = e.alloc_node /\ q.dealloc_node = e.dealloc_node
  BY <1>14, <1>16 DEF Plans
<1>18. \A u \in Tensors : Registered(e, u) => Registered(q, u)
  BY <1>16, <1>17 DEF Registered, ArenaFor
<1>19. \A u \in Elements(order) : HasSize(e, size, u) => HasSize(q, size, u)
  BY <1>17 DEF HasSize, LastNode
<1>20. SoundPlans(e) => SoundPlans(q)
  BY <1>16, <1>17 DEF SoundPlans
<1> QED BY <1>14, <1>15, <1>16, <1>17, <1>18, <1>19, <1>20 DEF q, Regular

(* Each order that std::sort may return has exactly the tensors given.     *)
LEMMA SortedVectorsFacts ==
    ASSUME NEW p, NEW size, NEW T, NEW ts \in SUBSET T, IsFiniteSet(ts),
           NEW order \in SortedVectors(p, size, ts)
    PROVE  order \in Seq(T) /\ Elements(order) = ts
<1> DEFINE n == Cardinality(ts)
           seq == [i \in 1 .. Cardinality(ts) |-> i]
           A == SUBSET Seq(T)
           Candidates(s) == LET rest == ts \ ToSet(s)
                            IN  {t \in rest : \A u \in rest : ~Before(p, size, u, t)}
           Extended(ss) == UNION {{Append(s, u) : u \in Candidates(s)} : s \in ss}
           step == [k \in 1 .. n |-> [ss \in A |-> Extended(ss)]]
           After(f) == [k \in 0 .. Len(seq) |-> IF k = 0 THEN {<<>>} ELSE Extended(f[k - 1])]
           found == CHOOSE f : f = After(f)
<1>1. n \in Nat /\ Len(seq) = n
  <2>1. n \in Nat
    BY FS_CardinalityType
  <2>2. seq \in [1 .. n -> Nat]
    BY <2>1
  <2> QED BY <2>1, <2>2, FunctionIsSeq
<1>2. \A s : Candidates(s) \subseteq ts \ ToSet(s)
  OBVIOUS
<1> HIDE DEF Candidates
<1>3. /\ {<<>>} \in A
      /\ \A ss \in A : Extended(ss) \in A
  <2>1. \A s \in Seq(T), u \in ts : Append(s, u) \in Seq(T)
    OBVIOUS
  <2> QED BY <1>2, <2>1
<1>4. \E f : f = After(f)
  <2> HIDE DEF Extended, A, n
  <2>1. step \in Steps(A, n)
    BY <1>3 DEF Steps
  <2>2. PICK f : IsIteration(f, A, n, {<<>>}, step)
    <3> HIDE DEF step
    <3> QED BY <1>1, <1>3, <2>1, IterationExists, Zenon
  <2>3. f \in [0 .. n -> A] /\ f[0] = {<<>>} /\ \A k \in 1 .. n : f[k] = step[k][f[k - 1]]
    BY <2>2 DEF IsIteration
  <2>4. /\ \A k \in 1 .. n : f[k - 1] \in A
        /\ \A k \in 0 .. n : k = 0 \/ k \in 1 .. n
    <3> HIDE DEF step
    <3> QED BY <1>1, <2>3
  <2>5. \A k \in 1 .. n : f[k] = Extended(f[k - 1])
    BY <2>3, <2>4
  <2> HIDE DEF step, seq
  <2>6. f = After(f)
    BY <1>1, <2>3, <2>4, <2>5
  <2> QED BY <2>6
<1>5. found = After(found)
  <2> HIDE DEF After
  <2> QED BY <1>4
<1>6. order \in found[Len(seq)]
  BY DEF SortedVectors, Fold, Candidates
<1> HIDE DEF found, seq, n
<1>7. found[0] = {<<>>} /\ \A k \in 1 .. n : found[k] = Extended(found[k - 1])
  <2> DEFINE base == {<<>>}
  <2>1. found = [k \in 0 .. n |-> IF k = 0 THEN base ELSE Extended(found[k - 1])]
    BY <1>1, <1>5, Zenon
  <2> HIDE DEF Extended, base
  <2>2. found[0] = base /\ \A k \in 1 .. n : found[k] = Extended(found[k - 1])
    BY <1>1, <2>1
  <2> QED BY <2>2 DEF base
<1> DEFINE Right(k, s) == /\ s \in Seq(T) /\ Elements(s) \subseteq ts
                          /\ Cardinality(Elements(s)) = k
           U == {k \in 0 .. n : \A s \in found[k] : Right(k, s)}
<1>8. 0 \in U
  <2>1. Elements(<<>>) = {} /\ <<>> \in Seq(T) /\ 0 \in 0 .. n
    BY <1>1 DEF Elements
  <2> QED BY <1>7, <2>1, FS_EmptySet
<1>9. ASSUME NEW k \in 1 .. n, k - 1 \in U PROVE k \in U
  <2> SUFFICES ASSUME NEW e \in found[k] PROVE Right(k, e)
    BY <1>1
  <2>a. PICK s \in found[k - 1] : \E u \in Candidates(s) : e = Append(s, u)
    BY <1>7
  <2>1. PICK u \in Candidates(s) : e = Append(s, u)
    BY <2>a
  <2>2. Right(k - 1, s) /\ u \in ts /\ u \notin ToSet(s)
    BY <1>2, <1>9, <2>1
  <2>3. ToSet(s) = Elements(s)
    BY <2>2, LenProperties DEF ToSet, Elements
  <2>4. e \in Seq(T) /\ Elements(e) = Elements(s) \cup {u} /\ u \in T
    BY <2>1, <2>2, ElementsAppend
  <2>5. IsFiniteSet(Elements(s))
    BY <2>2, FS_Subset
  <2>6. Cardinality(Elements(s) \cup {u}) = Cardinality(Elements(s)) + 1
    <3> DEFINE X == Elements(s)
    <3>1. u \notin X /\ IsFiniteSet(X)
      BY <2>2, <2>3, <2>5
    <3> HIDE DEF X
    <3>2. Cardinality(X \cup {u}) = Cardinality(X) + 1
      BY <3>1, FS_AddElement
    <3> QED BY <3>2 DEF X
  <2> QED BY <1>1, <2>2, <2>4, <2>6
<1> HIDE DEF U
<1>10. n \in U
  <2>1. \A k \in 0 .. n : k \in U
    BY <1>1, <1>8, <1>9, UpTo
  <2> QED BY <1>1, <2>1
<1>11. Right(n, order)
  BY <1>1, <1>6, <1>10 DEF U
<1>12. Elements(order) = ts
  BY <1>11, FS_Subset DEF n
<1> QED BY <1>11, <1>12

(* Temporaries of the nodes that are allocated now live for their node.    *)
LEMMA TemporariesFacts ==
    ASSUME IsLegal, NEW p \in Plans, NEW first \in Int, NEW last \in Int,
           first .. last \subseteq NodeIds
    PROVE  LET q == WithTemporaries(p, first, last)
           IN  /\ q \in Plans /\ q.arena = p.arena /\ q.persistent = p.persistent
               /\ q.allocs = p.allocs
               /\ \A t \in Tensors : (\A i \in first .. last : t \notin Temps(i)) =>
                     q.alloc_node[t] = p.alloc_node[t] /\ q.dealloc_node[t] = p.dealloc_node[t]
               /\ \A i \in first .. last : \A t \in Temps(i) :
                     q.alloc_node[t] = i /\ q.dealloc_node[t] = i
<1> DEFINE nodeOf == [t \in Tensors |-> {i \in first .. last : t \in Node(i).temporaries}]
           Assigned(f) == [t \in Tensors |-> IF nodeOf[t] = {} THEN f[t]
                                             ELSE CHOOSE i \in nodeOf[t] : TRUE]
           x == Assigned(p.alloc_node)
           y == Assigned(p.dealloc_node)
           q == WithTemporaries(p, first, last)
<1>1. q = [p EXCEPT !.alloc_node = x, !.dealloc_node = y]
  BY DEF WithTemporaries
<1>2. ASSUME NEW f \in [Tensors -> Nat]
      PROVE  /\ Assigned(f) \in [Tensors -> Nat]
             /\ \A t \in Tensors : (\A i \in first .. last : t \notin Temps(i)) =>
                   Assigned(f)[t] = f[t]
             /\ \A i \in first .. last : \A t \in Temps(i) : Assigned(f)[t] = i
  <2>1. \A t \in Tensors : nodeOf[t] = {i \in first .. last : t \in Temps(i)}
    BY DEF Temps
  <2>2. \A i \in NodeIds : i \in Nat
    BY GraphFacts DEF NodeIds
  <2>3. \A t \in Tensors : nodeOf[t] # {} => (CHOOSE i \in nodeOf[t] : TRUE) \in nodeOf[t]
    OBVIOUS
  <2>4. \A t \in Tensors : \A i, j \in nodeOf[t] : i = j
    BY <2>1, GraphFacts
  <2> HIDE DEF nodeOf
  <2>5. Assigned(f) \in [Tensors -> Nat]
    BY <2>1, <2>2, <2>3
  <2>6. \A i \in first .. last : \A t \in Temps(i) : t \in Tensors /\ i \in nodeOf[t]
    BY <2>1, GraphFacts
  <2>7. \A i \in first .. last : \A t \in Temps(i) : Assigned(f)[t] = i
    BY <2>3, <2>4, <2>6
  <2> QED BY <2>1, <2>5, <2>7
<1>3. p.alloc_node \in [Tensors -> Nat] /\ p.dealloc_node \in [Tensors -> Nat]
  BY PlanFields
<1> HIDE DEF Assigned
<1>4. x \in [Tensors -> Nat] /\ y \in [Tensors -> Nat]
  BY <1>2, <1>3
<1>5. /\ \A t \in Tensors : (\A i \in first .. last : t \notin Temps(i)) =>
                   x[t] = p.alloc_node[t] /\ y[t] = p.dealloc_node[t]
      /\ \A i \in first .. last : \A t \in Temps(i) : x[t] = i /\ y[t] = i
  BY <1>2, <1>3
<1> HIDE DEF x, y, q
<1>6. /\ q \in Plans /\ q.arena = p.arena /\ q.persistent = p.persistent /\ q.allocs = p.allocs
      /\ q.alloc_node = x /\ q.dealloc_node = y
  BY <1>1, <1>4 DEF Plans
<1> QED BY <1>5, <1>6 DEF q

-----------------------------------------------------------------------------
(* PlanAllocations: lifetimes from counting references.                    *)

(* Node j is the last one to read t, and nothing else keeps t.             *)
LastRead(t, j) ==
    /\ t \notin Given \cup graph.outputs
    /\ \E w \in NodeIds : t \in Node(w).outputs
    /\ t \in NodeInputs(j)
    /\ \A m \in NodeIds : j < m => t \notin NodeInputs(m)

AllocExact(p, t) ==
    /\ t \in Given => p.alloc_node[t] = 0
    /\ \A i \in NodeIds : t \in Node(i).outputs => p.alloc_node[t] = i
    /\ t \notin Given /\ (\A i \in NodeIds : t \notin Node(i).outputs) =>
          p.alloc_node[t] = NodeNotAssigned

DeallocExact(p, t) ==
    /\ \A j \in NodeIds : LastRead(t, j) => p.dealloc_node[t] = j
    /\ (\A j \in NodeIds : ~LastRead(t, j)) => p.dealloc_node[t] = NodeNotAssigned

(* A node reads the tensors that it reads at least once.                   *)
LEMMA InputCountFacts ==
    ASSUME IsLegal, NEW i \in NodeIds, NEW t
    PROVE  InputCount(i, t) \in Nat /\ (InputCount(i, t) = 0 <=> t \notin NodeInputs(i))
<1> DEFINE s == Node(i).inputs
           X == {j \in DOMAIN s : s[j] = t}
<1>1. s \in Seq(Tensors) /\ NodeInputs(i) = Elements(s)
  BY GraphFacts
<1>2. InputCount(i, t) = Cardinality(X)
  BY DEF InputCount
<1> HIDE DEF s
<1>3. DOMAIN s = 1 .. Len(s) /\ Len(s) \in Nat
  BY <1>1, LenProperties
<1>4. X = {} <=> t \notin NodeInputs(i)
  BY <1>1, <1>3 DEF Elements
<1>5. X \in SUBSET (1 .. Len(s)) /\ IsFiniteSet(1 .. Len(s))
  BY <1>3, FS_Interval
<1> HIDE DEF X
<1>6. IsFiniteSet(X)
  BY <1>5, FS_Subset
<1>7. Cardinality(X) \in Nat /\ (Cardinality(X) = 0 <=> X = {})
  BY <1>6, FS_CardinalityType, FS_EmptySet
<1> QED BY <1>2, <1>4, <1>7

(* How often nodes in front of node k read t.                              *)
IsUseCount(c, t) ==
    /\ c \in [0 .. NumNodes -> Nat] /\ c[0] = 0
    /\ \A k \in 1 .. NumNodes : c[k] = c[k - 1] + InputCount(k - 1, t)

KeptCount(t) == (IF t \in graph.outputs THEN 1 ELSE 0) + (IF t \in graph.variables THEN 1 ELSE 0)
                + (IF t \in graph.inputs THEN 1 ELSE 0)

(* The first reference count is the number of all uses, and one for each   *)
(* reason to keep the tensor.                                              *)
LEMMA UsesCounted ==
    ASSUME IsLegal, NEW t
    PROVE  \E c : IsUseCount(c, t) /\ InitialRefcount(t) = KeptCount(t) + c[NumNodes]
<1> DEFINE n == NumNodes
           seq == [i \in 1 .. NumNodes |-> i]
           step == [k \in 1 .. n |-> [m \in Nat |-> m + InputCount(k - 1, t)]]
           After(f) == [k \in 0 .. Len(seq) |->
                          IF k = 0 THEN 0 ELSE f[k - 1] + InputCount(seq[k] - 1, t)]
           found == CHOOSE f : f = After(f)
<1>1. n \in Nat /\ \A k \in 1 .. n : k - 1 \in NodeIds
  BY GraphFacts DEF NodeIds
<1>2. Len(seq) = n /\ \A k \in 1 .. n : seq[k] = k
  <2>1. seq \in [1 .. n -> Nat]
    BY <1>1
  <2> QED BY <1>1, <2>1, FunctionIsSeq
<1>3. \A k \in 1 .. n : InputCount(k - 1, t) \in Nat
  BY <1>1, InputCountFacts
<1>4. 0 \in Nat /\ step \in Steps(Nat, n)
  <2> HIDE DEF n
  <2> QED BY <1>3 DEF Steps
<1>5. PICK f : IsIteration(f, Nat, n, 0, step)
  <2> HIDE DEF step, n
  <2> QED BY <1>1, <1>4, IterationExists, Zenon
<1> HIDE DEF seq, n
<1>6. f \in [0 .. n -> Nat] /\ f[0] = 0
  BY <1>5 DEF IsIteration
<1>7. \A k \in 1 .. n : f[k - 1] \in Nat
  <2>1. \A k \in 1 .. n : k - 1 \in 0 .. n
    BY <1>1
  <2> QED BY <1>6, <2>1
<1>8. \A k \in 1 .. n : f[k] = f[k - 1] + InputCount(k - 1, t)
  BY <1>5, <1>7 DEF IsIteration
<1>9. f = After(f)
  <2>1. \A k \in 0 .. n : k = 0 \/ k \in 1 .. n
    BY <1>1
  <2>2. \A k \in 1 .. n : f[k] = f[k - 1] + InputCount(seq[k] - 1, t)
    BY <1>2, <1>8
  <2> HIDE DEF step
  <2> QED BY <1>2, <1>6, <2>1, <2>2
<1>10. found = After(found)
  <2> HIDE DEF After
  <2> QED BY <1>9
<1>11. InitialRefcount(t) = KeptCount(t) + found[Len(seq)]
  BY DEF InitialRefcount, KeptCount, Fold, seq
<1> HIDE DEF found
<1>12. found[0] = 0 /\ \A k \in 1 .. n : found[k] = found[k - 1] + InputCount(k - 1, t)
  <2>1. 0 \in 0 .. n /\ \A k \in 1 .. n : k \in 0 .. n /\ k # 0
    BY <1>1
  <2> QED BY <1>2, <1>10, <2>1
<1>13. found \in [0 .. n -> Nat]
  <2> DEFINE U == {k \in 0 .. n : found[k] \in Nat}
  <2>1. 0 \in U
    BY <1>1, <1>12
  <2>2. \A k \in 1 .. n : k - 1 \in U => k \in U
    BY <1>1, <1>3, <1>12
  <2> HIDE DEF U
  <2>3. \A k \in 0 .. n : k \in U
    BY <1>1, <2>1, <2>2, UpTo
  <2>4. found = [k \in 0 .. n |-> found[k]]
    <3> DEFINE Val(k) == IF k = 0 THEN 0 ELSE found[k - 1] + InputCount(seq[k] - 1, t)
    <3>1. found = [k \in 0 .. n |-> Val(k)]
      BY <1>2, <1>10
    <3> HIDE DEF Val
    <3> QED BY <3>1
  <2> QED BY <2>3, <2>4 DEF U
<1> QED BY <1>2, <1>11, <1>12, <1>13 DEF IsUseCount, n

(* The references left after k nodes are used up if nobody behind reads t. *)
LEMMA UsesLeft ==
    ASSUME IsLegal, NEW t, NEW c, IsUseCount(c, t), NEW k \in 0 .. NumNodes
    PROVE  /\ c[k] \in Nat /\ c[NumNodes] \in Nat /\ c[k] <= c[NumNodes]
           /\ c[k] = c[NumNodes] <=> \A m \in NodeIds : k <= m => t \notin NodeInputs(m)
<1> DEFINE n == NumNodes
           Good(i) == /\ c[n - i] <= c[n]
                      /\ c[n - i] = c[n] <=> \A m \in NodeIds : n - i <= m => t \notin NodeInputs(m)
           U == {i \in 0 .. n : Good(i)}
<1>1. n \in Nat /\ c \in [0 .. n -> Nat] /\ \A m \in NodeIds : m \in Nat /\ m < n
  BY GraphFacts DEF NodeIds, IsUseCount
<1>2. 0 \in U
  <2>1. n - 0 = n /\ 0 \in 0 .. n /\ c[n] \in Nat /\ \A m \in NodeIds : ~(n <= m)
    BY <1>1
  <2> HIDE DEF n
  <2> QED BY <2>1
<1>3. ASSUME NEW i \in 1 .. n, i - 1 \in U PROVE i \in U
  <2> DEFINE a == n - i
             d == InputCount(a, t)
  <2>1. a \in NodeIds /\ a + 1 \in 1 .. n /\ n - (i - 1) = a + 1 /\ i \in 0 .. n
    BY <1>1 DEF NodeIds
  <2>2. (a + 1) - 1 = a /\ a \in 0 .. n /\ a + 1 \in 0 .. n
    BY <1>1, <2>1
  <2>3. c[a + 1] = c[a] + d
    BY <2>1, <2>2 DEF IsUseCount
  <2>4. d \in Nat /\ (d = 0 <=> t \notin NodeInputs(a))
    BY <2>1, InputCountFacts
  <2>5. c[a] \in Nat /\ c[a + 1] \in Nat /\ c[n] \in Nat
    BY <1>1, <2>2
  <2>6. /\ c[a + 1] <= c[n]
        /\ c[a + 1] = c[n] <=> \A m \in NodeIds : a + 1 <= m => t \notin NodeInputs(m)
    BY <1>3, <2>1
  <2>7. \A m \in NodeIds : a <= m <=> (m = a \/ a + 1 <= m)
    BY <1>1, <2>1
  <2> HIDE DEF a, d, n
  <2>8. c[a] <= c[n] /\ (c[a] = c[n] <=> d = 0 /\ c[a + 1] = c[n])
    BY <2>3, <2>4, <2>5, <2>6
  <2>9. c[a] = c[n] <=> \A m \in NodeIds : a <= m => t \notin NodeInputs(m)
    BY <2>1, <2>4, <2>6, <2>7, <2>8
  <2> QED BY <2>1, <2>8, <2>9 DEF a
<1> HIDE DEF U
<1>4. \A i \in 0 .. n : i \in U
  BY <1>1, <1>2, <1>3, UpTo
<1>5. n - k \in 0 .. n /\ n - (n - k) = k
  BY <1>1
<1>6. Good(n - k)
  BY <1>4, <1>5 DEF U
<1> QED BY <1>1, <1>5, <1>6

PlanStates == [refcounts : [Tensors -> Int], alloc_node : [Tensors -> Nat],
               dealloc_node : [Tensors -> Nat]]

(* One node of the loop, tensor by tensor.                                 *)
LEMMA PlanNodeFacts ==
    ASSUME IsLegal, NEW plan \in PlanStates, NEW i \in NodeIds
    PROVE  /\ PlanNode(plan, i) \in PlanStates
           /\ \A t \in Tensors :
                 /\ PlanNode(plan, i).refcounts[t] = plan.refcounts[t] - InputCount(i, t)
                 /\ PlanNode(plan, i).alloc_node[t] =
                       IF t \in Node(i).outputs /\ plan.alloc_node[t] = NodeNotAssigned
                       THEN i ELSE plan.alloc_node[t]
                 /\ PlanNode(plan, i).dealloc_node[t] =
                       IF /\ t \in NodeInputs(i) /\ plan.refcounts[t] - InputCount(i, t) = 0
                          /\ PlanNode(plan, i).alloc_node[t] # NodeNotAssigned
                       THEN i ELSE plan.dealloc_node[t]
<1> DEFINE alloc == [t \in Tensors |->
                       IF t \in Node(i).outputs /\ plan.alloc_node[t] = NodeNotAssigned
                       THEN i ELSE plan.alloc_node[t]]
           refs  == [t \in Tensors |-> plan.refcounts[t] - InputCount(i, t)]
           last  == {t \in NodeInputs(i) : refs[t] = 0 /\ alloc[t] # NodeNotAssigned}
           dealloc == [t \in Tensors |-> IF t \in last THEN i ELSE plan.dealloc_node[t]]
           new == PlanNode(plan, i)
<1>1. new = [refcounts |-> refs, alloc_node |-> alloc, dealloc_node |-> dealloc]
  BY DEF PlanNode
<1>2. /\ plan.refcounts \in [Tensors -> Int] /\ plan.alloc_node \in [Tensors -> Nat]
      /\ plan.dealloc_node \in [Tensors -> Nat]
  BY DEF PlanStates
<1>3. i \in Nat /\ \A t : InputCount(i, t) \in Nat
  BY GraphFacts, InputCountFacts DEF NodeIds
<1>4. refs \in [Tensors -> Int] /\ alloc \in [Tensors -> Nat] /\ dealloc \in [Tensors -> Nat]
  <2>1. refs \in [Tensors -> Int]
    BY <1>2, <1>3
  <2>2. alloc \in [Tensors -> Nat]
    BY <1>2, <1>3
  <2> HIDE DEF last
  <2>3. dealloc \in [Tensors -> Nat]
    BY <1>2, <1>3
  <2> QED BY <2>1, <2>2, <2>3
<1>5. \A t \in Tensors :
          /\ refs[t] = plan.refcounts[t] - InputCount(i, t)
          /\ alloc[t] = IF t \in Node(i).outputs /\ plan.alloc_node[t] = NodeNotAssigned
                        THEN i ELSE plan.alloc_node[t]
          /\ dealloc[t] = IF t \in NodeInputs(i) /\ refs[t] = 0 /\ alloc[t] # NodeNotAssigned
                          THEN i ELSE plan.dealloc_node[t]
  <2>1. \A t \in Tensors : refs[t] = plan.refcounts[t] - InputCount(i, t)
    OBVIOUS
  <2>2. \A t \in Tensors :
           alloc[t] = IF t \in Node(i).outputs /\ plan.alloc_node[t] = NodeNotAssigned
                      THEN i ELSE plan.alloc_node[t]
    OBVIOUS
  <2> HIDE DEF refs, alloc
  <2> QED BY <2>1, <2>2
<1> HIDE DEF refs, alloc, dealloc, new
<1>6. new \in PlanStates /\ new.refcounts = refs /\ new.alloc_node = alloc
      /\ new.dealloc_node = dealloc
  BY <1>1, <1>4 DEF PlanStates
<1> QED BY <1>5, <1>6 DEF new

PlanStart == [refcounts |-> [t \in Tensors |-> InitialRefcount(t)],
              alloc_node |-> [t \in Tensors |-> IF t \in graph.inputs \cup graph.variables
                                                THEN 0 ELSE NodeNotAssigned],
              dealloc_node |-> [t \in Tensors |-> NodeNotAssigned]]

(* Before the first node is planned only what is given has a first node.   *)
LEMMA PlanStartFacts ==
    ASSUME IsLegal
    PROVE  /\ PlanStart \in PlanStates
           /\ \A t \in Tensors :
                 /\ PlanStart.refcounts[t] = InitialRefcount(t)
                 /\ PlanStart.alloc_node[t] = IF t \in Given THEN 0 ELSE NodeNotAssigned
                 /\ PlanStart.dealloc_node[t] = NodeNotAssigned
<1> DEFINE x == [t \in Tensors |-> InitialRefcount(t)]
           y == [t \in Tensors |-> IF t \in graph.inputs \cup graph.variables
                                   THEN 0 ELSE NodeNotAssigned]
           z == [t \in Tensors |-> NodeNotAssigned]
<1>1. \A t : InitialRefcount(t) \in Int
  <2> SUFFICES ASSUME NEW t PROVE InitialRefcount(t) \in Int
    OBVIOUS
  <2>1. PICK c : IsUseCount(c, t) /\ InitialRefcount(t) = KeptCount(t) + c[NumNodes]
    BY UsesCounted
  <2>2. c[NumNodes] \in Nat
    BY <2>1, GraphFacts DEF IsUseCount
  <2> QED BY <2>1, <2>2 DEF KeptCount
<1>2. x \in [Tensors -> Int] /\ y \in [Tensors -> Nat] /\ z \in [Tensors -> Nat]
  BY <1>1, NotAssignedIsNat
<1>3. \A t \in Tensors : /\ x[t] = InitialRefcount(t) /\ z[t] = NodeNotAssigned
                         /\ y[t] = IF t \in Given THEN 0 ELSE NodeNotAssigned
  BY DEF Given
<1>4. PlanStart = [refcounts |-> x, alloc_node |-> y, dealloc_node |-> z]
  BY DEF PlanStart
<1> HIDE DEF x, y, z
<1>5. PlanStart \in PlanStates /\ PlanStart.refcounts = x /\ PlanStart.alloc_node = y
      /\ PlanStart.dealloc_node = z
  BY <1>2, <1>4 DEF PlanStates
<1> QED BY <1>3, <1>5

(* The loop over the nodes, and the planner that it leaves.                *)
IsPlanning(f) ==
    /\ f[0] = PlanStart
    /\ \A k \in 1 .. NumNodes : f[k] = PlanNode(f[k - 1], k - 1)
    /\ \A k \in 0 .. NumNodes : f[k] \in PlanStates

(* PlanAllocations is the last state of its loop over the nodes.           *)
LEMMA PlanningFound ==
    ASSUME IsLegal
    PROVE  \E f : /\ IsPlanning(f)
                  /\ \A p : PlanAllocations(p) =
                        [ResetAllocations(p) EXCEPT !.exists = TRUE,
                                                    !.alloc_node = f[NumNodes].alloc_node,
                                                    !.dealloc_node = f[NumNodes].dealloc_node]
<1> DEFINE n == NumNodes
           seq == [i \in 1 .. NumNodes |-> i]
           step == [k \in 1 .. n |-> [a \in PlanStates |-> PlanNode(a, k - 1)]]
           After(f) == [k \in 0 .. Len(seq) |->
                          IF k = 0 THEN PlanStart ELSE PlanNode(f[k - 1], seq[k] - 1)]
           found == CHOOSE f : f = After(f)
<1>1. n \in Nat /\ \A k \in 1 .. n : k - 1 \in NodeIds
  BY GraphFacts DEF NodeIds
<1>2. Len(seq) = n /\ \A k \in 1 .. n : seq[k] = k
  <2>1. seq \in [1 .. n -> Nat]
    BY <1>1
  <2> QED BY <1>1, <2>1, FunctionIsSeq
<1>3. \A k \in 1 .. n : \A a \in PlanStates : PlanNode(a, k - 1) \in PlanStates
  BY <1>1, PlanNodeFacts
<1>4. PlanStart \in PlanStates /\ step \in Steps(PlanStates, n)
  <2>1. PlanStart \in PlanStates
    BY PlanStartFacts
  <2> HIDE DEF n
  <2> QED BY <1>3, <2>1 DEF Steps
<1>5. PICK f : IsIteration(f, PlanStates, n, PlanStart, step)
  <2> HIDE DEF step, n
  <2> QED BY <1>1, <1>4, IterationExists, Zenon
<1> HIDE DEF n
<1>7. f \in [0 .. n -> PlanStates] /\ f[0] = PlanStart
      /\ \A k \in 1 .. n : f[k] = step[k][f[k - 1]]
  BY <1>5 DEF IsIteration
<1>8. \A k \in 1 .. n : f[k - 1] \in PlanStates
  <2>1. \A k \in 1 .. n : k - 1 \in 0 .. n
    BY <1>1
  <2> HIDE DEF step
  <2> QED BY <1>7, <2>1
<1>9. \A k \in 1 .. n : f[k] = PlanNode(f[k - 1], k - 1)
  BY <1>7, <1>8
<1> HIDE DEF step
<1>10. f = After(f)
  <2>1. \A k \in 0 .. n : k = 0 \/ k \in 1 .. n
    BY <1>1
  <2> HIDE DEF seq
  <2>2. \A k \in 1 .. n : f[k] = PlanNode(f[k - 1], seq[k] - 1)
    BY <1>2, <1>9
  <2> QED BY <1>2, <1>7, <2>1, <2>2
<1>11. found = After(found)
  <2> HIDE DEF After
  <2> QED BY <1>10
<1>12. ASSUME NEW p
       PROVE  PlanAllocations(p) =
                 [ResetAllocations(p) EXCEPT !.exists = TRUE,
                                             !.alloc_node = found[Len(seq)].alloc_node,
                                             !.dealloc_node = found[Len(seq)].dealloc_node]
  BY DEF PlanAllocations, Fold, PlanStart
<1> HIDE DEF found, seq
<1>13. found[0] = PlanStart /\ \A k \in 1 .. n : found[k] = PlanNode(found[k - 1], k - 1)
  <2>1. 0 \in 0 .. n /\ \A k \in 1 .. n : k \in 0 .. n /\ k # 0
    BY <1>1
  <2> QED BY <1>2, <1>11, <2>1
<1>14. \A k \in 0 .. n : found[k] \in PlanStates
  <2> DEFINE U == {k \in 0 .. n : found[k] \in PlanStates}
  <2>1. 0 \in U
    BY <1>1, <1>4, <1>13
  <2>2. \A k \in 1 .. n : k - 1 \in U => k \in U
    BY <1>1, <1>3, <1>13
  <2> HIDE DEF U
  <2>3. \A k \in 0 .. n : k \in U
    BY <1>1, <2>1, <2>2, UpTo
  <2> QED BY <2>3 DEF U
<1>15. IsPlanning(found)
  BY <1>13, <1>14 DEF IsPlanning, n
<1>16. \A p : PlanAllocations(p) =
                 [ResetAllocations(p) EXCEPT !.exists = TRUE,
                                             !.alloc_node = found[NumNodes].alloc_node,
                                             !.dealloc_node = found[NumNodes].dealloc_node]
  BY <1>2, <1>12 DEF n
<1> QED BY <1>15, <1>16

(* The intervals when k nodes have been looked at.                         *)
ExactUpTo(plan, k, t) ==
    /\ t \in Given => plan.alloc_node[t] = 0
    /\ \A i \in NodeIds : t \in Node(i).outputs =>
          plan.alloc_node[t] = IF i < k THEN i ELSE NodeNotAssigned
    /\ t \notin Given /\ (\A i \in NodeIds : t \notin Node(i).outputs) =>
          plan.alloc_node[t] = NodeNotAssigned
    /\ \A j \in NodeIds : LastRead(t, j) =>
          plan.dealloc_node[t] = IF j < k THEN j ELSE NodeNotAssigned
    /\ (\A j \in NodeIds : ~LastRead(t, j)) => plan.dealloc_node[t] = NodeNotAssigned

(* The references are used up at the last reader, and only there.          *)
LEMMA UsedUp ==
    ASSUME IsLegal, NEW t \in Tensors, NEW c, IsUseCount(c, t), NEW i \in NodeIds,
           NEW refs, refs = KeptCount(t) + c[NumNodes] - c[i + 1],
           NEW w, \A m \in NodeIds : t \in Node(m).outputs =>
                                       w = IF m < i + 1 THEN m ELSE NodeNotAssigned,
           t \notin Given /\ (\A m \in NodeIds : t \notin Node(m).outputs) => w = NodeNotAssigned
    PROVE  t \in NodeInputs(i) /\ refs = 0 /\ w # NodeNotAssigned <=> LastRead(t, i)
<1> DEFINE n == NumNodes
           k == i + 1
<1>1. /\ n \in Nat /\ i \in Nat /\ k \in Nat /\ k \in 0 .. n /\ n <= NodeNotAssigned
      /\ \A m \in NodeIds : m \in Nat /\ m < n /\ (k <= m <=> i < m)
  BY GraphFacts DEF NodeIds
<1>2. /\ c[k] \in Nat /\ c[n] \in Nat /\ c[k] <= c[n]
      /\ c[k] = c[n] <=> \A m \in NodeIds : k <= m => t \notin NodeInputs(m)
  BY <1>1, UsesLeft
<1>3. KeptCount(t) \in Nat /\ (KeptCount(t) = 0 <=> t \notin Given \cup graph.outputs)
  BY DEF KeptCount, Given
<1> HIDE DEF k, n
<1>4. refs = 0 <=> KeptCount(t) = 0 /\ c[k] = c[n]
  BY <1>2, <1>3 DEF k, n
<1>5. refs = 0 <=> /\ t \notin Given \cup graph.outputs
                   /\ \A m \in NodeIds : i < m => t \notin NodeInputs(m)
  BY <1>1, <1>2, <1>3, <1>4
<1>6. ASSUME t \in NodeInputs(i), t \notin Given
      PROVE  w # NodeNotAssigned <=> \E m \in NodeIds : t \in Node(m).outputs
  <2>1. ASSUME NEW m \in NodeIds, t \in Node(m).outputs PROVE w # NodeNotAssigned
    <3>1. m < i
      <4>1. ~(i <= m)
        BY <1>6, <2>1, GraphFacts
      <4> QED BY <1>1, <4>1
    <3>2. w = m
      BY <1>1, <2>1, <3>1
    <3>3. NodeNotAssigned \in Nat
      BY NotAssignedIsNat
    <3> QED BY <1>1, <3>2, <3>3
  <2> QED BY <1>6, <2>1
<1> QED BY <1>5, <1>6 DEF LastRead

(* Planning node i keeps the lifetimes exact and the counts equal to the   *)
(* uses that remain.                                                       *)
LEMMA ExactNext ==
    ASSUME IsLegal, NEW t \in Tensors, NEW c, IsUseCount(c, t), NEW i \in NodeIds,
           NEW plan \in PlanStates, ExactUpTo(plan, i, t),
           plan.refcounts[t] = KeptCount(t) + c[NumNodes] - c[i]
    PROVE  /\ ExactUpTo(PlanNode(plan, i), i + 1, t)
           /\ PlanNode(plan, i).refcounts[t] = KeptCount(t) + c[NumNodes] - c[i + 1]
<1> DEFINE new == PlanNode(plan, i)
           n == NumNodes
           k == i + 1
           a == plan.alloc_node[t]
           b == new.alloc_node[t]
           d == plan.dealloc_node[t]
           e == new.dealloc_node[t]
           N == NodeNotAssigned
           refs == new.refcounts[t]
<1>1. /\ refs = plan.refcounts[t] - InputCount(i, t)
      /\ b = IF t \in Node(i).outputs /\ a = N THEN i ELSE a
      /\ e = IF t \in NodeInputs(i) /\ plan.refcounts[t] - InputCount(i, t) = 0 /\ b # N
             THEN i ELSE d
  BY PlanNodeFacts
<1>2. /\ n \in Nat /\ i \in Nat /\ N \in Nat /\ i < n /\ n <= N /\ k \in 1 .. n /\ i \in 0 .. n
      /\ k - 1 = i
      /\ \A m \in NodeIds : m \in Nat /\ m < n /\ (m < k <=> m < i \/ m = i)
  BY GraphFacts, NotAssignedIsNat DEF NodeIds
<1>3. /\ c[k] = c[i] + InputCount(i, t) /\ c[i] \in Nat /\ c[k] \in Nat /\ c[n] \in Nat
  <2>1. c[k] = c[k - 1] + InputCount(k - 1, t) /\ c \in [0 .. n -> Nat]
    BY <1>2 DEF IsUseCount
  <2>2. k \in 0 .. n /\ n \in 0 .. n
    BY <1>2
  <2> HIDE DEF n, k
  <2> QED BY <1>2, <2>1, <2>2
<1>4. InputCount(i, t) \in Nat /\ KeptCount(t) \in Nat
  BY InputCountFacts DEF KeptCount
<1> HIDE DEF n, k, N, new
<1>5. refs = KeptCount(t) + c[n] - c[k]
  BY <1>1, <1>3, <1>4 DEF n
<1>6. /\ t \in Given => a = 0
      /\ \A m \in NodeIds : t \in Node(m).outputs => a = IF m < i THEN m ELSE N
      /\ t \notin Given /\ (\A m \in NodeIds : t \notin Node(m).outputs) => a = N
      /\ \A j \in NodeIds : LastRead(t, j) => d = IF j < i THEN j ELSE N
      /\ (\A j \in NodeIds : ~LastRead(t, j)) => d = N
  BY DEF ExactUpTo, N
<1>7. /\ t \in Given => t \notin Node(i).outputs
      /\ \A m \in NodeIds : t \in Node(m).outputs /\ t \in Node(i).outputs => m = i
  BY GraphFacts
<1>8. \A j, m \in NodeIds : LastRead(t, j) /\ LastRead(t, m) => j = m
  <2>1. \A j, m \in NodeIds : j < m \/ m < j \/ j = m
    BY <1>2
  <2> QED BY <2>1 DEF LastRead
<1> HIDE DEF a, b, d, e, refs
<1>9. /\ t \in Given => b = 0
      /\ \A m \in NodeIds : t \in Node(m).outputs => b = IF m < k THEN m ELSE N
      /\ t \notin Given /\ (\A m \in NodeIds : t \notin Node(m).outputs) => b = N
  <2>1. t \in Given => b = 0
    BY <1>1, <1>6, <1>7
  <2>2. ASSUME NEW m \in NodeIds, t \in Node(m).outputs
        PROVE  b = IF m < k THEN m ELSE N
    <3>1. CASE m = i
      BY <1>1, <1>2, <1>6, <2>2, <3>1
    <3>2. CASE m # i
      <4>1. t \notin Node(i).outputs
        BY <1>7, <2>2, <3>2
      <4>2. m < k <=> m < i
        BY <1>2, <3>2
      <4> QED BY <1>1, <1>6, <2>2, <4>1, <4>2
    <3> QED BY <3>1, <3>2
  <2>3. t \notin Given /\ (\A m \in NodeIds : t \notin Node(m).outputs) => b = N
    BY <1>1, <1>6
  <2> QED BY <2>1, <2>2, <2>3
<1>10. t \in NodeInputs(i) /\ refs = 0 /\ b # N <=> LastRead(t, i)
  BY <1>5, <1>9, UsedUp DEF n, k, N
<1>11. e = IF LastRead(t, i) THEN i ELSE d
  BY <1>1, <1>10
<1>12. ASSUME NEW j \in NodeIds, LastRead(t, j) PROVE e = IF j < k THEN j ELSE N
  <2>1. CASE j = i
    BY <1>2, <1>11, <1>12, <2>1
  <2>2. CASE j # i
    <3>1. e = d /\ (j < k <=> j < i)
      BY <1>2, <1>8, <1>11, <1>12, <2>2
    <3> QED BY <1>6, <1>12, <3>1
  <2> QED BY <2>1, <2>2
<1>13. (\A j \in NodeIds : ~LastRead(t, j)) => e = N
  BY <1>6, <1>11
<1> QED BY <1>5, <1>9, <1>12, <1>13 DEF ExactUpTo, refs, b, e, n, k, N, new

(* Counting references finds the intervals that the graph tells.           *)
LEMMA PlanningExact ==
    ASSUME IsLegal, NEW f, IsPlanning(f), NEW t \in Tensors
    PROVE  AllocExact(f[NumNodes], t) /\ DeallocExact(f[NumNodes], t)
<1> DEFINE n == NumNodes
<1>1. PICK c : IsUseCount(c, t) /\ InitialRefcount(t) = KeptCount(t) + c[n]
  BY UsesCounted
<1> DEFINE Good(k) == /\ ExactUpTo(f[k], k, t)
                      /\ f[k].refcounts[t] = KeptCount(t) + c[n] - c[k]
           U == {k \in 0 .. n : Good(k)}
<1>2. /\ n \in Nat /\ \A i \in NodeIds : i \in Nat /\ i < n
      /\ \A k \in 1 .. n : k - 1 \in NodeIds /\ (k - 1) + 1 = k /\ k - 1 \in 0 .. n /\ k \in 0 .. n
  BY GraphFacts DEF NodeIds
<1>3. 0 \in U
  <2>1. f[0] = PlanStart /\ c[0] = 0 /\ c[n] \in Nat /\ KeptCount(t) \in Nat
    BY <1>1, <1>2 DEF IsPlanning, IsUseCount, KeptCount
  <2>2. f[0].refcounts[t] = KeptCount(t) + c[n] - c[0]
    BY <1>1, <2>1, PlanStartFacts
  <2>3. /\ f[0].alloc_node[t] = IF t \in Given THEN 0 ELSE NodeNotAssigned
        /\ f[0].dealloc_node[t] = NodeNotAssigned
    BY <2>1, PlanStartFacts
  <2>4. \A i \in NodeIds : ~(i < 0) /\ (t \in Given => t \notin Node(i).outputs)
    BY <1>2, GraphFacts
  <2>5. ExactUpTo(f[0], 0, t)
    BY <2>3, <2>4 DEF ExactUpTo
  <2>6. 0 \in 0 .. n
    BY <1>2
  <2> QED BY <2>2, <2>5, <2>6
<1>4. ASSUME NEW k \in 1 .. n, k - 1 \in U PROVE k \in U
  <2>1. k - 1 \in NodeIds /\ (k - 1) + 1 = k /\ k \in 0 .. n
    BY <1>2
  <2>2. f[k - 1] \in PlanStates /\ f[k] = PlanNode(f[k - 1], k - 1)
    BY <1>2 DEF IsPlanning
  <2> DEFINE i == k - 1
  <2>3. Good(i) /\ i \in NodeIds /\ i + 1 = k
    BY <1>4, <2>1
  <2> HIDE DEF i, n
  <2>4. ExactUpTo(PlanNode(f[i], i), i + 1, t)
        /\ PlanNode(f[i], i).refcounts[t] = KeptCount(t) + c[n] - c[i + 1]
    BY <1>1, <2>2, <2>3, ExactNext DEF i, n
  <2> QED BY <2>1, <2>2, <2>3, <2>4 DEF i
<1> HIDE DEF U
<1>5. n \in U
  <2>1. \A k \in 0 .. n : k \in U
    BY <1>2, <1>3, <1>4, UpTo
  <2> QED BY <1>2, <2>1
<1>6. ExactUpTo(f[n], n, t)
  BY <1>5 DEF U
<1> QED BY <1>2, <1>6 DEF ExactUpTo, AllocExact, DeallocExact

-----------------------------------------------------------------------------
(* What holds of the planner as long as it exists: its plans are sound,    *)
(* the memory of tensors is in them, and the intervals are those of the    *)
(* graph, where temporaries get theirs when their node is allocated.       *)
IsTemp(t) == \E i \in NodeIds : t \in Temps(i)

Proper(p) ==
    /\ p \in Plans
    /\ SoundPlans(p)
    /\ \A t \in Tensors : Registered(p, t) /\ (p.allocs[t].size # 0 => p.allocs[t].tensor = t)
    /\ \A t \in Tensors : ~IsTemp(t) => AllocExact(p, t) /\ DeallocExact(p, t)
    /\ \A i \in NodeIds : \A t \in Temps(i) :
          p.dealloc_node[t] = p.alloc_node[t] /\ p.alloc_node[t] \in {i, NodeNotAssigned}

(* Two planners with the same intervals.                                   *)
SameLives(p, q) == q.alloc_node = p.alloc_node /\ q.dealloc_node = p.dealloc_node

(* A plan with the lifetimes of a proper one is proper if its entries are  *)
(* in order.                                                               *)
LEMMA LivesKept ==
    ASSUME NEW p, NEW q \in Plans, Proper(p), SameLives(p, q), SoundPlans(q),
           \A t \in Tensors : Registered(q, t) /\ (q.allocs[t].size # 0 => q.allocs[t].tensor = t)
    PROVE  Proper(q)
  BY DEF Proper, SameLives, AllocExact, DeallocExact

(* Nothing has memory.                                                     *)
Blank(p) == /\ p.arena.allocs = <<>> /\ p.persistent.allocs = <<>>
            /\ \A t \in Tensors : p.allocs[t] = ResetAlloc

(* A plan without allocations is sound.                                    *)
LEMMA BlankFacts ==
    ASSUME NEW p, Blank(p)
    PROVE  /\ SoundPlans(p)
           /\ \A t \in Tensors : Registered(p, t) /\ p.allocs[t].size = 0
<1>1. ResetAlloc.size = 0
  BY DEF ResetAlloc
<1>2. Elements(<<>>) = {} /\ SortedPlan(<<>>)
  BY DEF Elements, SortedPlan
<1> QED BY <1>1, <1>2 DEF Blank, SoundPlans, SoundPlan, Registered

(* ResetAllocations forgets the allocations and keeps lifetimes and        *)
(* buffers.                                                                *)
LEMMA ResetFacts ==
    ASSUME NEW p \in Plans
    PROVE  LET q == ResetAllocations(p)
           IN  /\ q \in Plans /\ Blank(q) /\ SameLives(p, q)
               /\ q.arena.buffer = p.arena.buffer /\ q.persistent.buffer = p.persistent.buffer
<1> DEFINE q == ResetAllocations(p)
           x == [p.arena EXCEPT !.allocs = <<>>]
           y == [p.persistent EXCEPT !.allocs = <<>>]
           z == [t \in Tensors |-> ResetAlloc]
<1>1. q = [p EXCEPT !.arena = x, !.persistent = y, !.allocs = z]
  BY DEF ResetAllocations, ClearedPlan
<1>2. <<>> \in Seq(AllocRecords)
  OBVIOUS
<1>3. ASSUME NEW a \in ArenaRecords
      PROVE  LET b == [a EXCEPT !.allocs = <<>>]
             IN  b \in ArenaRecords /\ b.allocs = <<>> /\ b.buffer = a.buffer
  BY <1>2 DEF ArenaRecords
<1>4. /\ x \in ArenaRecords /\ x.allocs = <<>> /\ x.buffer = p.arena.buffer
      /\ y \in ArenaRecords /\ y.allocs = <<>> /\ y.buffer = p.persistent.buffer
  BY <1>3, PlanFields
<1>5. z \in [Tensors -> AllocRecords] /\ \A t \in Tensors : z[t] = ResetAlloc
  BY DEF AllocRecords, ResetAlloc
<1> HIDE DEF x, y, z, q
<1>6. /\ q \in Plans /\ q.arena = x /\ q.persistent = y /\ q.allocs = z
      /\ q.alloc_node = p.alloc_node /\ q.dealloc_node = p.dealloc_node
  BY <1>1, <1>4, <1>5 DEF Plans
<1> QED BY <1>4, <1>5, <1>6 DEF Blank, SameLives, q

(* ResetAllocations keeps a plan proper.                                   *)
LEMMA ResetProper ==
    ASSUME NEW p, Proper(p) PROVE Proper(ResetAllocations(p))
<1> DEFINE q == ResetAllocations(p)
<1>1. p \in Plans
  BY DEF Proper
<1>2. q \in Plans /\ Blank(q) /\ SameLives(p, q)
  BY <1>1, ResetFacts
<1> HIDE DEF q
<1>3. SoundPlans(q) /\ \A t \in Tensors : Registered(q, t) /\ q.allocs[t].size = 0
  BY <1>2, BlankFacts
<1>4. Proper(q)
  BY <1>2, <1>3, LivesKept
<1> QED BY <1>4 DEF q

(* PlanAllocations of a planner that is new.                               *)
LEMMA NewPlanner ==
    ASSUME IsLegal
    PROVE  /\ Proper(PlanAllocations(NoPlanner)) /\ Blank(PlanAllocations(NoPlanner))
<1>1. PICK f : /\ IsPlanning(f)
               /\ \A p : PlanAllocations(p) =
                      [ResetAllocations(p) EXCEPT !.exists = TRUE,
                                                  !.alloc_node = f[NumNodes].alloc_node,
                                                  !.dealloc_node = f[NumNodes].dealloc_node]
  BY PlanningFound
<1> DEFINE q == PlanAllocations(NoPlanner)
           v == f[NumNodes]
           x == v.alloc_node
           y == v.dealloc_node
           z == [t \in Tensors |-> ResetAlloc]
<1>2. q = [ResetAllocations(NoPlanner) EXCEPT !.exists = TRUE, !.alloc_node = x,
                                              !.dealloc_node = y]
  BY <1>1
<1>3. NumNodes \in 0 .. NumNodes
  BY GraphFacts
<1>4. v \in PlanStates /\ \A t \in Tensors : AllocExact(v, t) /\ DeallocExact(v, t)
  BY <1>1, <1>3, PlanningExact DEF IsPlanning
<1> HIDE DEF v
<1>5. x \in [Tensors -> Nat] /\ y \in [Tensors -> Nat]
  BY <1>4 DEF PlanStates
<1>6. z \in [Tensors -> AllocRecords] /\ \A t \in Tensors : z[t] = ResetAlloc
  BY DEF AllocRecords, ResetAlloc
<1> HIDE DEF z
<1> DEFINE Like(e, al, an, dn) == [exists : {e}, arena : {EmptyArena}, persistent : {EmptyArena},
                                   allocs : {al}, alloc_node : {an}, dealloc_node : {dn}]
           r == ResetAllocations(NoPlanner)
<1>7. r \in Like(FALSE, z, <<>>, <<>>)
  <2>1. NoPlanner \in Like(FALSE, <<>>, <<>>, <<>>)
    BY DEF NoPlanner
  <2>2. ClearedPlan(EmptyArena) = EmptyArena
    BY DEF ClearedPlan, EmptyArena
  <2>3. r = [NoPlanner EXCEPT !.arena = EmptyArena, !.persistent = EmptyArena, !.allocs = z]
    <3>1. NoPlanner.arena = EmptyArena /\ NoPlanner.persistent = EmptyArena
      BY <2>1
    <3> QED BY <2>2, <3>1 DEF ResetAllocations, z
  <2> QED BY <2>1, <2>3
<1> HIDE DEF x, y, r
<1>8. q \in Like(TRUE, z, x, y)
  BY <1>2, <1>7 DEF r
<1>9. EmptyArena \in ArenaRecords /\ EmptyArena.allocs = <<>>
  BY DEF EmptyArena, ArenaRecords
<1> HIDE DEF q
<1>10. q \in Plans /\ q.arena = EmptyArena /\ q.persistent = EmptyArena /\ q.allocs = z
       /\ q.alloc_node = x /\ q.dealloc_node = y
  BY <1>5, <1>6, <1>8, <1>9 DEF Plans
<1>11. Blank(q)
  BY <1>6, <1>9, <1>10 DEF Blank
<1>12. SoundPlans(q) /\ \A t \in Tensors : Registered(q, t) /\ q.allocs[t].size = 0
  BY <1>11, BlankFacts
<1>13. \A t \in Tensors : AllocExact(q, t) /\ DeallocExact(q, t)
  BY <1>4, <1>10 DEF AllocExact, DeallocExact, x, y
<1>14. ASSUME NEW i \in NodeIds, NEW t \in Temps(i)
       PROVE  q.dealloc_node[t] = q.alloc_node[t] /\ q.alloc_node[t] \in {i, NodeNotAssigned}
  <2>1. t \in Tensors /\ t \notin Given /\ \A j \in NodeIds : t \notin Node(j).outputs
    BY GraphFacts
  <2>2. \A j \in NodeIds : ~LastRead(t, j)
    BY <2>1 DEF LastRead
  <2>3. q.alloc_node[t] = NodeNotAssigned
    BY <1>13, <2>1 DEF AllocExact
  <2>4. q.dealloc_node[t] = NodeNotAssigned
    BY <1>13, <2>1, <2>2 DEF DeallocExact
  <2> QED BY <2>3, <2>4
<1>15. Proper(q)
  BY <1>10, <1>12, <1>13, <1>14 DEF Proper
<1> QED BY <1>11, <1>15 DEF q

(* A commit or a release changes nothing of the plan.                      *)
WithBuffer(p, b) == [p EXCEPT !.arena = [p.arena EXCEPT !.buffer = b]]

(* Obtaining or releasing the buffer keeps a plan proper.                  *)
LEMMA BufferProper ==
    ASSUME NEW p, Proper(p), NEW b \in BOOLEAN
    PROVE  LET q == WithBuffer(p, b)
           IN  /\ Proper(q) /\ SameLives(p, q) /\ q.allocs = p.allocs /\ q.arena.buffer = b
               /\ q.arena.allocs = p.arena.allocs /\ q.persistent = p.persistent
<1> DEFINE x == [p.arena EXCEPT !.buffer = b]
           q == WithBuffer(p, b)
<1>1. p \in Plans /\ p.arena \in ArenaRecords
  BY PlanFields DEF Proper
<1>2. x \in ArenaRecords /\ x.buffer = b /\ x.allocs = p.arena.allocs
  BY <1>1 DEF ArenaRecords
<1>3. q = [p EXCEPT !.arena = x]
  BY DEF WithBuffer
<1> HIDE DEF x, q
<1>4. /\ q \in Plans /\ q.arena = x /\ q.persistent = p.persistent /\ q.allocs = p.allocs
      /\ q.alloc_node = p.alloc_node /\ q.dealloc_node = p.dealloc_node
  BY <1>1, <1>2, <1>3 DEF Plans
<1>5. SoundPlans(q) /\ \A t \in Tensors : Registered(p, t) => Registered(q, t)
  BY <1>2, <1>4 DEF Proper, SoundPlans, Registered, ArenaFor
<1>6. \A t \in Tensors : Registered(q, t) /\ (q.allocs[t].size # 0 => q.allocs[t].tensor = t)
  BY <1>4, <1>5 DEF Proper
<1>7. Proper(q)
  BY <1>4, <1>5, <1>6, LivesKept DEF SameLives
<1> QED BY <1>2, <1>4, <1>7 DEF SameLives, q

(* ResetAllocationsAfter takes the memory of what later nodes allocate.    *)
LEMMA AfterFacts ==
    ASSUME NEW p, Proper(p), NEW node \in Int
    PROVE  LET q  == ResetAllocationsAfter(p, node)
               ts == AllocatedAfter(p, node)
           IN  /\ Proper(q) /\ SameLives(p, q) /\ q.arena.buffer = p.arena.buffer
               /\ \A t \in Tensors : q.allocs[t] = IF t \in ts THEN ResetAlloc ELSE p.allocs[t]
               /\ Elements(q.arena.allocs) \subseteq Elements(p.arena.allocs)
               /\ q.persistent = p.persistent
<1> DEFINE ts == AllocatedAfter(p, node)
           x == Deallocated(p.arena, ts)
           y == [t \in Tensors |-> IF t \in ts THEN ResetAlloc ELSE p.allocs[t]]
           q == ResetAllocationsAfter(p, node)
<1>1. p \in Plans /\ p.arena \in ArenaRecords /\ p.allocs \in [Tensors -> AllocRecords]
  BY PlanFields DEF Proper
<1>2. q = [p EXCEPT !.arena = x, !.allocs = y]
  BY DEF ResetAllocationsAfter
<1>3. ts \subseteq Tensors /\ \A t \in ts : IsRw(t)
  BY DEF AllocatedAfter
<1> HIDE DEF ts
<1>4. /\ x \in ArenaRecords /\ x.buffer = p.arena.buffer
      /\ Elements(x.allocs) = {a \in Elements(p.arena.allocs) : a.tensor \notin ts}
      /\ SortedPlan(p.arena.allocs) => SortedPlan(x.allocs)
  BY <1>1, DeallocatedFacts
<1>5. ResetAlloc \in AllocRecords /\ ResetAlloc.size = 0
  BY DEF ResetAlloc, AllocRecords
<1>6. /\ y \in [Tensors -> AllocRecords]
      /\ \A t \in Tensors : y[t] = IF t \in ts THEN ResetAlloc ELSE p.allocs[t]
  BY <1>1, <1>5
<1> HIDE DEF x, y, q
<1>7. /\ q \in Plans /\ q.arena = x /\ q.persistent = p.persistent /\ q.allocs = y
      /\ q.alloc_node = p.alloc_node /\ q.dealloc_node = p.dealloc_node
  BY <1>1, <1>2, <1>4, <1>6 DEF Plans
<1>8. SoundPlans(q)
  BY <1>4, <1>7 DEF Proper, SoundPlans, SoundPlan
<1>9. ASSUME NEW t \in Tensors
      PROVE  Registered(q, t) /\ (q.allocs[t].size # 0 => q.allocs[t].tensor = t)
  <2>1. CASE t \in ts
    BY <1>5, <1>6, <1>7, <2>1 DEF Registered
  <2>2. CASE t \notin ts
    <3>1. q.allocs[t] = p.allocs[t]
      BY <1>6, <1>7, <2>2
    <3>2. Registered(p, t) /\ (p.allocs[t].size # 0 => p.allocs[t].tensor = t)
      BY DEF Proper
    <3>3. Registered(q, t)
      BY <1>4, <1>7, <2>2, <3>1, <3>2 DEF Registered, ArenaFor
    <3> QED BY <3>1, <3>2, <3>3
  <2> QED BY <2>1, <2>2
<1>10. Proper(q)
  BY <1>7, <1>8, <1>9, LivesKept DEF SameLives
<1> QED BY <1>4, <1>6, <1>7, <1>10 DEF q, ts, SameLives

(* The planner that PrepareOpsAndTensors works on.                         *)
Base(p) == IF p.exists THEN p ELSE PlanAllocations(p)

(* The plan that PrepareOpsAndTensors starts from is proper.               *)
LEMMA BaseProper ==
    ASSUME IsLegal, NEW p, p = NoPlanner \/ Proper(p)
    PROVE  Proper(Base(p)) /\ (p = NoPlanner => Blank(Base(p))) /\ (Proper(p) => Base(p) = p)
<1>1. NoPlanner.exists = FALSE
  BY DEF NoPlanner
<1>2. Proper(p) => p.exists
  BY PlanFields DEF Proper
<1> QED BY <1>1, <1>2, NewPlanner DEF Base

(* A temporary of one of the nodes first .. last gets its node, and no     *)
(* other tensor another interval.                                          *)
LEMMA ReadyProper ==
    ASSUME IsLegal, NEW p, Proper(p), NEW first \in Int, NEW last \in Int,
           first .. last \subseteq NodeIds
    PROVE  Proper(WithTemporaries(p, first, last))
<1> DEFINE q == WithTemporaries(p, first, last)
<1>1. /\ q \in Plans /\ q.arena = p.arena /\ q.persistent = p.persistent /\ q.allocs = p.allocs
      /\ \A t \in Tensors : (\A i \in first .. last : t \notin Temps(i)) =>
                   q.alloc_node[t] = p.alloc_node[t] /\ q.dealloc_node[t] = p.dealloc_node[t]
      /\ \A i \in first .. last : \A t \in Temps(i) : q.alloc_node[t] = i /\ q.dealloc_node[t] = i
  BY TemporariesFacts DEF Proper
<1> HIDE DEF q
<1>2. /\ SoundPlans(q)
      /\ \A t \in Tensors : Registered(q, t) /\ (q.allocs[t].size # 0 => q.allocs[t].tensor = t)
  BY <1>1 DEF Proper, SoundPlans, Registered, ArenaFor
<1>3. \A t \in Tensors : ~IsTemp(t) => AllocExact(q, t) /\ DeallocExact(q, t)
  <2> SUFFICES ASSUME NEW t \in Tensors, ~IsTemp(t) PROVE AllocExact(q, t) /\ DeallocExact(q, t)
    OBVIOUS
  <2>1. q.alloc_node[t] = p.alloc_node[t] /\ q.dealloc_node[t] = p.dealloc_node[t]
    BY <1>1 DEF IsTemp
  <2>2. AllocExact(p, t) /\ DeallocExact(p, t)
    BY DEF Proper
  <2> QED BY <2>1, <2>2 DEF AllocExact, DeallocExact
<1>4. ASSUME NEW i \in NodeIds, NEW t \in Temps(i)
      PROVE  q.dealloc_node[t] = q.alloc_node[t] /\ q.alloc_node[t] \in {i, NodeNotAssigned}
  <2>1. CASE i \in first .. last
    BY <1>1, <2>1
  <2>2. CASE i \notin first .. last
    <3>1. t \in Tensors /\ \A j \in first .. last : t \notin Temps(j)
      BY <2>2, GraphFacts
    <3> QED BY <1>1, <3>1 DEF Proper
  <2> QED BY <2>1, <2>2
<1>5. Proper(q)
  BY <1>1, <1>2, <1>3, <1>4 DEF Proper
<1> QED BY <1>5 DEF q

(* What PrepareOpsAndTensors does to planner b from node first on: what    *)
(* the nodes that are prepared write gets memory of its new size for its   *)
(* interval, and everything else keeps its size, its memory and its place. *)
PreparedFrom(b, first) ==
    /\ Proper(planner') /\ FitsBound(planner') /\ planner'.arena.buffer = TRUE
    /\ next_to_plan' \in first + 1 .. NumNodes
    /\ bytes' \in [Tensors -> Sizes] /\ data' \in [Tensors -> Nat \cup {Null}]
    /\ \A t \in Tensors : planner'.alloc_node[t] \in first .. next_to_plan' - 1 /\ InArena(t) =>
          HasSize(planner', bytes', t)
    /\ \A t \in Tensors : planner'.alloc_node[t] \notin first .. next_to_plan' - 1 =>
          /\ planner'.alloc_node[t] = b.alloc_node[t]
          /\ planner'.dealloc_node[t] = b.dealloc_node[t]
          /\ planner'.allocs[t] = b.allocs[t]
          /\ bytes'[t] = bytes[t]
    /\ \A i \in first .. next_to_plan' - 1 : \A t \in Temps(i) : planner'.alloc_node[t] = i
    /\ \A t \in Tensors :
          /\ data'[t] = ResolveAlloc(planner', t, data'[t])
          /\ bytes'[t] = bytes[t] => data'[t] = ResolveAlloc(planner', t, data[t])

(* What planning from node first on leaves behind.                         *)
LEMMA PrepareFacts ==
    ASSUME IsLegal, bytes \in [Tensors -> Sizes], data \in [Tensors -> Nat \cup {Null}],
           NEW p, p = NoPlanner \/ Proper(p), NEW first \in NodeIds,
           PrepareOpsAndTensors(p, first, first)
    PROVE  PreparedFrom(Base(p), first)
<1> DEFINE last == LastPrepared(first)
           base == Base(p)
           ready == WithTemporaries(base, first, last)
<1>1. /\ last \in first .. NumNodes - 1 /\ first \in Int /\ last \in Int
      /\ first .. last \subseteq NodeIds /\ NumNodes \in Nat
  <2>1. last \in first .. NumNodes - 1
    BY LastPreparedType
  <2> HIDE DEF last
  <2> QED BY <2>1, GraphFacts DEF NodeIds
<1> DEFINE Done(size, order) ==
              /\ FitsBound(ExecuteAllocations(ready, size, order))
              /\ bytes' = size
              /\ planner' = ExecuteAllocations(ready, size, order)
              /\ data' = [t \in Tensors |-> ResolveAlloc(ExecuteAllocations(ready, size, order), t,
                                                        Resized(size)[t])]
              /\ next_to_plan' = last + 1
<1>0. PICK size \in PreparedSizes(first, last) :
          \E order \in AllocationVectors(ready, size, first, last) : Done(size, order)
  BY DEF PrepareOpsAndTensors, Base
<1>2. PICK order \in AllocationVectors(ready, size, first, last) : Done(size, order)
  BY <1>0
<1>3. /\ size \in [Tensors -> Sizes]
      /\ \A t \in Tensors : size[t] # bytes[t] =>
               \E i \in first .. last : t \in Node(i).outputs \cup Temps(i)
  <2> HIDE DEF last
  <2> QED BY <1>1, <1>2, PreparedSizesFacts
<1>4. Proper(base)
  BY BaseProper
<1> HIDE DEF last, base
<1>5. /\ ready \in Plans /\ ready.arena = base.arena /\ ready.persistent = base.persistent
      /\ ready.allocs = base.allocs
      /\ \A t \in Tensors : (\A i \in first .. last : t \notin Temps(i)) =>
            ready.alloc_node[t] = base.alloc_node[t] /\ ready.dealloc_node[t] = base.dealloc_node[t]
      /\ \A i \in first .. last : \A t \in Temps(i) :
            ready.alloc_node[t] = i /\ ready.dealloc_node[t] = i
  <2>1. base \in Plans
    BY <1>4 DEF Proper
  <2> HIDE DEF Done
  <2> QED BY <1>1, <2>1, TemporariesFacts
<1>6. Proper(ready)
  BY <1>1, <1>4, ReadyProper
<1> HIDE DEF ready
<1> DEFINE ts == {t \in Tensors : ready.alloc_node[t] \in first .. last}
           q == ExecuteAllocations(ready, size, order)
<1>7. order \in Seq(Tensors) /\ Elements(order) = ts
  <2>1. order \in SortedVectors(ready, size, ts)
    BY <1>2 DEF AllocationVectors
  <2>2. ts \in SUBSET Tensors /\ IsFiniteSet(Tensors)
    BY GraphFacts
  <2> HIDE DEF ts
  <2>3. IsFiniteSet(ts)
    BY <2>2, FS_Subset
  <2> QED BY <2>1, <2>2, <2>3, SortedVectorsFacts
<1>8. size \in [Tensors -> Nat]
  BY <1>3, PlannerAssumption
<1>9. /\ q \in Plans /\ SameLives(ready, q) /\ q.arena.buffer = TRUE
      /\ \A u \in Elements(order) : InArena(u) => HasSize(q, size, u)
      /\ \A u \in Tensors : u \notin Elements(order) \/ ~InArena(u) => q.allocs[u] = ready.allocs[u]
      /\ (\A u \in Tensors : Registered(ready, u)
                             /\ (ready.allocs[u].size # 0 => ready.allocs[u].tensor = u)) =>
                   \A u \in Tensors : Registered(q, u)
      /\ SoundPlans(ready) => SoundPlans(q)
  BY <1>5, <1>7, <1>8, ExecuteFacts DEF SameLives
<1>10. planner' = q
  BY <1>2
<1> HIDE DEF q, ts
<1>11. Proper(q)
  <2>1. SoundPlans(q) /\ \A u \in Tensors : Registered(q, u)
    BY <1>6, <1>9 DEF Proper
  <2>2. ASSUME NEW t \in Tensors, q.allocs[t].size # 0 PROVE q.allocs[t].tensor = t
    <3>1. CASE t \in Elements(order) /\ InArena(t)
      BY <1>9, <3>1 DEF HasSize
    <3>2. CASE t \notin Elements(order) \/ ~InArena(t)
      BY <1>6, <1>9, <2>2, <3>2 DEF Proper
    <3> QED BY <3>1, <3>2
  <2> QED BY <1>6, <1>9, <2>1, <2>2, LivesKept
<1>12. q.alloc_node = ready.alloc_node /\ q.dealloc_node = ready.dealloc_node
  BY <1>9 DEF SameLives
<1>13. last = next_to_plan' - 1 /\ next_to_plan' \in first + 1 .. NumNodes
  BY <1>1, <1>2
<1>14. \A t \in Tensors : t \in Elements(order) <=> q.alloc_node[t] \in first .. last
  BY <1>7, <1>12 DEF ts
<1>15. ASSUME NEW t \in Tensors, q.alloc_node[t] \notin first .. last
       PROVE  /\ q.alloc_node[t] = base.alloc_node[t] /\ q.dealloc_node[t] = base.dealloc_node[t]
              /\ q.allocs[t] = base.allocs[t] /\ size[t] = bytes[t]
  <2>1. q.allocs[t] = base.allocs[t]
    BY <1>5, <1>9, <1>14, <1>15
  <2>2. \A i \in first .. last : t \notin Temps(i)
    BY <1>5, <1>12, <1>15
  <2>3. q.alloc_node[t] = base.alloc_node[t] /\ q.dealloc_node[t] = base.dealloc_node[t]
    BY <1>5, <1>12, <2>2
  <2>4. ASSUME size[t] # bytes[t] PROVE FALSE
    <3>1. PICK i \in first .. last : t \in Node(i).outputs
      BY <1>3, <2>2, <2>4
    <3>2. i \in NodeIds
      BY <1>1
    <3>3. ~IsTemp(t)
      BY <3>1, <3>2, GraphFacts DEF IsTemp
    <3>4. q.alloc_node[t] = i
      BY <1>11, <3>1, <3>2, <3>3 DEF Proper, AllocExact
    <3> QED BY <1>15, <3>4
  <2> QED BY <2>1, <2>3, <2>4
<1>16. \A i \in first .. last : \A t \in Temps(i) : q.alloc_node[t] = i
  BY <1>5, <1>12
<1>17. /\ data' \in [Tensors -> Nat \cup {Null}]
       /\ \A t \in Tensors :
             /\ data'[t] = ResolveAlloc(q, t, data'[t])
             /\ size[t] = bytes[t] => data'[t] = ResolveAlloc(q, t, data[t])
  <2> DEFINE r == Resized(size)
  <2>1. /\ r \in [Tensors -> Nat \cup {Null}]
        /\ \A t \in Tensors : size[t] = bytes[t] => r[t] = data[t]
    BY DEF Resized, Heap
  <2>2. data' = [t \in Tensors |-> ResolveAlloc(q, t, r[t])]
    BY <1>2, <1>10
  <2>3. \A t \in Tensors : q.allocs[t].offset \in Nat
    BY <1>9, PlanFields DEF AllocRecords
  <2> HIDE DEF r
  <2>4. ASSUME NEW t \in Tensors
        PROVE  /\ ResolveAlloc(q, t, r[t]) \in Nat \cup {Null}
               /\ ResolveAlloc(q, t, ResolveAlloc(q, t, r[t])) = ResolveAlloc(q, t, r[t])
    BY <2>1, <2>3 DEF ResolveAlloc
  <2> QED BY <2>1, <2>2, <2>4
<1> QED BY <1>2, <1>3, <1>9, <1>10, <1>11, <1>13, <1>14, <1>15, <1>16, <1>17
        DEF base, q, PreparedFrom

(* Preparation that fails gives no memory to anybody.                      *)
LEMMA PrepareFailsFacts ==
    ASSUME IsLegal, bytes \in [Tensors -> Sizes], data \in [Tensors -> Nat \cup {Null}],
           NEW p, p = NoPlanner \/ Proper(p), NEW first \in NodeIds,
           PrepareFails(p, first)
    PROVE  /\ planner' = Base(p) /\ Proper(planner')
           /\ bytes' \in [Tensors -> Sizes] /\ data' \in [Tensors -> Nat \cup {Null}]
           /\ \A t \in Tensors : bytes'[t] = bytes[t] => data'[t] = data[t]
           /\ \A t \in Tensors : bytes'[t] # bytes[t] =>
                 \E i \in NodeIds : first <= i /\ t \in Node(i).outputs \cup Temps(i)
<1>1. planner' = Base(p) /\ Proper(planner')
  BY BaseProper DEF PrepareFails, Base
<1>2. PICK failing \in first .. LastPrepared(first) :
          \E size \in PreparedSizes(first, failing - 1) : bytes' = size /\ data' = Resized(size)
  BY DEF PrepareFails
<1>3. PICK size \in PreparedSizes(first, failing - 1) : bytes' = size /\ data' = Resized(size)
  BY <1>2
<1>4. /\ LastPrepared(first) \in first .. NumNodes - 1
  BY LastPreparedType
<1>5. /\ first \in Int /\ failing - 1 \in Int /\ first .. failing - 1 \subseteq NodeIds
      /\ \A i \in first .. failing - 1 : first <= i
  BY <1>4, GraphFacts DEF NodeIds
<1>6. /\ size \in [Tensors -> Sizes]
      /\ \A t \in Tensors : size[t] # bytes[t] =>
               \E i \in first .. failing - 1 : t \in Node(i).outputs \cup Temps(i)
  BY <1>5, PreparedSizesFacts
<1>7. /\ Resized(size) \in [Tensors -> Nat \cup {Null}]
      /\ \A t \in Tensors : size[t] = bytes[t] => Resized(size)[t] = data[t]
  BY DEF Resized, Heap
<1> QED BY <1>1, <1>3, <1>5, <1>6, <1>7

-----------------------------------------------------------------------------
(* Every tensor that a planned node allocates has memory of its present    *)
(* size for its interval, and its pointer goes there.  After a resize of   *)
(* the inputs that holds of the other tensors.                             *)
Current(t) == /\ InArena(t)
              /\ planner.alloc_node[t] \in 0 .. next_to_plan - 1
              /\ state = "invokable" \/ t \notin graph.inputs

TempsAssigned == \A i \in 0 .. next_to_plan - 1 : \A t \in Temps(i) : planner.alloc_node[t] = i
MemoryCurrent == \A t \in Tensors : Current(t) =>
                    /\ HasSize(planner, bytes, t)
                    /\ IsPersistent(t) \/ planner.arena.buffer =>
                          data[t] = ResolveAlloc(planner, t, data[t])

PlanInv ==
    /\ data \in [Tensors -> Nat \cup {Null}]
    /\ planner = NoPlanner \/ Proper(planner)
    /\ state = "invokable" => Proper(planner)
    /\ pc # "idle" => planner.arena.buffer = TRUE
    /\ Proper(planner) => TempsAssigned /\ MemoryCurrent

(* The same with values for the variables, which a step gives new ones.    *)
HoldsFor(p, size, d, n, t) ==
    InArena(t) /\ p.alloc_node[t] \in 0 .. n - 1 =>
        /\ HasSize(p, size, t)
        /\ IsPersistent(t) \/ p.arena.buffer => d[t] = ResolveAlloc(p, t, d[t])

(* Proper depends on the graph only, which no step changes.                *)
LEMMA ProperNext ==
    ASSUME graph' = graph PROVE Proper(planner)' <=> Proper(planner')
<1>1. Plans' = Plans
  BY GraphStays DEF Plans, ArenaRecords, AllocRecords
<1>2. SoundPlans(planner)' <=> SoundPlans(planner')
  BY DEF SoundPlans
<1>3. \A t : Registered(planner, t)' <=> Registered(planner', t)
  BY GraphStays DEF Registered, ArenaFor
<1>4. \A t, j : LastRead(t, j)' <=> LastRead(t, j)
  BY GraphStays DEF LastRead
<1>5. \A t : /\ AllocExact(planner, t)' <=> AllocExact(planner', t)
             /\ DeallocExact(planner, t)' <=> DeallocExact(planner', t)
             /\ IsTemp(t)' <=> IsTemp(t)
  BY <1>4, GraphStays DEF AllocExact, DeallocExact, IsTemp
<1> QED BY <1>1, <1>2, <1>3, <1>5, GraphStays DEF Proper

(* PlanInv after a step, from what the step does with the plan, sizes and  *)
(* pointers.                                                               *)
LEMMA PlanInvNext ==
    ASSUME graph' = graph, data' \in [Tensors -> Nat \cup {Null}],
           planner' = NoPlanner \/ Proper(planner'),
           state' = "invokable" => Proper(planner'),
           pc' # "idle" => planner'.arena.buffer = TRUE,
           Proper(planner') =>
              /\ \A i \in 0 .. next_to_plan' - 1 : \A t \in Temps(i) : planner'.alloc_node[t] = i
              /\ \A t \in Tensors : state' = "invokable" \/ t \notin graph.inputs =>
                    HoldsFor(planner', bytes', data', next_to_plan', t)
    PROVE  PlanInv'
<1>1. /\ Tensors' = Tensors /\ NodeIds' = NodeIds
      /\ \A i : Temps(i)' = Temps(i)
      /\ \A t : InArena(t)' = InArena(t) /\ IsRw(t)' = IsRw(t) /\ IsPersistent(t)' = IsPersistent(t)
  BY GraphStays
<1>2. Proper(planner)' <=> Proper(planner')
  BY ProperNext
<1>3. \A t : HasSize(planner, bytes, t)' <=> HasSize(planner', bytes', t)
  BY <1>1 DEF HasSize, LastNode
<1>4. \A t : ResolveAlloc(planner, t, data[t])' = ResolveAlloc(planner', t, data'[t])
  BY <1>1 DEF ResolveAlloc
<1>5. Proper(planner') => TempsAssigned'
  BY <1>1 DEF TempsAssigned
<1>6. Proper(planner') => MemoryCurrent'
  BY <1>1, <1>3, <1>4 DEF MemoryCurrent, Current, HoldsFor
<1> QED BY <1>1, <1>2, <1>5, <1>6 DEF PlanInv

(* A tensor keeps its memory when neither its allocation nor its size has  *)
(* changed.                                                                *)
LEMMA HoldsKept ==
    ASSUME NEW p, NEW q, NEW size, NEW size2, NEW d, NEW d2, NEW n \in Int, NEW n2 \in Int, NEW t,
           n2 <= n, HoldsFor(p, size, d, n, t), p.alloc_node[t] \in Nat,
           q.alloc_node[t] = p.alloc_node[t],
           InArena(t) /\ p.alloc_node[t] \in 0 .. n2 - 1 /\ HasSize(p, size, t) =>
              /\ q.dealloc_node[t] = p.dealloc_node[t] /\ q.allocs[t] = p.allocs[t]
              /\ q.arena.buffer = p.arena.buffer /\ size2[t] = size[t] /\ d2[t] = d[t]
    PROVE  HoldsFor(q, size2, d2, n2, t)
<1> SUFFICES ASSUME InArena(t), q.alloc_node[t] \in 0 .. n2 - 1
             PROVE  /\ HasSize(q, size2, t)
                    /\ IsPersistent(t) \/ q.arena.buffer => d2[t] = ResolveAlloc(q, t, d2[t])
  BY DEF HoldsFor
<1>1. p.alloc_node[t] \in 0 .. n - 1
  OBVIOUS
<1>2. HasSize(p, size, t) /\ (IsPersistent(t) \/ p.arena.buffer => d[t] = ResolveAlloc(p, t, d[t]))
  BY <1>1 DEF HoldsFor
<1> QED BY <1>2 DEF HasSize, LastNode, ResolveAlloc

(* A node that runs changes the sizes of dynamic tensors only.             *)
LEMMA RunFacts ==
    ASSUME IsLegal, bytes \in [Tensors -> Sizes], data \in [Tensors -> Nat \cup {Null}],
           NEW i, NEW size \in RunSizes(i)
    PROVE  /\ size \in [Tensors -> Sizes] /\ RunData(i) \in [Tensors -> Nat \cup {Null}]
           /\ \A t \in Tensors : InArena(t) => size[t] = bytes[t] /\ RunData(i)[t] = data[t]
<1> DEFINE dynamic == {t \in Node(i).outputs : IsDynamic(t)}
<1>1. PICK f \in [dynamic -> Sizes] :
            size = [t \in Tensors |-> IF t \in dynamic THEN f[t] ELSE bytes[t]]
  BY DEF RunSizes
<1>2. \A t : InArena(t) => ~IsDynamic(t)
  BY DEF InArena, IsRw, IsPersistent, IsDynamic
<1>3. \A t \in dynamic : IsDynamic(t)
  OBVIOUS
<1> HIDE DEF dynamic
<1>4. size \in [Tensors -> Sizes] /\ \A t \in Tensors : InArena(t) => size[t] = bytes[t]
  BY <1>1, <1>2, <1>3
<1>5. /\ RunData(i) \in [Tensors -> Nat \cup {Null}]
      /\ \A t \in Tensors : InArena(t) => RunData(i)[t] = data[t]
  BY <1>2 DEF RunData, Heap
<1> QED BY <1>4, <1>5

(* Every step keeps PlanInv.                                               *)
LEMMA PlanStep == DriverInv /\ PlanInv /\ [Next]_vars => PlanInv'
<1> SUFFICES ASSUME DriverInv, PlanInv, [Next]_vars PROVE PlanInv'
  OBVIOUS
<1> DEFINE At(n, t) == HoldsFor(planner, bytes, data, n, t)
           From == IF planner.exists THEN ResetAllocations(planner) ELSE planner
<1>1. /\ IsLegal /\ bytes \in [Tensors -> Sizes] /\ data \in [Tensors -> Nat \cup {Null}]
      /\ 0 \in NodeIds /\ exec \in NodeIds /\ next_to_plan \in Nat /\ exec \in Nat
      /\ next_to_plan = next_to_prepare /\ next_to_plan <= NumNodes /\ NumNodes \in Nat
  BY GraphFacts DEF DriverInv, PlanInv, NodeIds
<1>2. NoPlanner.exists = FALSE /\ (planner.exists => Proper(planner)) /\ ~Proper(NoPlanner)
  <2>1. NoPlanner.exists = FALSE
    BY DEF NoPlanner
  <2>2. \A p : Proper(p) => p.exists
    BY PlanFields DEF Proper
  <2> QED BY <2>1, <2>2 DEF PlanInv
<1>3. Proper(planner) =>
          /\ planner \in Plans /\ planner.arena.buffer \in BOOLEAN
          /\ \A t \in Tensors : planner.alloc_node[t] \in Nat
          /\ TempsAssigned
          /\ \A t \in Tensors : state = "invokable" \/ t \notin graph.inputs => At(next_to_plan, t)
  <2>1. Proper(planner) => planner \in Plans
    BY DEF Proper
  <2> QED BY <2>1, PlanFields DEF PlanInv, MemoryCurrent, Current, HoldsFor
<1>4. From = NoPlanner \/ Proper(From)
  BY <1>2, ResetProper DEF PlanInv
<1> HIDE DEF From
<1>5. ASSUME graph' = graph, planner' = planner, bytes' = bytes, data' = data,
             state' = state, next_to_plan' = next_to_plan,
             pc' # "idle" => planner.arena.buffer = TRUE
      PROVE  PlanInv'
  BY <1>1, <1>3, <1>5, PlanInvNext DEF PlanInv, TempsAssigned
<1>6. CASE UNCHANGED vars
  BY <1>5, <1>6 DEF vars, driverVars, PlanInv
<1>7. CASE AllocateTensors
  <2>1. PrepareOpsAndTensors(From, 0, 0) /\ graph' = graph /\ state' = "invokable" /\ pc' = "idle"
    BY <1>7 DEF AllocateTensors, From
  <2>2. /\ Proper(planner') /\ data' \in [Tensors -> Nat \cup {Null}]
        /\ \A t \in Tensors : planner'.alloc_node[t] \in 0 .. next_to_plan' - 1 /\ InArena(t) =>
               HasSize(planner', bytes', t)
        /\ \A i \in 0 .. next_to_plan' - 1 : \A t \in Temps(i) : planner'.alloc_node[t] = i
        /\ \A t \in Tensors : data'[t] = ResolveAlloc(planner', t, data'[t])
    <3>1. PreparedFrom(Base(From), 0)
      BY <1>1, <1>4, <2>1, PrepareFacts
    <3> QED BY <3>1 DEF PreparedFrom
  <2>3. \A t \in Tensors : HoldsFor(planner', bytes', data', next_to_plan', t)
    BY <2>2 DEF HoldsFor
  <2> QED BY <2>1, <2>2, <2>3, PlanInvNext
<1>8. CASE AllocateTensorsFails
  <2>1. /\ PrepareFails(From, 0) /\ graph' = graph /\ state' = state /\ pc' = "idle"
        /\ next_to_plan' = 0
    BY <1>8 DEF AllocateTensorsFails, From
  <2>2. Proper(planner') /\ data' \in [Tensors -> Nat \cup {Null}]
    BY <1>1, <1>4, <2>1, PrepareFailsFacts
  <2>3. \A i : i \notin 0 .. next_to_plan' - 1
    BY <2>1
  <2>4. \A t \in Tensors : HoldsFor(planner', bytes', data', next_to_plan', t)
    BY <2>3 DEF HoldsFor
  <2> QED BY <2>1, <2>2, <2>3, <2>4, PlanInvNext
<1>9. CASE AcquireNonPersistentMemory
  <2>1. /\ graph' = graph /\ bytes' = bytes /\ state' = state /\ next_to_plan' = next_to_plan
        /\ pc' = "idle" /\ state = "invokable"
        /\ planner' = WithBuffer(planner, TRUE)
        /\ data' = [t \in Tensors |-> IF IsRw(t) THEN ResolveAlloc(planner, t, data[t]) ELSE data[t]]
    BY <1>9 DEF AcquireNonPersistentMemory, driverVars, Committed, WithBuffer, MustAllocate, DriverInv
  <2>2. Proper(planner)
    BY <2>1 DEF PlanInv
  <2>3. Proper(planner') /\ SameLives(planner, planner') /\ planner'.allocs = planner.allocs
    BY <2>1, <2>2, BufferProper
  <2>4. \A t \in Tensors : planner.allocs[t].offset \in Nat
    BY <1>3, <2>2, PlanFields DEF AllocRecords
  <2>5. \A t \in Tensors : ResolveAlloc(planner, t, data[t]) \in Nat \cup {Null}
    BY <1>1, <2>4 DEF ResolveAlloc
  <2>6. data' \in [Tensors -> Nat \cup {Null}]
    BY <1>1, <2>1, <2>5
  <2>7. ASSUME NEW t \in Tensors, At(next_to_plan, t)
        PROVE  HoldsFor(planner', bytes', data', next_to_plan', t)
    <3> SUFFICES ASSUME InArena(t), planner.alloc_node[t] \in 0 .. next_to_plan - 1
                 PROVE  HasSize(planner', bytes', t) /\ data'[t] = ResolveAlloc(planner', t, data'[t])
      BY <2>1, <2>3 DEF HoldsFor, SameLives
    <3>1. HasSize(planner, bytes, t) /\ (IsPersistent(t) => data[t] = ResolveAlloc(planner, t, data[t]))
      BY <2>7 DEF HoldsFor
    <3>2. HasSize(planner', bytes', t)
      BY <2>1, <2>3, <3>1 DEF HasSize, LastNode, SameLives
    <3>3. data'[t] = ResolveAlloc(planner, t, data[t])
      BY <2>1, <3>1 DEF InArena
    <3>4. data'[t] = ResolveAlloc(planner', t, data'[t])
      BY <2>3, <3>3 DEF ResolveAlloc
    <3> QED BY <3>2, <3>4
  <2>8. \A i \in 0 .. next_to_plan' - 1 : \A t \in Temps(i) : planner'.alloc_node[t] = i
    BY <1>3, <2>1, <2>2, <2>3 DEF TempsAssigned, SameLives
  <2> QED BY <1>3, <2>1, <2>2, <2>3, <2>6, <2>7, <2>8, PlanInvNext
<1>10. CASE ReleaseNonPersistentMemory
  <2>1. /\ graph' = graph /\ bytes' = bytes /\ state' = state /\ next_to_plan' = next_to_plan
        /\ pc' = "idle" /\ planner.exists
        /\ planner' = WithBuffer(planner, FALSE)
        /\ data' = [t \in Tensors |-> IF IsRw(t) THEN Null ELSE data[t]]
    BY <1>10 DEF ReleaseNonPersistentMemory, driverVars, ReleasedBuffer, WithBuffer
  <2>2. Proper(planner)
    BY <1>2, <2>1
  <2>3. /\ Proper(planner') /\ SameLives(planner, planner') /\ planner'.allocs = planner.allocs
        /\ planner'.arena.buffer = FALSE
    BY <2>1, <2>2, BufferProper
  <2>4. data' \in [Tensors -> Nat \cup {Null}]
    BY <1>1, <2>1
  <2>5. ASSUME NEW t \in Tensors, At(next_to_plan, t)
        PROVE  HoldsFor(planner', bytes', data', next_to_plan', t)
    <3> SUFFICES ASSUME InArena(t), planner.alloc_node[t] \in 0 .. next_to_plan - 1
                 PROVE  /\ HasSize(planner', bytes', t)
                        /\ IsPersistent(t) => data'[t] = ResolveAlloc(planner', t, data'[t])
      BY <2>1, <2>3 DEF HoldsFor, SameLives
    <3>1. HasSize(planner, bytes, t) /\ (IsPersistent(t) => data[t] = ResolveAlloc(planner, t, data[t]))
      BY <2>5 DEF HoldsFor
    <3>2. HasSize(planner', bytes', t)
      BY <2>1, <2>3, <3>1 DEF HasSize, LastNode, SameLives
    <3>3. IsPersistent(t) => data'[t] = data[t]
      BY <2>1 DEF IsRw, IsPersistent
    <3> QED BY <2>3, <3>1, <3>2, <3>3 DEF ResolveAlloc
  <2>6. \A i \in 0 .. next_to_plan' - 1 : \A t \in Temps(i) : planner'.alloc_node[t] = i
    BY <1>3, <2>1, <2>2, <2>3 DEF TempsAssigned, SameLives
  <2> QED BY <1>3, <2>1, <2>2, <2>3, <2>4, <2>5, <2>6, PlanInvNext
<1>11. ASSUME NEW t \in graph.inputs, NEW n \in Sizes, ResizeInputTensor(t, n) PROVE PlanInv'
  <2>1. /\ graph' = graph /\ planner' = planner /\ next_to_plan' = next_to_plan /\ pc' = "idle"
        /\ state' = "uninvokable" /\ bytes' = [bytes EXCEPT ![t] = n]
        /\ data' = [data EXCEPT ![t] = IF InArena(t) THEN Null ELSE Heap]
    BY <1>11 DEF ResizeInputTensor
  <2>2. /\ data' \in [Tensors -> Nat \cup {Null}]
        /\ \A u \in Tensors : u \notin graph.inputs => bytes'[u] = bytes[u] /\ data'[u] = data[u]
    BY <1>1, <2>1 DEF Heap
  <2>3. ASSUME NEW u \in Tensors, u \notin graph.inputs, Proper(planner)
        PROVE  HoldsFor(planner', bytes', data', next_to_plan', u)
    <3>1. At(next_to_plan, u) /\ planner.alloc_node[u] \in Nat /\ next_to_plan \in Int
      BY <1>1, <1>3, <2>3
    <3>2. bytes'[u] = bytes[u] /\ data'[u] = data[u] /\ next_to_plan' <= next_to_plan
          /\ next_to_plan' \in Int
      BY <1>1, <2>1, <2>2, <2>3
    <3> QED BY <2>1, <3>1, <3>2, HoldsKept
  <2>4. /\ planner' = NoPlanner \/ Proper(planner')
        /\ Proper(planner') => \A i \in 0 .. next_to_plan' - 1 : \A u \in Temps(i) :
                                  planner'.alloc_node[u] = i
    BY <1>3, <2>1 DEF PlanInv, TempsAssigned
  <2> QED BY <2>1, <2>2, <2>3, <2>4, PlanInvNext
<1>12. CASE FeedInputs
  BY <1>5, <1>12 DEF FeedInputs, driverVars, PlanInv
<1>13. CASE InvokeStart
  <2>1. Proper(planner) /\ planner.arena.buffer
    BY <1>13 DEF InvokeStart, PlanInv, HasNonPersistentMemory
  <2> QED BY <1>3, <1>5, <1>13, <2>1 DEF InvokeStart
<1>14. CASE InvokeReturns
  BY <1>5, <1>14 DEF InvokeReturns, PlanInv
<1>15. CASE InvokePrepare
  <2>1. graph' = graph /\ state' = state /\ state = "invokable" /\ Proper(planner)
        /\ planner.arena.buffer = TRUE
    BY <1>15 DEF InvokePrepare, DriverInv, PlanInv
  <2>2. CASE exec = next_to_prepare
    <3>1. PrepareOpsAndTensors(planner, exec, exec)
      BY <1>1, <1>15, <2>2 DEF InvokePrepare
    <3>2. Base(planner) = planner
      BY <1>1, <2>1, BaseProper
    <3>3. /\ Proper(planner') /\ planner'.arena.buffer = TRUE
          /\ next_to_plan' \in exec + 1 .. NumNodes
          /\ data' \in [Tensors -> Nat \cup {Null}]
          /\ \A t \in Tensors : planner'.alloc_node[t] \in exec .. next_to_plan' - 1 /\ InArena(t) =>
                HasSize(planner', bytes', t)
          /\ \A t \in Tensors : planner'.alloc_node[t] \notin exec .. next_to_plan' - 1 =>
                /\ planner'.alloc_node[t] = planner.alloc_node[t]
                /\ planner'.dealloc_node[t] = planner.dealloc_node[t]
                /\ planner'.allocs[t] = planner.allocs[t]
                /\ bytes'[t] = bytes[t]
          /\ \A i \in exec .. next_to_plan' - 1 : \A t \in Temps(i) : planner'.alloc_node[t] = i
          /\ \A t \in Tensors : data'[t] = ResolveAlloc(planner', t, data'[t])
      <4>1. PreparedFrom(planner, exec)
        BY <1>1, <2>1, <3>1, <3>2, PrepareFacts
      <4> QED BY <4>1 DEF PreparedFrom
    <3>6. /\ \A i \in 0 .. next_to_plan' - 1 : i \in exec .. next_to_plan' - 1 \/ i \in 0 .. next_to_plan - 1
          /\ NodeNotAssigned \notin exec .. next_to_plan' - 1
      <4> DEFINE a == next_to_plan'
      <4>1. a \in exec + 1 .. NumNodes /\ exec \in Nat /\ next_to_plan = exec
            /\ NumNodes \in Nat /\ NumNodes <= NodeNotAssigned /\ NodeNotAssigned \in Nat
        BY <1>1, <2>2, <3>3, GraphFacts, NotAssignedIsNat
      <4> HIDE DEF a
      <4>2. /\ \A i \in 0 .. a - 1 : i \in exec .. a - 1 \/ i \in 0 .. next_to_plan - 1
            /\ NodeNotAssigned \notin exec .. a - 1
        BY <4>1
      <4> QED BY <4>2 DEF a
    <3>4. ASSUME NEW t \in Tensors PROVE HoldsFor(planner', bytes', data', next_to_plan', t)
      <4> SUFFICES ASSUME InArena(t), planner'.alloc_node[t] \in 0 .. next_to_plan' - 1
                   PROVE  HasSize(planner', bytes', t)
        BY <3>3 DEF HoldsFor
      <4>1. CASE planner'.alloc_node[t] \in exec .. next_to_plan' - 1
        BY <3>3, <4>1
      <4>2. CASE planner'.alloc_node[t] \notin exec .. next_to_plan' - 1
        <5>1. /\ planner'.alloc_node[t] = planner.alloc_node[t]
              /\ planner'.dealloc_node[t] = planner.dealloc_node[t]
              /\ planner'.allocs[t] = planner.allocs[t] /\ bytes'[t] = bytes[t]
          BY <3>3, <4>2
        <5>2. planner.alloc_node[t] \in 0 .. next_to_plan - 1
          BY <1>1, <2>2, <3>3, <4>2, <5>1
        <5>3. HasSize(planner, bytes, t)
          BY <1>3, <2>1, <5>2 DEF HoldsFor
        <5> QED BY <5>1, <5>3 DEF HasSize, LastNode
      <4> QED BY <4>1, <4>2
    <3>5. ASSUME NEW i \in 0 .. next_to_plan' - 1, NEW t \in Temps(i)
          PROVE  planner'.alloc_node[t] = i
      <4>1. i \in NodeIds /\ t \in Tensors
        BY <1>1, <3>3, GraphFacts DEF NodeIds
      <4>2. planner'.alloc_node[t] \in {i, NodeNotAssigned}
        BY <3>3, <4>1 DEF Proper
      <4>3. CASE i \in exec .. next_to_plan' - 1
        BY <3>3, <4>3
      <4>4. CASE i \notin exec .. next_to_plan' - 1
        <5>1. i \in 0 .. next_to_plan - 1
          BY <3>6, <4>4
        <5>2. planner.alloc_node[t] = i
          BY <1>3, <2>1, <5>1 DEF TempsAssigned
        <5> QED BY <3>3, <3>6, <4>1, <4>2, <5>2
      <4> QED BY <4>3, <4>4
    <3> QED BY <2>1, <3>3, <3>4, <3>5, PlanInvNext
  <2>3. CASE exec # next_to_prepare
    BY <1>5, <1>15, <2>1, <2>3 DEF InvokePrepare
  <2> QED BY <2>2, <2>3
<1>16. CASE InvokePrepareFails
  <2>1. /\ graph' = graph /\ state' = state /\ next_to_plan' = next_to_plan /\ pc' = "idle"
        /\ state = "invokable" /\ Proper(planner) /\ exec = next_to_plan
        /\ PrepareFails(planner, exec)
    BY <1>1, <1>16 DEF InvokePrepareFails, DriverInv, PlanInv
  <2>2. /\ planner' = planner /\ data' \in [Tensors -> Nat \cup {Null}]
        /\ \A t \in Tensors : bytes'[t] = bytes[t] => data'[t] = data[t]
        /\ \A t \in Tensors : bytes'[t] # bytes[t] =>
               \E i \in NodeIds : exec <= i /\ t \in Node(i).outputs \cup Temps(i)
    BY <1>1, <2>1, PrepareFailsFacts, BaseProper
  <2>3. ASSUME NEW t \in Tensors, planner.alloc_node[t] \in 0 .. exec - 1
        PROVE  bytes'[t] = bytes[t]
    <3> SUFFICES ASSUME NEW i \in NodeIds, exec <= i, t \in Node(i).outputs \cup Temps(i)
                 PROVE  FALSE
      BY <2>2
    <3>1. i \in Nat /\ NumNodes <= NodeNotAssigned /\ NodeNotAssigned \in Nat
      BY <1>1, GraphFacts, NotAssignedIsNat DEF NodeIds
    <3>2. planner.alloc_node[t] \in {i, NodeNotAssigned}
      <4>1. CASE t \in Temps(i)
        BY <2>1, <4>1 DEF Proper
      <4>2. CASE t \in Node(i).outputs
        <5>1. ~IsTemp(t)
          BY <1>1, <4>2, GraphFacts DEF IsTemp
        <5> QED BY <2>1, <4>2, <5>1 DEF Proper, AllocExact
      <4> QED BY <4>1, <4>2
    <3> QED BY <1>1, <2>1, <2>3, <3>1, <3>2
  <2>4. ASSUME NEW t \in Tensors PROVE HoldsFor(planner', bytes', data', next_to_plan', t)
    <3>1. /\ planner.alloc_node[t] \in Nat /\ At(next_to_plan, t)
          /\ next_to_plan \in Int /\ next_to_plan <= next_to_plan
      BY <1>1, <1>3, <2>1
    <3>2. planner.alloc_node[t] \in 0 .. next_to_plan - 1 => bytes'[t] = bytes[t] /\ data'[t] = data[t]
      BY <2>1, <2>2, <2>3
    <3> QED BY <2>1, <2>2, <3>1, <3>2, HoldsKept
  <2>5. Proper(planner') /\ \A i \in 0 .. next_to_plan' - 1 : \A t \in Temps(i) :
                               planner'.alloc_node[t] = i
    BY <1>3, <2>1, <2>2 DEF TempsAssigned
  <2> QED BY <2>1, <2>2, <2>4, <2>5, PlanInvNext
<1>17. CASE InvokeNode
  <2>1. graph' = graph /\ state' = state /\ state = "invokable" /\ Proper(planner)
        /\ planner.arena.buffer = TRUE
    BY <1>17 DEF InvokeNode, DriverInv, PlanInv
  <2>2. PICK size \in RunSizes(exec) :
            /\ bytes' = size
            /\ IF MustReplan(size)
               THEN /\ next_to_plan' = exec + 1
                    /\ planner' = ResetAllocationsAfter(planner, exec)
                    /\ data' = [t \in Tensors |-> IF t \in AllocatedAfter(planner, exec)
                                                  THEN Null ELSE RunData(exec)[t]]
               ELSE data' = RunData(exec) /\ UNCHANGED <<next_to_plan, planner>>
    BY <1>17 DEF InvokeNode
  <2>3. /\ RunData(exec) \in [Tensors -> Nat \cup {Null}]
        /\ \A t \in Tensors : InArena(t) => size[t] = bytes[t] /\ RunData(exec)[t] = data[t]
    BY <1>1, <2>2, RunFacts
  <2>4. CASE MustReplan(size)
    <3> DEFINE ts == AllocatedAfter(planner, exec)
    <3>1. /\ next_to_plan' = exec + 1 /\ planner' = ResetAllocationsAfter(planner, exec)
          /\ data' = [t \in Tensors |-> IF t \in ts THEN Null ELSE RunData(exec)[t]]
          /\ next_to_plan' <= next_to_plan /\ next_to_plan' \in Int /\ next_to_plan \in Int
      BY <1>1, <2>2, <2>4 DEF MustReplan
    <3>2. /\ Proper(planner') /\ SameLives(planner, planner')
          /\ planner'.arena.buffer = planner.arena.buffer
          /\ \A t \in Tensors : planner'.allocs[t] = IF t \in ts THEN ResetAlloc ELSE planner.allocs[t]
      BY <1>1, <2>1, <3>1, AfterFacts
    <3>3. data' \in [Tensors -> Nat \cup {Null}]
      BY <2>3, <3>1
    <3>4. ASSUME NEW t \in Tensors PROVE HoldsFor(planner', bytes', data', next_to_plan', t)
      <4>1. /\ planner.alloc_node[t] \in Nat /\ At(next_to_plan, t)
        BY <1>3, <2>1
      <4>2. ASSUME InArena(t), planner.alloc_node[t] \in 0 .. next_to_plan' - 1,
                   HasSize(planner, bytes, t)
            PROVE  /\ planner'.dealloc_node[t] = planner.dealloc_node[t]
                   /\ planner'.allocs[t] = planner.allocs[t]
                   /\ bytes'[t] = bytes[t] /\ data'[t] = data[t]
        <5>1. planner.allocs[t].first_node = planner.alloc_node[t]
          BY <4>2 DEF HasSize
        <5>2. ~(planner.allocs[t].first_node > exec)
          BY <1>1, <3>1, <4>2, <5>1
        <5>3. t \notin ts
          BY <5>2 DEF AllocatedAfter
        <5> HIDE DEF ts
        <5> QED BY <2>2, <2>3, <3>1, <3>2, <4>2, <5>3 DEF SameLives
      <4> HIDE DEF ts
      <4> QED BY <3>1, <3>2, <4>1, <4>2, HoldsKept DEF SameLives
    <3>5. \A i \in 0 .. next_to_plan' - 1 : \A t \in Temps(i) : planner'.alloc_node[t] = i
      BY <1>1, <1>3, <2>1, <3>1, <3>2 DEF TempsAssigned, SameLives
    <3> QED BY <2>1, <3>2, <3>3, <3>4, <3>5, PlanInvNext
  <2>5. CASE ~MustReplan(size)
    <3>1. data' = RunData(exec) /\ next_to_plan' = next_to_plan /\ planner' = planner
      BY <2>2, <2>5
    <3>2. ASSUME NEW t \in Tensors PROVE HoldsFor(planner', bytes', data', next_to_plan', t)
      <4>1. /\ planner.alloc_node[t] \in Nat /\ At(next_to_plan, t)
            /\ next_to_plan \in Int /\ next_to_plan <= next_to_plan
        BY <1>1, <1>3, <2>1
      <4>2. InArena(t) => bytes'[t] = bytes[t] /\ data'[t] = data[t]
        BY <2>2, <2>3, <3>1
      <4> QED BY <3>1, <4>1, <4>2, HoldsKept
    <3>3. \A i \in 0 .. next_to_plan' - 1 : \A t \in Temps(i) : planner'.alloc_node[t] = i
      BY <1>3, <2>1, <3>1 DEF TempsAssigned
    <3> QED BY <2>1, <2>3, <3>1, <3>2, <3>3, PlanInvNext
  <2> QED BY <2>4, <2>5
<1>18. CASE InvokeNodeFails
  <2>1. /\ graph' = graph /\ state' = state /\ state = "invokable" /\ Proper(planner)
        /\ pc' = "idle" /\ planner' = planner /\ next_to_plan' = next_to_plan
        /\ \/ bytes' = bytes /\ data' = data
           \/ bytes' \in RunSizes(exec) /\ data' = RunData(exec)
    BY <1>18 DEF InvokeNodeFails, DriverInv, PlanInv
  <2>2. /\ data' \in [Tensors -> Nat \cup {Null}]
        /\ \A t \in Tensors : InArena(t) => bytes'[t] = bytes[t] /\ data'[t] = data[t]
    <3>1. CASE bytes' = bytes /\ data' = data
      BY <1>1, <3>1
    <3>2. CASE bytes' \in RunSizes(exec) /\ data' = RunData(exec)
      BY <1>1, <3>2, RunFacts
    <3> QED BY <2>1, <3>1, <3>2
  <2>3. ASSUME NEW t \in Tensors PROVE HoldsFor(planner', bytes', data', next_to_plan', t)
    <3>1. /\ planner.alloc_node[t] \in Nat /\ At(next_to_plan, t)
          /\ next_to_plan \in Int /\ next_to_plan <= next_to_plan
      BY <1>1, <1>3, <2>1
    <3> QED BY <2>1, <2>2, <3>1, HoldsKept
  <2>4. \A i \in 0 .. next_to_plan' - 1 : \A t \in Temps(i) : planner'.alloc_node[t] = i
    BY <1>3, <2>1 DEF TempsAssigned
  <2> QED BY <2>1, <2>2, <2>3, <2>4, PlanInvNext
<1> QED BY <1>6, <1>7, <1>8, <1>9, <1>10, <1>11, <1>12, <1>13, <1>14, <1>15, <1>16, <1>17, <1>18
        DEF Next

(* PlanInv holds in a new subgraph, which has no planner.                  *)
LEMMA PlanInit == Init => PlanInv
<1> SUFFICES ASSUME Init PROVE PlanInv
  OBVIOUS
<1>1. data \in [Tensors -> Nat \cup {Null}]
  BY DEF Init, Heap
<1>2. ~Proper(planner)
  <2>1. planner.exists = FALSE
    BY DEF Init, NoPlanner
  <2> QED BY <2>1, PlanFields DEF Proper
<1> QED BY <1>1, <1>2 DEF Init, PlanInv

(* The counters and the plan are in order in every behaviour.              *)
LEMMA InvariantsHold == Spec => [](DriverInv /\ PlanInv)
  BY DriverInit, DriverStep, PlanInit, PlanStep, PTL DEF Spec

(* The flags of the user, and the nodes that have filled in a constant.    *)
FlagsInv == fed \in BOOLEAN /\ done \in BOOLEAN /\ initialized \subseteq NodeIds

(* Every step keeps FlagsInv.                                              *)
LEMMA FlagsStep == DriverInv /\ FlagsInv /\ [Next]_vars => FlagsInv'
<1> SUFFICES ASSUME DriverInv, FlagsInv, [Next]_vars PROVE FlagsInv'
  OBVIOUS
<1>1. graph' = graph /\ fed' \in BOOLEAN /\ done' \in BOOLEAN
      /\ initialized' \subseteq initialized \cup {exec}
  <2>1. CASE UNCHANGED vars
    BY <2>1 DEF vars, userVars, FlagsInv
  <2>2. CASE AllocateTensors \/ AllocateTensorsFails \/ FeedInputs \/ InvokeStart
    BY <2>2 DEF AllocateTensors, AllocateTensorsFails, FeedInputs, InvokeStart, FlagsInv
  <2>3. CASE AcquireNonPersistentMemory \/ ReleaseNonPersistentMemory \/ InvokePrepare
    BY <2>3 DEF AcquireNonPersistentMemory, ReleaseNonPersistentMemory, InvokePrepare, userVars,
       FlagsInv
  <2>4. CASE \E t \in graph.inputs, n \in Sizes : ResizeInputTensor(t, n)
    BY <2>4 DEF ResizeInputTensor, FlagsInv
  <2>5. CASE InvokePrepareFails \/ InvokeReturns \/ InvokeNodeFails
    BY <2>5 DEF InvokePrepareFails, InvokeReturns, InvokeNodeFails, userVars, FlagsInv
  <2>6. CASE InvokeNode
    BY <2>6 DEF InvokeNode, NextNode, FlagsInv
  <2> QED BY <2>1, <2>2, <2>3, <2>4, <2>5, <2>6 DEF Next
<1> QED BY <1>1, GraphStays DEF DriverInv, FlagsInv

(* TypeOK, for every graph in execution order: sizes stay among those the  *)
(* nodes may choose, pointers are null or offsets, and the counters of     *)
(* Subgraph never leave the execution plan.                                *)
THEOREM PlannerTypeCorrect == Spec => []TypeOK
<1>1. Init => FlagsInv
  BY DEF Init, FlagsInv
<1>2. DriverInv /\ PlanInv /\ FlagsInv => TypeOK
  <2> SUFFICES ASSUME DriverInv, PlanInv, FlagsInv PROVE TypeOK
    OBVIOUS
  <2>1. Given \cup graph.outputs \subseteq Tensors
    BY GraphFacts DEF DriverInv
  <2> QED BY <2>1 DEF TypeOK, DriverInv, PlanInv, FlagsInv, NodeIds, Given
<1> QED BY <1>1, <1>2, InvariantsHold, FlagsStep, PTL DEF Spec

(* The last node that reads a tensor, if nothing else keeps it.            *)
LEMMA LastReadExists ==
    ASSUME IsLegal, NEW t \in Tensors, t \notin Given \cup graph.outputs,
           \E w \in NodeIds : t \in Node(w).outputs, \E r \in NodeIds : t \in NodeInputs(r)
    PROVE  \E j \in NodeIds : LastRead(t, j)
<1> DEFINE n == NumNodes
           Behind == {k \in 0 .. n : n - k \in NodeIds /\ t \in NodeInputs(n - k)}
<1>1. n \in Nat /\ \A i \in NodeIds : i \in Nat /\ n - i \in 0 .. n /\ n - (n - i) = i
  BY GraphFacts DEF NodeIds
<1>2. Behind \in SUBSET Nat
  BY <1>1
<1>3. \A i \in NodeIds : t \in NodeInputs(i) => n - i \in Behind
  BY <1>1
<1>4. Behind # {}
  BY <1>3
<1>5. PICK x \in Behind : \A y \in Behind : ~(y < x)
  BY <1>2, <1>4, Smallest
<1>6. x \in Nat /\ n - x \in NodeIds /\ t \in NodeInputs(n - x)
  BY <1>2, <1>5
<1>7. \A m \in NodeIds : n - x < m => t \notin NodeInputs(m)
  <2> SUFFICES ASSUME NEW m \in NodeIds, n - x < m, t \in NodeInputs(m) PROVE FALSE
    OBVIOUS
  <2>1. n - m \in Behind
    BY <1>3
  <2>2. n - m < x
    BY <1>1, <1>6
  <2> QED BY <1>5, <2>1, <2>2
<1> QED BY <1>6, <1>7 DEF LastRead

(* LifetimesExact: counting references gives every tensor that is not a    *)
(* temporary the interval from its first writer to its last reader, for    *)
(* graphs of any size, through resets, failures and replanning.            *)
THEOREM LifetimesAreExact == Spec => []LifetimesExact
<1>1. DriverInv /\ PlanInv => LifetimesExact
  <2> SUFFICES ASSUME DriverInv, PlanInv, planner.exists, NEW t \in Tensors, ~IsTemp(t)
               PROVE  LET writers == {i \in NodeIds : t \in Node(i).outputs}
                          readers == {i \in NodeIds : t \in NodeInputs(i)}
                          kept    == t \in Given \cup graph.outputs
                      IN  /\ planner.alloc_node[t] = IF t \in Given THEN 0
                                                     ELSE IF writers = {} THEN NodeNotAssigned
                                                          ELSE Min(writers)
                          /\ planner.dealloc_node[t] =
                                IF kept \/ readers = {} \/ writers = {} THEN NodeNotAssigned
                                ELSE Max(readers)
    BY DEF LifetimesExact, IsTemp, Temps, NodeIds, Given
  <2> DEFINE writers == {i \in NodeIds : t \in Node(i).outputs}
             readers == {i \in NodeIds : t \in NodeInputs(i)}
             kept    == t \in Given \cup graph.outputs
  <2>1. IsLegal /\ AllocExact(planner, t) /\ DeallocExact(planner, t)
    <3>1. planner # NoPlanner
      BY DEF NoPlanner
    <3> QED BY <3>1 DEF DriverInv, PlanInv, Proper
  <2>2. NodeIds \subseteq Int
    BY DEF NodeIds
  <2>3. planner.alloc_node[t] = IF t \in Given THEN 0
                                ELSE IF writers = {} THEN NodeNotAssigned ELSE Min(writers)
    <3>1. CASE t \in Given \/ writers = {}
      BY <2>1, <3>1 DEF AllocExact
    <3>2. CASE t \notin Given /\ writers # {}
      <4>1. PICK i \in NodeIds : t \in Node(i).outputs
        BY <3>2
      <4>2. \A j \in NodeIds : t \in Node(j).outputs => j = i
        BY <2>1, <4>1, GraphFacts
      <4>3. writers = {i} /\ i \in Int
        BY <2>2, <4>1, <4>2
      <4> HIDE DEF writers
      <4>4. Min(writers) = i
        BY <4>3 DEF Min
      <4> QED BY <2>1, <3>2, <4>1, <4>4 DEF AllocExact
    <3> QED BY <3>1, <3>2
  <2>4. planner.dealloc_node[t] = IF kept \/ readers = {} \/ writers = {} THEN NodeNotAssigned
                                  ELSE Max(readers)
    <3>1. CASE kept \/ readers = {} \/ writers = {}
      <4>1. \A j \in NodeIds : ~LastRead(t, j)
        BY <3>1 DEF LastRead
      <4> QED BY <2>1, <3>1, <4>1 DEF DeallocExact
    <3>2. CASE ~(kept \/ readers = {} \/ writers = {})
      <4>1. PICK j \in NodeIds : LastRead(t, j)
        BY <2>1, <3>2, LastReadExists
      <4>2. j \in readers /\ \A i \in readers : ~(j < i) /\ i \in Int /\ j \in Int
        BY <2>2, <4>1 DEF LastRead
      <4> HIDE DEF readers
      <4>3. Max(readers) = j
        BY <4>2 DEF Max
      <4> QED BY <2>1, <3>2, <4>1, <4>3 DEF DeallocExact
    <3> QED BY <3>1, <3>2
  <2> QED BY <2>3, <2>4
<1> QED BY <1>1, InvariantsHold, PTL

(* The tensors of the node that is about to run.                           *)
LEMMA RunningFacts ==
    ASSUME DriverInv, PlanInv, pc = "run",
           NEW t \in NodeInputs(exec) \cup Node(exec).outputs \cup Temps(exec), InArena(t)
    PROVE  /\ t \in Tensors /\ Proper(planner) /\ planner.alloc_node[t] \in 0 .. exec
           /\ t \in Temps(exec) => planner.alloc_node[t] = exec
           /\ HasSize(planner, bytes, t)
           /\ data[t] = ResolveAlloc(planner, t, data[t])
<1>1. /\ IsLegal /\ exec \in NodeIds /\ exec \in Nat /\ exec < next_to_plan
      /\ next_to_plan \in Nat /\ Proper(planner) /\ planner.arena.buffer = TRUE
      /\ state = "invokable"
  BY GraphFacts DEF DriverInv, PlanInv, NodeIds
<1>2. /\ t \in Tensors /\ planner.alloc_node[t] \in 0 .. exec
      /\ t \in Temps(exec) => planner.alloc_node[t] = exec
  <2>1. CASE t \in Temps(exec)
    <3>1. exec \in 0 .. next_to_plan - 1
      BY <1>1
    <3>2. t \in Tensors /\ planner.alloc_node[t] = exec
      BY <1>1, <2>1, <3>1, GraphFacts DEF PlanInv, TempsAssigned
    <3> QED BY <1>1, <3>2
  <2>2. CASE t \notin Temps(exec)
    <3>1. t \in Tensors /\ ~IsTemp(t)
      BY <1>1, <2>2, GraphFacts DEF IsTemp
    <3>2. t \in Given \/ \E j \in NodeIds : t \in Node(j).outputs /\ j <= exec
      <4>1. CASE t \in Node(exec).outputs
        BY <1>1, <4>1
      <4>2. CASE t \in NodeInputs(exec) /\ t \notin Given
        <5>1. PICK j \in NodeIds : t \in Node(j).outputs
          BY <1>1, <4>2, GraphFacts
        <5>2. ~(exec <= j)
          BY <1>1, <4>2, <5>1, GraphFacts
        <5> QED BY <1>1, <5>1, <5>2 DEF NodeIds
      <4> QED BY <2>2, <4>1, <4>2
    <3>3. AllocExact(planner, t)
      BY <1>1, <3>1 DEF Proper
    <3>4. 0 \in 0 .. exec /\ \A j \in NodeIds : j <= exec => j \in 0 .. exec
      BY <1>1 DEF NodeIds
    <3> QED BY <2>2, <3>1, <3>2, <3>3, <3>4 DEF AllocExact
  <2> QED BY <2>1, <2>2
<1>3. Current(t)
  BY <1>1, <1>2 DEF Current
<1> QED BY <1>1, <1>2, <1>3 DEF PlanInv, MemoryCurrent

(* ReadyToRun: whenever a node is about to run, it has been prepared and   *)
(* planned, and all that it reads and writes in the arenas has memory of   *)
(* exactly its size.                                                       *)
THEOREM RunsWithMemory == Spec => []ReadyToRun
<1>1. DriverInv /\ PlanInv => ReadyToRun
  <2> SUFFICES ASSUME DriverInv, PlanInv, pc = "run",
                      NEW t \in NodeInputs(exec) \cup Node(exec).outputs \cup Temps(exec),
                      InArena(t), bytes[t] > 0
               PROVE  data[t] = planner.allocs[t].offset /\ planner.allocs[t].size = bytes[t]
    BY DEF DriverInv, ReadyToRun, Temps
  <2>1. HasSize(planner, bytes, t) /\ data[t] = ResolveAlloc(planner, t, data[t])
    BY RunningFacts
  <2>2. planner.allocs[t].size = bytes[t] /\ bytes[t] # 0
    BY <2>1 DEF HasSize
  <2> QED BY <2>1, <2>2 DEF ResolveAlloc, InArena
<1> QED BY <1>1, InvariantsHold, PTL

-----------------------------------------------------------------------------
(* Values in use.  Two kinds of graphs are left out here: those with a     *)
(* dynamic input, of which a failed AllocateTensors leaves the subgraph    *)
(* invokable with no memory planned, and those with a node that fills in a *)
(* constant output once, which may lose it (see PersistentAcrossEval).     *)
PlainGraph == ~HasDynamicInputs /\ \A i \in NodeIds : ~Node(i).constant

(* No step changes the graph, so a plain one stays plain.                  *)
LEMMA PlainStays == PlainGraph /\ [Next]_vars => PlainGraph'
<1> SUFFICES ASSUME PlainGraph, [Next]_vars PROVE PlainGraph'
  OBVIOUS
<1>1. graph' = graph
  BY DEF Next, vars, AllocateTensors, AllocateTensorsFails, AcquireNonPersistentMemory,
         ReleaseNonPersistentMemory, ResizeInputTensor, FeedInputs, InvokeStart, InvokePrepare,
         InvokePrepareFails, InvokeReturns, InvokeNode, InvokeNodeFails
<1> QED BY <1>1 DEF PlainGraph, HasDynamicInputs, IsDynamic, NodeIds, NumNodes, Node

(* The memory of t is that of its size, and its pointer goes there.        *)
Held(p, size, d, t) == HasSize(p, size, t) /\ d[t] = p.allocs[t].offset

(* The interval of t contains node i.                                      *)
Covers(p, t, i) == p.allocs[t].first_node <= i /\ i <= p.allocs[t].last_node

Fits(p) == \A a \in Elements(p.arena.allocs) \cup Elements(p.persistent.allocs) : End(a) <= MaxMemory

(* FitsBound says that every entry ends within the memory.                 *)
LEMMA FitsMeaning ==
    ASSUME NEW p \in Plans PROVE FitsBound(p) <=> Fits(p)
<1>1. ASSUME NEW s \in Seq(AllocRecords) PROVE ToSet(s) = Elements(s)
  <2>1. DOMAIN s = 1 .. Len(s)
    BY LenProperties
  <2> QED BY <2>1 DEF ToSet, Elements
<1>2. ToSet(p.arena.allocs) = Elements(p.arena.allocs)
      /\ ToSet(p.persistent.allocs) = Elements(p.persistent.allocs)
  BY <1>1, PlanFields
<1> QED BY <1>2 DEF FitsBound, Fits

(* Two tensors of one arena that some node needs both share no byte.       *)
LEMMA HeldApart ==
    ASSUME NEW p, Proper(p), NEW size \in [Tensors -> Nat], NEW d, NEW i \in Int,
           NEW t \in Tensors, NEW u \in Tensors, t # u, IsPersistent(t) <=> IsPersistent(u),
           InArena(t), InArena(u), size[t] # 0, size[u] # 0,
           Held(p, size, d, t), Held(p, size, d, u), Covers(p, t, i), Covers(p, u, i)
    PROVE  d[t] + size[t] <= d[u] \/ d[u] + size[u] <= d[t]
<1> DEFINE s == ArenaFor(p, t).allocs
           a == p.allocs[t]
           b == p.allocs[u]
<1>1. /\ a \in Elements(s) /\ b \in Elements(s)
      /\ a.tensor = t /\ b.tensor = u /\ a.size = size[t] /\ b.size = size[u]
  BY DEF Proper, Registered, Held, HasSize, ArenaFor
<1>2. SoundPlan(s)
  BY DEF Proper, SoundPlans, ArenaFor
<1>3. a \in AllocRecords /\ b \in AllocRecords
  BY PlanFields DEF Proper
<1>4. d[t] = a.offset /\ d[u] = b.offset
  BY DEF Held
<1>5. a.first_node <= i /\ i <= a.last_node /\ b.first_node <= i /\ i <= b.last_node
  BY DEF Covers
<1> HIDE DEF s, a, b
<1>6. Apart(a, b) \/ ClearOf(a, b.offset, b.size)
  BY <1>1, <1>2 DEF SoundPlan
<1>7. /\ a.first_node \in Int /\ a.last_node \in Int /\ b.first_node \in Int /\ b.last_node \in Int
      /\ a.offset \in Nat /\ a.size \in Nat /\ b.offset \in Nat /\ b.size \in Nat
  BY <1>3 DEF AllocRecords
<1>8. ~Apart(a, b)
  BY <1>5, <1>7 DEF Apart
<1>9. a.offset + a.size <= b.offset \/ b.offset + b.size <= a.offset
  BY <1>6, <1>7, <1>8 DEF ClearOf, End
<1> QED BY <1>1, <1>4, <1>9

MemoryShape == /\ DOMAIN memory = {"arena", "persistent"}
               /\ \A a \in {"arena", "persistent"} : DOMAIN memory[a] = 0 .. MaxMemory - 1

(* The value of t is what memory mem holds at its pointer.                 *)
IntactIn(mem, d, size, t) ==
    /\ d[t] # Null
    /\ \A b \in d[t] .. d[t] + size[t] - 1 : mem[ArenaOf(t)][b] = t

(* A write of ts leaves the value of t alone, if some node needs t and all *)
(* of ts.                                                                  *)
LEMMA WriteIntact ==
    ASSUME MemoryShape, NEW p, Proper(p), FitsBound(p), NEW size \in [Tensors -> Nat],
           NEW d \in [Tensors -> Nat \cup {Null}], NEW i \in Int, NEW ts \in SUBSET Tensors,
           \A u \in ts : InArena(u) /\ size[u] # 0 => Held(p, size, d, u) /\ Covers(p, u, i),
           NEW t \in Tensors, InArena(t), size[t] # 0, Held(p, size, d, t), Covers(p, t, i),
           t \in ts \/ IntactIn(memory, d, size, t)
    PROVE  IntactIn(Written(d, size, ts), d, size, t)
<1>0. d[t] \in d[t] .. d[t] + size[t] - 1
  <2> DEFINE x == d[t]
             n == size[t]
  <2>1. x \in Int /\ n \in Nat /\ n # 0
    BY DEF Null
  <2> HIDE DEF x, n
  <2>2. x \in x .. x + n - 1
    BY <2>1
  <2> QED BY <2>2 DEF x, n
<1> SUFFICES ASSUME NEW b \in d[t] .. d[t] + size[t] - 1
             PROVE  d[t] # Null /\ Written(d, size, ts)[ArenaOf(t)][b] = t
  BY <1>0 DEF IntactIn
<1> DEFINE A == ArenaOf(t)
           a == p.allocs[t]
           here == {u \in ts : /\ InArena(u) /\ ArenaOf(u) = A /\ d[u] # Null
                               /\ b \in d[u] .. d[u] + size[u] - 1}
<1>1. /\ a.offset \in Nat /\ a.size = size[t] /\ d[t] = a.offset /\ a.size \in Nat
      /\ a \in Elements(ArenaFor(p, t).allocs)
  <2>1. a \in AllocRecords
    BY PlanFields DEF Proper
  <2> QED BY <2>1 DEF Proper, Registered, Held, HasSize, AllocRecords
<1>2. d[t] \in Nat /\ d[t] # Null
  BY <1>1 DEF Null
<1>3. A \in DOMAIN memory /\ b \in DOMAIN memory[A]
  <2>1. End(a) <= MaxMemory
    BY <1>1, FitsMeaning DEF Proper, Fits, ArenaFor
  <2>2. MaxMemory \in Nat
    BY PlannerAssumption
  <2>3. b \in 0 .. MaxMemory - 1
    <3> DEFINE o == a.offset
               n == a.size
    <3>1. o \in Nat /\ n \in Nat /\ o + n <= MaxMemory /\ b \in o .. o + n - 1
      BY <1>1, <2>1 DEF End
    <3> HIDE DEF o, n
    <3> QED BY <2>2, <3>1
  <2> QED BY <2>3 DEF MemoryShape, ArenaOf
<1>4. ASSUME NEW u \in here PROVE u = t
  <2>1. u \in Tensors /\ InArena(u) /\ ArenaOf(u) = A /\ size[u] \in Nat
        /\ b \in d[u] .. d[u] + size[u] - 1
    OBVIOUS
  <2>2. \/ size[u] = 0
        \/ Held(p, size, d, u) /\ Covers(p, u, i)
    BY <1>4
  <2>3. d[u] \in Nat \/ size[u] = 0
    <3>1. p.allocs[u] \in AllocRecords
      BY <2>1, PlanFields DEF Proper
    <3> QED BY <2>2, <3>1 DEF Held, AllocRecords
  <2>4. size[u] # 0
    <3>1. d[u] \in Int
      BY <2>1 DEF Null
    <3> QED BY <2>1, <3>1
  <2>5. IsPersistent(t) <=> IsPersistent(u)
    BY <2>1 DEF ArenaOf
  <2> SUFFICES ASSUME u # t PROVE FALSE
    OBVIOUS
  <2>6. d[t] + size[t] <= d[u] \/ d[u] + size[u] <= d[t]
    BY <2>1, <2>2, <2>4, <2>5, HeldApart
  <2> QED BY <1>2, <2>1, <2>3, <2>4, <2>6
<1>5. t \in ts => t \in here
  BY <1>2
<1>6. here = IF t \in ts THEN {t} ELSE {}
  <2>1. here \subseteq ts
    OBVIOUS
  <2> HIDE DEF here
  <2> QED BY <1>4, <1>5, <2>1
<1>7. Written(d, size, ts)[A][b] = IF here = {} THEN memory[A][b] ELSE CHOOSE u \in here : TRUE
  BY <1>3 DEF Written
<1> HIDE DEF here, A
<1>8. Written(d, size, ts)[A][b] = IF t \in ts THEN t ELSE memory[A][b]
  BY <1>6, <1>7
<1>9. t \notin ts => memory[A][b] = t
  BY DEF IntactIn, A
<1> QED BY <1>2, <1>8, <1>9 DEF A

(* When the user may rely on inputs and outputs: their memory is there,    *)
(* and the part of the graph that it takes is planned.                     *)
UseInv ==
    /\ FlagsInv /\ initialized = {}
    /\ Proper(planner) => Fits(planner)
    /\ fed => state = "invokable" /\ planner.arena.buffer = TRUE
    /\ done => /\ pc = "idle" /\ next_to_plan = NumNodes
               /\ Proper(planner) /\ planner.arena.buffer = TRUE
    /\ state = "invokable" => next_to_plan # 0

(* An arena that has fewer entries still fits.                             *)
LEMMA FitsKept ==
    ASSUME NEW p, NEW q, Fits(p), Elements(q.arena.allocs) \subseteq Elements(p.arena.allocs),
           q.persistent = p.persistent
    PROVE  Fits(q)
  BY DEF Fits

(* An arena without entries fits.                                          *)
LEMMA BlankFits ==
    ASSUME NEW p, Blank(p) PROVE Fits(p)
<1>1. Elements(<<>>) = {}
  BY DEF Elements
<1> QED BY <1>1 DEF Blank, Fits

(* Every step keeps UseInv.                                                *)
LEMMA UseStep == PlainGraph /\ DriverInv /\ PlanInv /\ UseInv /\ [Next]_vars => UseInv'
<1> SUFFICES ASSUME PlainGraph, DriverInv, PlanInv, UseInv, [Next]_vars PROVE UseInv'
  OBVIOUS
<1> DEFINE From == IF planner.exists THEN ResetAllocations(planner) ELSE planner
<1>1. /\ IsLegal /\ bytes \in [Tensors -> Sizes] /\ data \in [Tensors -> Nat \cup {Null}]
      /\ 0 \in NodeIds /\ exec \in NodeIds /\ next_to_plan \in Nat /\ exec \in Nat
      /\ next_to_plan = next_to_prepare /\ next_to_plan <= NumNodes /\ NumNodes \in Nat
  BY GraphFacts DEF DriverInv, PlanInv, NodeIds
<1>2. ~HasDynamicInputs /\ \A i \in NodeIds : ~Node(i).constant
  BY DEF PlainGraph
<1>3. FlagsInv' /\ DriverInv' /\ PlanInv'
  BY FlagsStep, DriverStep, PlanStep DEF UseInv
<1>4. Proper(planner) => planner \in Plans /\ planner.arena.buffer \in BOOLEAN
  <2>1. Proper(planner) => planner \in Plans
    BY DEF Proper
  <2> QED BY <2>1, PlanFields
<1>5. /\ From = NoPlanner \/ Proper(From)
      /\ Proper(From) => Blank(From)
      /\ planner.exists => Proper(planner)
  <2>1. NoPlanner.exists = FALSE
    BY DEF NoPlanner
  <2>2. \A p : Proper(p) => p.exists
    BY PlanFields DEF Proper
  <2>3. planner.exists => Proper(planner)
    BY <2>1 DEF PlanInv
  <2>4. Proper(planner) => Proper(ResetAllocations(planner)) /\ Blank(ResetAllocations(planner))
    BY <1>4, ResetProper, ResetFacts
  <2> QED BY <2>1, <2>2, <2>3, <2>4 DEF PlanInv
<1> HIDE DEF From
<1>6. ASSUME graph' = graph, initialized' = {}, Proper(planner') => Fits(planner'),
             fed' => state' = "invokable" /\ planner'.arena.buffer = TRUE,
             done' => /\ pc' = "idle" /\ next_to_plan' = NumNodes
                      /\ Proper(planner') /\ planner'.arena.buffer = TRUE,
             state' = "invokable" => next_to_plan' # 0
      PROVE  UseInv'
  <2>1. NumNodes' = NumNodes /\ (Proper(planner)' <=> Proper(planner'))
    BY <1>6, GraphStays, ProperNext
  <2>2. Fits(planner)' <=> Fits(planner')
    BY DEF Fits
  <2> QED BY <1>3, <1>6, <2>1, <2>2 DEF UseInv
<1>7. CASE UNCHANGED vars
  BY <1>6, <1>7 DEF vars, driverVars, userVars, UseInv
<1>8. CASE AllocateTensors
  <2>1. /\ PrepareOpsAndTensors(From, 0, 0) /\ graph' = graph /\ initialized' = initialized
        /\ fed' = FALSE /\ done' = FALSE
    BY <1>8 DEF AllocateTensors, From
  <2>2. PreparedFrom(Base(From), 0)
    BY <1>1, <1>5, <2>1, PrepareFacts
  <2>3. FitsBound(planner') /\ Proper(planner') /\ next_to_plan' # 0
    BY <1>1, <2>2 DEF PreparedFrom
  <2>4. Fits(planner')
    BY <2>3, FitsMeaning DEF Proper
  <2> QED BY <1>6, <2>1, <2>3, <2>4 DEF UseInv
<1>9. CASE AllocateTensorsFails
  <2>1. /\ PrepareFails(From, 0) /\ graph' = graph /\ initialized' = initialized
        /\ fed' = FALSE /\ done' = FALSE /\ state' = "uninvokable"
    BY <1>2, <1>9 DEF AllocateTensorsFails, From, MustAllocate
  <2>2. planner' = Base(From)
    BY <1>1, <1>5, <2>1, PrepareFailsFacts
  <2>3. Blank(planner')
    BY <1>1, <1>5, <2>2, BaseProper
  <2> QED BY <1>6, <2>1, <2>3, BlankFits DEF UseInv
<1>10. CASE AcquireNonPersistentMemory
  <2>1. /\ graph' = graph /\ initialized' = initialized /\ fed' = fed /\ done' = done /\ state' = state
        /\ next_to_plan' = next_to_plan /\ pc' = pc /\ state = "invokable"
        /\ planner' = WithBuffer(planner, TRUE)
    BY <1>10 DEF AcquireNonPersistentMemory, driverVars, userVars, Committed, WithBuffer,
       MustAllocate, DriverInv
  <2>2. Proper(planner)
    BY <2>1 DEF PlanInv
  <2>3. /\ Proper(planner') /\ planner'.arena.buffer = TRUE
        /\ planner'.arena.allocs = planner.arena.allocs /\ planner'.persistent = planner.persistent
    BY <2>1, <2>2, BufferProper
  <2>4. Fits(planner')
    BY <2>2, <2>3 DEF Fits, UseInv
  <2> QED BY <1>6, <2>1, <2>3, <2>4 DEF UseInv
<1>11. CASE ReleaseNonPersistentMemory
  <2>1. /\ graph' = graph /\ initialized' = initialized /\ fed' = FALSE /\ done' = FALSE
        /\ state' = state /\ next_to_plan' = next_to_plan /\ planner.exists
        /\ planner' = WithBuffer(planner, FALSE)
    BY <1>11 DEF ReleaseNonPersistentMemory, driverVars, ReleasedBuffer, WithBuffer
  <2>2. Proper(planner)
    BY <1>5, <2>1
  <2>3. planner'.arena.allocs = planner.arena.allocs /\ planner'.persistent = planner.persistent
    BY <2>1, <2>2, BufferProper
  <2>4. Fits(planner')
    BY <2>2, <2>3 DEF Fits, UseInv
  <2> QED BY <1>6, <2>1, <2>4 DEF UseInv
<1>12. CASE \E t \in graph.inputs, n \in Sizes : ResizeInputTensor(t, n)
  <2>1. /\ graph' = graph /\ initialized' = initialized /\ planner' = planner /\ fed' = FALSE
        /\ state' = "uninvokable" /\ done' = done /\ pc' = pc /\ next_to_plan' = next_to_plan
    BY <1>12 DEF ResizeInputTensor
  <2> QED BY <1>6, <2>1 DEF UseInv
<1>13. CASE FeedInputs
  <2>1. Proper(planner) /\ planner.arena.buffer
    BY <1>13 DEF FeedInputs, PlanInv, HasNonPersistentMemory
  <2> QED BY <1>4, <1>6, <1>13, <2>1 DEF FeedInputs, driverVars, UseInv
<1>14. CASE InvokeStart
  BY <1>6, <1>14 DEF InvokeStart, UseInv
<1>15. CASE InvokePrepare
  <2>1. /\ graph' = graph /\ initialized' = initialized /\ state' = state /\ state = "invokable"
        /\ fed' = fed /\ done' = FALSE /\ Proper(planner)
    BY <1>15 DEF InvokePrepare, userVars, DriverInv, PlanInv, UseInv, FlagsInv
  <2>2. CASE exec = next_to_prepare
    <3>1. PrepareOpsAndTensors(planner, exec, exec)
      BY <1>1, <1>15, <2>2 DEF InvokePrepare
    <3>2. PreparedFrom(Base(planner), exec)
      BY <1>1, <2>1, <3>1, PrepareFacts
    <3>3. FitsBound(planner') /\ Proper(planner') /\ next_to_plan' # 0 /\ planner'.arena.buffer = TRUE
      BY <1>1, <3>2 DEF PreparedFrom
    <3>4. Fits(planner')
      BY <3>3, FitsMeaning DEF Proper
    <3> QED BY <1>6, <2>1, <3>3, <3>4 DEF UseInv
  <2>3. CASE exec # next_to_prepare
    BY <1>6, <1>15, <2>1, <2>3 DEF InvokePrepare, UseInv
  <2> QED BY <2>2, <2>3
<1>16. CASE InvokePrepareFails
  <2>1. /\ graph' = graph /\ initialized' = initialized /\ state' = state /\ state = "invokable"
        /\ fed' = fed /\ done' = FALSE /\ Proper(planner) /\ next_to_plan' = next_to_plan
        /\ PrepareFails(planner, exec)
    BY <1>16 DEF InvokePrepareFails, userVars, DriverInv, PlanInv, UseInv, FlagsInv
  <2>2. planner' = planner
    BY <1>1, <2>1, PrepareFailsFacts, BaseProper
  <2> QED BY <1>6, <2>1, <2>2 DEF UseInv
<1>17. CASE InvokeReturns
  BY <1>6, <1>17 DEF InvokeReturns, userVars, UseInv
<1>18. CASE InvokeNode
  <2>1. /\ graph' = graph /\ initialized' = initialized /\ state' = state /\ state = "invokable"
        /\ fed' = fed /\ Proper(planner) /\ planner.arena.buffer = TRUE /\ exec < next_to_plan
        /\ IF exec = NumNodes - 1 THEN pc' = "idle" /\ done' = TRUE ELSE done' = FALSE
    BY <1>1, <1>2, <1>18 DEF InvokeNode, NextNode, DriverInv, PlanInv, UseInv, FlagsInv
  <2>2. PICK size \in RunSizes(exec) :
            IF MustReplan(size)
            THEN next_to_plan' = exec + 1 /\ planner' = ResetAllocationsAfter(planner, exec)
            ELSE next_to_plan' = next_to_plan /\ planner' = planner
    BY <1>18 DEF InvokeNode
  <2>3. CASE MustReplan(size)
    <3>0. planner' = ResetAllocationsAfter(planner, exec) /\ exec \in Int
      BY <1>1, <2>2, <2>3
    <3>1. /\ Proper(planner') /\ planner'.arena.buffer = TRUE
          /\ Elements(planner'.arena.allocs) \subseteq Elements(planner.arena.allocs)
          /\ planner'.persistent = planner.persistent
      BY <2>1, <3>0, AfterFacts
    <3>2. Fits(planner')
      BY <2>1, <3>1, FitsKept DEF UseInv
    <3>3. next_to_plan' # 0 /\ exec # NumNodes - 1
      BY <1>1, <2>2, <2>3 DEF MustReplan
    <3> QED BY <1>6, <2>1, <3>1, <3>2, <3>3 DEF UseInv
  <2>4. CASE ~MustReplan(size)
    <3>1. next_to_plan' = next_to_plan /\ planner' = planner
      BY <2>2, <2>4
    <3>2. exec = NumNodes - 1 => next_to_plan = NumNodes
      BY <1>1, <2>1
    <3> QED BY <1>6, <2>1, <3>1, <3>2 DEF UseInv
  <2> QED BY <2>3, <2>4
<1>19. CASE InvokeNodeFails
  BY <1>6, <1>19 DEF InvokeNodeFails, userVars, UseInv
<1> QED BY <1>7, <1>8, <1>9, <1>10, <1>11, <1>12, <1>13, <1>14, <1>15, <1>16, <1>17, <1>18, <1>19
        DEF Next

(* A pointer that ResolveTensorAllocation has set.                         *)
LEMMA ResolvedHeld ==
    ASSUME NEW p, NEW size, NEW d, NEW t, InArena(t), size[t] # 0, HasSize(p, size, t),
           d[t] = ResolveAlloc(p, t, d[t])
    PROVE  Held(p, size, d, t)
  BY DEF Held, HasSize, ResolveAlloc, InArena

(* Whatever is live has memory, and has had it from its first writer on.   *)
LEMMA LiveFacts ==
    ASSUME DriverInv, PlanInv, UseInv, NEW t \in Live, InArena(t)
    PROVE  /\ t \in Tensors /\ ~IsTemp(t) /\ Proper(planner)
           /\ planner.alloc_node[t] \in 0 .. next_to_plan - 1
           /\ pc # "idle" => planner.alloc_node[t] <= exec
           /\ HasSize(planner, bytes, t)
           /\ data[t] = ResolveAlloc(planner, t, data[t])
<1>1. /\ IsLegal /\ NumNodes \in Nat /\ 1 <= NumNodes /\ exec \in Nat /\ next_to_plan \in Nat
      /\ NumNodes <= NodeNotAssigned /\ \A i \in NodeIds : i \in Nat /\ i < NumNodes
      /\ Given \cup graph.outputs \subseteq Tensors
      /\ state = "invokable" => 1 <= next_to_plan
      /\ pc # "idle" => state = "invokable" /\ exec <= next_to_plan /\ exec < NumNodes
  BY GraphFacts DEF DriverInv, UseInv, NodeIds
<1>2. /\ (fed /\ t \in graph.inputs) \/ (state = "invokable" /\ t \in graph.variables)
         \/ (done /\ t \in graph.outputs /\ t \notin Given)
         \/ (pc # "idle" /\ \E j \in NodeIds : j < exec /\ t \in Node(j).outputs)
  <2>1. pc # "idle" => \A j \in 0 .. exec - 1 : j \in NodeIds /\ j < exec
    BY <1>1 DEF NodeIds
  <2> QED BY <2>1 DEF Live, Given
<1>3. \A i \in NodeIds : Given \cap (Node(i).outputs \cup Temps(i)) = {}
      /\ Temps(i) \cap graph.outputs = {} /\ Node(i).outputs \subseteq Tensors
  BY <1>1, GraphFacts
<1>4. \A i, j \in NodeIds : Temps(i) \cap Node(j).outputs = {}
  BY <1>1, GraphFacts
<1>5. t \in Tensors /\ ~IsTemp(t)
  BY <1>1, <1>2, <1>3, <1>4 DEF IsTemp, Given
<1>6. Proper(planner) /\ AllocExact(planner, t)
  <2>1. Proper(planner)
    BY <1>1, <1>2 DEF PlanInv, UseInv
  <2> QED BY <1>5, <2>1 DEF Proper
<1>7. planner.alloc_node[t] \in 0 .. next_to_plan - 1 /\ (pc # "idle" => planner.alloc_node[t] <= exec)
  <2>1. CASE t \in Given /\ state = "invokable"
    <3>1. planner.alloc_node[t] = 0
      BY <1>6, <2>1 DEF AllocExact
    <3> QED BY <1>1, <2>1, <3>1
  <2>2. CASE pc # "idle" /\ \E j \in NodeIds : j < exec /\ t \in Node(j).outputs
    <3>1. PICK j \in NodeIds : j < exec /\ t \in Node(j).outputs
      BY <2>2
    <3>2. planner.alloc_node[t] = j
      BY <1>6, <3>1 DEF AllocExact
    <3> QED BY <1>1, <2>2, <3>1, <3>2
  <2>3. CASE done /\ t \in graph.outputs /\ t \notin Given
    <3>1. PICK j \in NodeIds : t \in Node(j).outputs
      BY <1>1, <2>3, GraphFacts
    <3>2. planner.alloc_node[t] = j /\ next_to_plan = NumNodes /\ pc = "idle"
      BY <1>6, <2>3, <3>1 DEF AllocExact, UseInv
    <3> QED BY <1>1, <3>2
  <2> QED BY <1>2, <2>1, <2>2, <2>3 DEF Given, UseInv
<1>8. Current(t) /\ (IsPersistent(t) \/ planner.arena.buffer = TRUE)
  <2>1. state = "invokable" \/ t \notin graph.inputs
    BY <1>1, <1>2 DEF Given, UseInv
  <2>2. t \in graph.variables => IsPersistent(t)
    BY <1>1, GraphFacts
  <2>3. IsPersistent(t) \/ planner.arena.buffer = TRUE
    BY <1>2, <2>2 DEF UseInv, PlanInv
  <2> QED BY <1>7, <2>1, <2>3 DEF Current
<1> QED BY <1>5, <1>6, <1>7, <1>8 DEF PlanInv, MemoryCurrent

(* Who is still to be used at node i has an interval that contains it.     *)
LEMMA CoversFacts ==
    ASSUME IsLegal, NEW p, Proper(p), NEW size, NEW t \in Tensors, HasSize(p, size, t),
           NEW i \in NodeIds, p.alloc_node[t] <= i,
           \/ t \in Given \cup graph.outputs
           \/ \E k \in NodeIds : i <= k /\ t \in NodeInputs(k)
           \/ t \in Node(i).outputs
           \/ t \in Temps(i) /\ p.alloc_node[t] = i
    PROVE  Covers(p, t, i)
<1>1. /\ i \in Nat /\ i <= NodeNotAssigned /\ \A k \in NodeIds : k \in Nat
  <2>1. NumNodes \in Nat /\ NumNodes <= NodeNotAssigned /\ NodeNotAssigned \in Nat
    BY GraphFacts, NotAssignedIsNat
  <2> QED BY <2>1 DEF NodeIds
<1>2. p.allocs[t].first_node = p.alloc_node[t] /\ p.allocs[t].last_node = LastNode(p, t)
  BY DEF HasSize
<1>3. i <= p.dealloc_node[t]
  <2>1. CASE t \in Temps(i) /\ p.alloc_node[t] = i
    <3>1. p.dealloc_node[t] = i
      BY <2>1 DEF Proper
    <3> QED BY <1>1, <3>1
  <2>2. CASE IsTemp(t) /\ ~(t \in Temps(i) /\ p.alloc_node[t] = i)
    BY <2>2, GraphFacts DEF IsTemp
  <2>3. CASE ~IsTemp(t)
    <3>1. DeallocExact(p, t)
      BY <2>3 DEF Proper
    <3>2. ASSUME NEW j \in NodeIds, LastRead(t, j) PROVE i <= j
      <4>1. CASE \E k \in NodeIds : i <= k /\ t \in NodeInputs(k)
        <5>1. PICK k \in NodeIds : i <= k /\ t \in NodeInputs(k)
          BY <4>1
        <5>2. ~(j < k)
          BY <3>2, <5>1 DEF LastRead
        <5> QED BY <1>1, <5>1, <5>2
      <4>2. CASE t \in Node(i).outputs
        <5>1. ~(j <= i)
          BY <3>2, <4>2, GraphFacts DEF LastRead
        <5> QED BY <1>1, <5>1
      <4> QED BY <2>3, <3>2, <4>1, <4>2 DEF LastRead, IsTemp
    <3> QED BY <1>1, <3>1, <3>2 DEF DeallocExact
  <2> QED BY <2>1, <2>2, <2>3
<1> QED BY <1>1, <1>2, <1>3 DEF Covers, LastNode

(* UseInv holds in a new subgraph.                                         *)
LEMMA UseInit == Init => UseInv
<1> SUFFICES ASSUME Init PROVE UseInv
  OBVIOUS
<1>1. ~Proper(planner)
  <2>1. planner.exists = FALSE
    BY DEF Init, NoPlanner
  <2> QED BY <2>1, PlanFields DEF Proper
<1> QED BY <1>1 DEF Init, UseInv, FlagsInv

(* Live for given values of the variables that it depends on.              *)
LiveOf(f, s, d, c, e) ==
    (IF f THEN graph.inputs ELSE {})
    \cup (IF s = "invokable" THEN graph.variables ELSE {})
    \cup (IF d THEN graph.outputs \ (graph.inputs \cup graph.variables) ELSE {})
    \cup (IF c = "idle" THEN {}
          ELSE {t \in UNION {Node(j).outputs : j \in 0 .. e - 1} :
                   t \in graph.outputs \/ \E k \in e .. NumNodes - 1 : t \in NodeInputs(k)})

(* Live as an operator of the state, before and after a step.              *)
LEMMA LiveNext ==
    ASSUME graph' = graph
    PROVE  Live = LiveOf(fed, state, done, pc, exec) /\ Live' = LiveOf(fed', state', done', pc', exec')
<1>1. Live = LiveOf(fed, state, done, pc, exec)
  BY DEF Live, LiveOf
<1>2. Live' = LiveOf(fed', state', done', pc', exec')
  BY DEF Live, LiveOf, Node, NodeInputs, NumNodes
<1> QED BY <1>1, <1>2

(* Which tensors are live.                                                 *)
LEMMA LiveMembers ==
    ASSUME NEW f \in BOOLEAN, NEW s, NEW d \in BOOLEAN, NEW c, NEW e, NEW t
    PROVE  t \in LiveOf(f, s, d, c, e) <=>
              \/ f /\ t \in graph.inputs
              \/ s = "invokable" /\ t \in graph.variables
              \/ d /\ t \in graph.outputs /\ t \notin Given
              \/ /\ c # "idle"
                 /\ \E j \in 0 .. e - 1 : t \in Node(j).outputs
                 /\ t \in graph.outputs \/ \E k \in e .. NumNodes - 1 : t \in NodeInputs(k)
  BY DEF LiveOf, Given

(* What runs at node exec leaves alone what has its memory by then.        *)
LEMMA NodeKeeps ==
    ASSUME DriverInv, PlanInv, InvokeNode \/ InvokeNodeFails, NEW t \in Tensors, InArena(t),
           HasSize(planner, bytes, t), planner.alloc_node[t] <= exec, planner.alloc_node[t] \in Int
    PROVE  bytes'[t] = bytes[t] /\ data'[t] = data[t]
<1>1. /\ IsLegal /\ bytes \in [Tensors -> Sizes] /\ data \in [Tensors -> Nat \cup {Null}]
      /\ exec \in Int
  BY DEF DriverInv, PlanInv, NodeIds
<1>2. t \notin AllocatedAfter(planner, exec)
  <2>1. ~(planner.allocs[t].first_node > exec)
    BY <1>1 DEF HasSize
  <2> QED BY <2>1 DEF AllocatedAfter
<1>3. CASE InvokeNode
  <2>1. PICK size \in RunSizes(exec) :
            /\ bytes' = size
            /\ \/ data' = RunData(exec)
               \/ data' = [u \in Tensors |-> IF u \in AllocatedAfter(planner, exec)
                                             THEN Null ELSE RunData(exec)[u]]
    BY <1>3 DEF InvokeNode
  <2>2. size[t] = bytes[t] /\ RunData(exec)[t] = data[t]
    BY <1>1, RunFacts
  <2> QED BY <1>2, <2>1, <2>2
<1>4. CASE InvokeNodeFails
  <2>1. \/ bytes' = bytes /\ data' = data
        \/ bytes' \in RunSizes(exec) /\ data' = RunData(exec)
    BY <1>4 DEF InvokeNodeFails
  <2>2. CASE bytes' \in RunSizes(exec) /\ data' = RunData(exec)
    BY <1>1, <2>2, RunFacts
  <2> QED BY <2>1, <2>2
<1> QED BY <1>3, <1>4

(* What is live before and after a step keeps its size and its pointer.    *)
LEMMA LiveStay ==
    ASSUME PlainGraph, DriverInv, PlanInv, UseInv, [Next]_vars,
           NEW t \in Live, t \in Live', InArena(t)
    PROVE  graph' = graph /\ bytes'[t] = bytes[t] /\ data'[t] = data[t]
<1> DEFINE Kept == graph' = graph /\ bytes'[t] = bytes[t] /\ data'[t] = data[t]
<1>1. /\ IsLegal /\ bytes \in [Tensors -> Sizes] /\ data \in [Tensors -> Nat \cup {Null}]
      /\ 0 \in NodeIds /\ exec \in NodeIds /\ next_to_plan \in Nat /\ exec \in Nat
      /\ next_to_plan = next_to_prepare /\ fed \in BOOLEAN /\ done \in BOOLEAN
  BY GraphFacts DEF DriverInv, PlanInv, NodeIds, UseInv, FlagsInv
<1>2. ~HasDynamicInputs /\ \A u \in graph.variables : IsPersistent(u)
  BY <1>1, GraphFacts DEF PlainGraph
<1>3. /\ t \in Tensors /\ ~IsTemp(t) /\ Proper(planner)
      /\ planner.alloc_node[t] \in 0 .. next_to_plan - 1
      /\ pc # "idle" => planner.alloc_node[t] <= exec
      /\ HasSize(planner, bytes, t)
      /\ data[t] = ResolveAlloc(planner, t, data[t])
  BY LiveFacts
<1>4. \A i \in NodeIds : Given \cap (Node(i).outputs \cup Temps(i)) = {}
  BY <1>1, GraphFacts
<1>5. graph' = graph
  BY DEF Next, vars, AllocateTensors, AllocateTensorsFails, AcquireNonPersistentMemory,
         ReleaseNonPersistentMemory, ResizeInputTensor, FeedInputs, InvokeStart, InvokePrepare,
         InvokePrepareFails, InvokeReturns, InvokeNode, InvokeNodeFails
<1>6. t \in LiveOf(fed, state, done, pc, exec) /\ t \in LiveOf(fed', state', done', pc', exec')
  BY <1>5, LiveNext
<1>7. /\ fed' \in BOOLEAN /\ done' \in BOOLEAN
  BY FlagsStep DEF UseInv, FlagsInv
<1>8. ASSUME bytes' = bytes, data' = data PROVE Kept
  BY <1>5, <1>8
<1>9. ASSUME pc' = "idle", fed' = FALSE, done' = FALSE
      PROVE  state' = "invokable" /\ t \in graph.variables
  BY <1>6, <1>9 DEF LiveOf
<1>10. CASE UNCHANGED vars
  BY <1>8, <1>10 DEF vars
<1>11. CASE AllocateTensors
  <2>1. pc = "idle" /\ state = "uninvokable" /\ pc' = "idle" /\ fed' = FALSE /\ done' = FALSE
    BY <1>2, <1>11 DEF AllocateTensors, MustAllocate
  <2>2. fed = FALSE
    BY <1>1, <2>1 DEF UseInv
  <2>3. t \in graph.variables
    BY <1>9, <2>1
  <2>4. t \in LiveOf(fed, state, done, pc, exec) /\ ~fed /\ pc = "idle" /\ state # "invokable"
    BY <1>6, <2>1, <2>2
  <2>5. t \notin Given
    BY <2>4 DEF LiveOf, Given
  <2> QED BY <2>3, <2>5 DEF Given
<1>12. CASE AllocateTensorsFails
  <2>1. state' = "uninvokable" /\ pc' = "idle" /\ fed' = FALSE /\ done' = FALSE
    BY <1>2, <1>12 DEF AllocateTensorsFails, MustAllocate
  <2> QED BY <1>9, <2>1
<1>13. CASE AcquireNonPersistentMemory
  <2>1. /\ bytes' = bytes
        /\ data' = [u \in Tensors |-> IF IsRw(u) THEN ResolveAlloc(planner, u, data[u]) ELSE data[u]]
    BY <1>13 DEF AcquireNonPersistentMemory
  <2> QED BY <1>3, <1>5, <2>1 DEF Kept
<1>14. CASE ReleaseNonPersistentMemory
  <2>1. /\ pc' = "idle" /\ fed' = FALSE /\ done' = FALSE /\ bytes' = bytes
        /\ data' = [u \in Tensors |-> IF IsRw(u) THEN Null ELSE data[u]]
    BY <1>14 DEF ReleaseNonPersistentMemory, driverVars
  <2>2. ~IsRw(t)
    BY <1>2, <1>9, <2>1 DEF IsRw, IsPersistent
  <2> QED BY <1>3, <1>5, <2>1, <2>2 DEF Kept
<1>15. CASE \E u \in graph.inputs, n \in Sizes : ResizeInputTensor(u, n)
  <2>1. PICK u \in graph.inputs, n \in Sizes : ResizeInputTensor(u, n)
    BY <1>15
  <2>2. /\ pc' = "idle" /\ fed' = FALSE /\ state' = "uninvokable"
        /\ bytes' = [bytes EXCEPT ![u] = n]
        /\ data' = [data EXCEPT ![u] = IF InArena(u) THEN Null ELSE Heap]
    BY <2>1 DEF ResizeInputTensor
  <2>3. t # u
    <3>1. ~fed' /\ pc' = "idle" /\ state' # "invokable"
      BY <2>2
    <3>2. t \notin graph.inputs
      BY <1>6, <3>1 DEF LiveOf
    <3> QED BY <2>1, <3>2
  <2> QED BY <1>1, <1>3, <1>5, <2>2, <2>3 DEF Kept
<1>16. CASE FeedInputs \/ InvokeStart \/ InvokeReturns
  BY <1>8, <1>16 DEF FeedInputs, InvokeStart, InvokeReturns
<1>17. CASE InvokePrepare
  <2>1. CASE exec = next_to_prepare
    <3>1. PrepareOpsAndTensors(planner, exec, exec)
      BY <1>1, <1>17, <2>1 DEF InvokePrepare
    <3>2. PreparedFrom(planner, exec)
      BY <1>1, <1>3, <3>1, PrepareFacts, BaseProper
    <3>3. Proper(planner')
      BY <3>2 DEF PreparedFrom
    <3>4. planner'.alloc_node[t] = planner.alloc_node[t]
      <4>1. AllocExact(planner, t) /\ AllocExact(planner', t)
        BY <1>3, <3>3 DEF Proper
      <4> QED BY <4>1 DEF AllocExact
    <3>5. planner'.alloc_node[t] \notin exec .. next_to_plan' - 1
      BY <1>1, <1>3, <2>1, <3>4
    <3>6. /\ bytes'[t] = bytes[t] /\ planner'.allocs[t] = planner.allocs[t]
          /\ data'[t] = ResolveAlloc(planner', t, data[t])
      BY <1>3, <3>2, <3>5 DEF PreparedFrom
    <3>7. ResolveAlloc(planner', t, data[t]) = ResolveAlloc(planner, t, data[t])
      BY <3>6 DEF ResolveAlloc
    <3> QED BY <1>3, <1>5, <3>6, <3>7 DEF Kept
  <2>2. CASE exec # next_to_prepare
    BY <1>8, <1>17, <2>2 DEF InvokePrepare
  <2> QED BY <2>1, <2>2
<1>18. CASE InvokePrepareFails
  <2>1. /\ pc = "prepare" /\ pc' = "idle" /\ done' = done /\ PrepareFails(planner, exec)
    BY <1>1, <1>18 DEF InvokePrepareFails, userVars
  <2>2. t \in Given
    <3>1. done' = FALSE
      BY <1>1, <2>1 DEF UseInv
    <3> QED BY <1>6, <2>1, <3>1 DEF LiveOf, Given
  <2>3. /\ bytes'[t] = bytes[t] => data'[t] = data[t]
        /\ bytes'[t] # bytes[t] => \E i \in NodeIds : exec <= i /\ t \in Node(i).outputs \cup Temps(i)
    BY <1>1, <1>3, <2>1, PrepareFailsFacts
  <2> QED BY <1>4, <1>5, <2>2, <2>3 DEF Kept
<1>19. CASE InvokeNode \/ InvokeNodeFails
  <2>1. pc # "idle"
    BY <1>19 DEF InvokeNode, InvokeNodeFails
  <2>2. planner.alloc_node[t] <= exec /\ planner.alloc_node[t] \in Int
    BY <1>3, <2>1
  <2> QED BY <1>3, <1>5, <1>19, <2>2, NodeKeeps DEF Kept
<1> QED BY <1>10, <1>11, <1>12, <1>13, <1>14, <1>15, <1>16, <1>17, <1>18, <1>19 DEF Next

(* LiveValuesStay: no step of anybody moves a value that was relied on     *)
(* before the step and still is after it.                                  *)
THEOREM LiveValuesAreStable == Spec /\ PlainGraph => LiveValuesStay
<1>1. PlainGraph /\ DriverInv /\ PlanInv /\ UseInv /\ [Next]_vars =>
         [\A t \in Live \cap Live' : InArena(t) /\ data[t] # Null => data'[t] = data[t]]_vars
  BY LiveStay
<1> QED BY <1>1, InvariantsHold, PlainStays, UseInit, UseStep, PTL DEF Spec, LiveValuesStay

(* Writing keeps the type of the memory.                                   *)
LEMMA WrittenShape ==
    ASSUME MemoryShape, NEW d, NEW size, NEW ts, memory' = Written(d, size, ts)
    PROVE  MemoryShape'
  BY DEF MemoryShape, Written

(* What is live is a tensor of the graph.                                  *)
LEMMA LiveTensors ==
    ASSUME IsLegal, NEW f, NEW s, NEW d, NEW c, NEW e \in NodeIds
    PROVE  LiveOf(f, s, d, c, e) \subseteq Tensors
<1>1. \A j \in 0 .. e - 1 : j \in NodeIds
  BY GraphFacts DEF NodeIds
<1>2. \A j \in 0 .. e - 1 : Node(j).outputs \subseteq Tensors
  BY <1>1, GraphFacts
<1>3. Given \cup graph.outputs \subseteq Tensors
  BY GraphFacts
<1> QED BY <1>2, <1>3 DEF LiveOf, Given

(* What the user gave, or gets, is kept to the end.                        *)
LEMMA KeptCovers ==
    ASSUME IsLegal, NEW p, Proper(p), NEW size, NEW t \in Given \cup graph.outputs,
           HasSize(p, size, t), p.alloc_node[t] \in 0 .. NumNodes
    PROVE  Covers(p, t, NodeNotAssigned)
<1>1. t \in Tensors /\ ~IsTemp(t)
  BY GraphFacts DEF IsTemp
<1>2. p.dealloc_node[t] = NodeNotAssigned
  BY <1>1 DEF Proper, DeallocExact, LastRead
<1>3. p.alloc_node[t] <= NodeNotAssigned
  BY GraphFacts, NotAssignedIsNat
<1> QED BY <1>2, <1>3, NotAssignedIsNat DEF HasSize, Covers, LastNode

(* What is live while Invoke runs is needed at its node.                   *)
LEMMA LiveCovers ==
    ASSUME DriverInv, PlanInv, UseInv, pc # "idle", NEW t \in Live, InArena(t)
    PROVE  Covers(planner, t, exec)
<1>1. /\ t \in Tensors /\ Proper(planner) /\ planner.alloc_node[t] <= exec
      /\ HasSize(planner, bytes, t)
  BY LiveFacts
<1>2. IsLegal /\ exec \in NodeIds /\ \A k \in exec .. NumNodes - 1 : k \in NodeIds /\ exec <= k
  BY GraphFacts DEF DriverInv, NodeIds
<1>3. \/ t \in Given \cup graph.outputs
      \/ \E k \in NodeIds : exec <= k /\ t \in NodeInputs(k)
  BY <1>2 DEF Live, Given
<1> QED BY <1>1, <1>2, <1>3, CoversFacts

(* What a node writes has memory, and is needed at this node.              *)
LEMMA RunningWrites ==
    ASSUME DriverInv, PlanInv, UseInv, pc = "run"
    PROVE  /\ WrittenBy(exec) \in SUBSET Tensors /\ Node(exec).outputs \subseteq WrittenBy(exec)
           /\ \A u \in WrittenBy(exec) : InArena(u) /\ bytes[u] # 0 =>
                 Held(planner, bytes, data, u) /\ Covers(planner, u, exec)
<1>1. /\ IsLegal /\ exec \in NodeIds
      /\ WrittenBy(exec) = Node(exec).outputs \cup Temps(exec)
                           \cup (NodeInputs(exec) \cap graph.variables)
  BY DEF DriverInv, UseInv, WrittenBy, Temps
<1>2. /\ NodeInputs(exec) \subseteq Tensors /\ Node(exec).outputs \subseteq Tensors
      /\ Temps(exec) \subseteq Tensors
  BY <1>1, GraphFacts
<1>3. ASSUME NEW u \in WrittenBy(exec), InArena(u), bytes[u] # 0
      PROVE  Held(planner, bytes, data, u) /\ Covers(planner, u, exec)
  <2>1. u \in NodeInputs(exec) \cup Node(exec).outputs \cup Temps(exec)
    BY <1>1
  <2>2. /\ u \in Tensors /\ Proper(planner) /\ planner.alloc_node[u] \in 0 .. exec
        /\ u \in Temps(exec) => planner.alloc_node[u] = exec
        /\ HasSize(planner, bytes, u)
        /\ data[u] = ResolveAlloc(planner, u, data[u])
    BY <1>3, <2>1, RunningFacts
  <2>3. Held(planner, bytes, data, u)
    BY <1>3, <2>2, ResolvedHeld
  <2>4. planner.alloc_node[u] <= exec
    BY <2>2
  <2>5. u \in Given \/ u \in Node(exec).outputs \/ u \in Temps(exec)
    BY <1>1 DEF Given
  <2>6. Covers(planner, u, exec)
    BY <1>1, <2>2, <2>4, <2>5, CoversFacts
  <2> QED BY <2>3, <2>6
<1> QED BY <1>1, <1>2, <1>3

(* No step damages a value that is relied on after it.                     *)
LEMMA IntactStep ==
    ASSUME PlainGraph, DriverInv, PlanInv, UseInv, MemoryShape, LiveValuesIntact, [Next]_vars
    PROVE  MemoryShape' /\ LiveValuesIntact'
<1> DEFINE From == IF planner.exists THEN ResetAllocations(planner) ELSE planner
           LiveAfter == LiveOf(fed', state', done', pc', exec')
           Safe(t) == InArena(t) /\ bytes'[t] # 0 => IntactIn(memory', data', bytes', t)
<1>1. /\ IsLegal /\ bytes \in [Tensors -> Sizes] /\ data \in [Tensors -> Nat \cup {Null}]
      /\ 0 \in NodeIds /\ exec \in NodeIds /\ next_to_plan \in Nat /\ exec \in Nat
      /\ next_to_plan = next_to_prepare /\ next_to_plan <= NumNodes /\ NumNodes \in Nat
      /\ fed \in BOOLEAN /\ done \in BOOLEAN
  BY GraphFacts DEF DriverInv, PlanInv, NodeIds, UseInv, FlagsInv
<1>2. /\ ~HasDynamicInputs /\ \A u \in graph.variables : IsPersistent(u) /\ InArena(u)
      /\ Given \cup graph.outputs \subseteq Tensors
  BY <1>1, GraphFacts DEF PlainGraph, InArena
<1>3. graph' = graph
  BY DEF Next, vars, AllocateTensors, AllocateTensorsFails, AcquireNonPersistentMemory,
         ReleaseNonPersistentMemory, ResizeInputTensor, FeedInputs, InvokeStart, InvokePrepare,
         InvokePrepareFails, InvokeReturns, InvokeNode, InvokeNodeFails
<1>4. /\ fed' \in BOOLEAN /\ done' \in BOOLEAN /\ exec' \in NodeIds
      /\ bytes' \in [Tensors -> Sizes]
  <2>1. DriverInv' /\ FlagsInv'
    BY DriverStep, FlagsStep DEF UseInv
  <2> QED BY <1>3, <2>1, GraphStays DEF DriverInv, FlagsInv
<1>5. Live = LiveOf(fed, state, done, pc, exec) /\ Live' = LiveAfter /\ LiveAfter \subseteq Tensors
  BY <1>1, <1>3, <1>4, LiveNext, LiveTensors
<1>6. [Tensors -> Sizes] \subseteq [Tensors -> Nat]
  BY PlannerAssumption
<1>7. \A t \in Live : InArena(t) /\ bytes[t] # 0 => IntactIn(memory, data, bytes, t)
  <2>1. Live \subseteq Tensors
    BY <1>1, <1>5, LiveTensors
  <2>2. \A t \in Live : bytes[t] \in Nat
    BY <1>1, <1>6, <2>1
  <2> QED BY <2>2 DEF LiveValuesIntact, IntactIn
<1>8. ASSUME MemoryShape', \A t \in LiveAfter : Safe(t)
      PROVE  MemoryShape' /\ LiveValuesIntact'
  <2>1. \A t : InArena(t)' = InArena(t) /\ ArenaOf(t)' = ArenaOf(t)
    BY <1>3 DEF InArena, ArenaOf, IsRw, IsPersistent
  <2> HIDE DEF LiveAfter
  <2> QED BY <1>5, <1>8, <2>1 DEF LiveValuesIntact, IntactIn
<1>9. ASSUME NEW t \in Live, t \in LiveAfter, memory' = memory PROVE Safe(t)
  <2>1. InArena(t) => bytes'[t] = bytes[t] /\ data'[t] = data[t]
    BY <1>5, <1>9, LiveStay
  <2> QED BY <1>7, <1>9, <2>1 DEF IntactIn
<1>10. ASSUME memory' = memory, \A t \in LiveAfter : t \in Live
       PROVE  MemoryShape' /\ LiveValuesIntact'
  BY <1>8, <1>9, <1>10 DEF MemoryShape
<1> HIDE DEF LiveAfter, Safe, From
<1>11. CASE UNCHANGED vars
  <2>1. LiveAfter = Live
    BY <1>5, <1>11 DEF vars, driverVars, userVars, LiveAfter
  <2> QED BY <1>10, <1>11, <2>1 DEF vars
<1>12. CASE AllocateTensorsFails
  <2>1. state' # "invokable" /\ pc' = "idle" /\ ~fed' /\ ~done' /\ memory' = memory
    BY <1>2, <1>12 DEF AllocateTensorsFails, MustAllocate
  <2>2. LiveAfter = {}
    BY <2>1 DEF LiveAfter, LiveOf
  <2> QED BY <1>10, <2>1, <2>2
<1>13. CASE AcquireNonPersistentMemory
  <2>1. LiveAfter = Live
    BY <1>5, <1>13 DEF AcquireNonPersistentMemory, driverVars, userVars, LiveAfter
  <2> QED BY <1>10, <1>13, <2>1 DEF AcquireNonPersistentMemory
<1>14. CASE (\E t \in graph.inputs, n \in Sizes : ResizeInputTensor(t, n)) \/ InvokeStart
            \/ InvokePrepare \/ InvokePrepareFails \/ InvokeReturns
  <2>1. /\ memory' = memory /\ (fed' => fed) /\ (done' => done)
        /\ state' = "invokable" => state = "invokable"
        /\ \/ pc' = "idle" \/ exec' = 0
           \/ pc # "idle" /\ exec' = exec
    BY <1>1, <1>14 DEF ResizeInputTensor, InvokeStart, InvokePrepare, InvokePrepareFails,
       InvokeReturns, userVars
  <2>2. 0 .. 0 - 1 = {}
    OBVIOUS
  <2>3. LiveAfter \subseteq Live
    BY <1>5, <2>1, <2>2 DEF LiveAfter, LiveOf
  <2> QED BY <1>10, <2>1, <2>3
<1>15. CASE AllocateTensors
  <2> DEFINE p == planner'
             d == data'
             size == bytes'
  <2>1. /\ PrepareOpsAndTensors(From, 0, 0) /\ pc' = "idle" /\ ~fed' /\ ~done'
        /\ memory' = Written(data', bytes', graph.variables)
    BY <1>15 DEF AllocateTensors, From
  <2>2. From = NoPlanner \/ Proper(From)
    <3>1. Proper(planner) => Proper(ResetAllocations(planner))
      BY ResetProper
    <3>2. NoPlanner.exists = FALSE
      BY DEF NoPlanner
    <3> QED BY <3>1, <3>2 DEF PlanInv, From
  <2>3. PreparedFrom(Base(From), 0)
    BY <1>1, <2>1, <2>2, PrepareFacts
  <2>4. /\ Proper(p) /\ FitsBound(p) /\ d \in [Tensors -> Nat \cup {Null}]
        /\ size \in [Tensors -> Nat] /\ next_to_plan' \in 0 + 1 .. NumNodes
        /\ \A t \in Tensors : p.alloc_node[t] \in 0 .. next_to_plan' - 1 /\ InArena(t) =>
              HasSize(p, size, t)
        /\ \A t \in Tensors : d[t] = ResolveAlloc(p, t, d[t])
    BY <1>4, <1>6, <2>3 DEF PreparedFrom
  <2>5. 0 \in 0 .. next_to_plan' - 1 /\ 0 \in 0 .. NumNodes
    BY <1>1, <2>4
  <2> HIDE DEF p, d, size
  <2>6. ASSUME NEW t \in graph.variables, size[t] # 0
        PROVE  Held(p, size, d, t) /\ Covers(p, t, NodeNotAssigned)
    <3>1. t \in Tensors /\ InArena(t) /\ t \in Given /\ ~IsTemp(t)
      BY <1>1, <1>2, GraphFacts DEF Given, IsTemp
    <3>2. p.alloc_node[t] = 0
      BY <2>4, <3>1 DEF Proper, AllocExact
    <3>3. HasSize(p, size, t)
      BY <2>4, <2>5, <3>1, <3>2
    <3>4. Held(p, size, d, t)
      BY <2>4, <2>6, <3>1, <3>3, ResolvedHeld
    <3>5. Covers(p, t, NodeNotAssigned)
      BY <1>1, <2>4, <2>5, <3>1, <3>2, <3>3, KeptCovers
    <3> QED BY <3>4, <3>5
  <2>7. ASSUME NEW t \in LiveAfter PROVE Safe(t)
    <3>1. t \in graph.variables /\ t \in Tensors
      BY <1>5, <2>1, <2>7 DEF LiveAfter, LiveOf
    <3>2. graph.variables \in SUBSET Tensors /\ NodeNotAssigned \in Int
      BY <1>2, NotAssignedIsNat DEF Given
    <3>3. InArena(t) /\ size[t] # 0 => IntactIn(Written(d, size, graph.variables), d, size, t)
      BY <2>4, <2>6, <3>1, <3>2, WriteIntact
    <3> QED BY <2>1, <3>3 DEF Safe, d, size
  <2> QED BY <1>8, <2>1, <2>7, WrittenShape
<1>16. CASE ReleaseNonPersistentMemory
  <2>1. /\ pc' = "idle" /\ ~fed' /\ ~done' /\ state' = state
        /\ memory' = [memory EXCEPT !["arena"] = [b \in DOMAIN @ |-> Junk]]
    BY <1>16 DEF ReleaseNonPersistentMemory, driverVars
  <2>2. MemoryShape' /\ memory'["persistent"] = memory["persistent"]
    BY <2>1 DEF MemoryShape
  <2>3. ASSUME NEW t \in LiveAfter PROVE Safe(t)
    <3>1. t \in graph.variables /\ t \in Live
      BY <1>5, <2>1, <2>3 DEF LiveAfter, LiveOf
    <3>2. ArenaOf(t) = "persistent" /\ InArena(t)
      BY <1>2, <3>1 DEF ArenaOf
    <3>3. bytes'[t] = bytes[t] /\ data'[t] = data[t]
      BY <1>5, <2>3, <3>1, <3>2, LiveStay
    <3>4. bytes[t] # 0 => IntactIn(memory, data, bytes, t)
      BY <1>7, <3>1, <3>2
    <3> QED BY <2>2, <3>2, <3>3, <3>4 DEF Safe, IntactIn
  <2> QED BY <1>8, <2>2, <2>3
<1>17. CASE FeedInputs
  <2>1. /\ pc = "idle" /\ pc' = "idle" /\ state = "invokable" /\ state' = state /\ done' = done
        /\ planner.arena.buffer /\ memory' = Written(data, bytes, graph.inputs)
        /\ bytes' = bytes /\ data' = data
    BY <1>17 DEF FeedInputs, HasNonPersistentMemory, driverVars
  <2>2. /\ Proper(planner) /\ next_to_plan # 0 /\ Fits(planner)
    BY <2>1 DEF PlanInv, UseInv
  <2>3. FitsBound(planner)
    BY <2>2, FitsMeaning DEF Proper
  <2>4. 0 .. next_to_plan - 1 \subseteq 0 .. NumNodes /\ 0 \in 0 .. next_to_plan - 1
    BY <1>1, <2>2
  <2>5. ASSUME NEW t \in LiveAfter \cup graph.inputs, InArena(t), bytes[t] # 0
        PROVE  /\ Held(planner, bytes, data, t) /\ Covers(planner, t, NodeNotAssigned)
               /\ t \in graph.inputs \/ t \in Live
    <3>1. t \in graph.inputs \/ t \in Live
      BY <1>5, <2>1, <2>5 DEF LiveAfter, LiveOf
    <3>2. t \in Given \cup graph.outputs /\ t \in Tensors
      BY <1>2, <1>5, <2>1, <3>1 DEF LiveOf, Given
    <3>3. /\ HasSize(planner, bytes, t) /\ data[t] = ResolveAlloc(planner, t, data[t])
          /\ planner.alloc_node[t] \in 0 .. next_to_plan - 1
      <4>1. CASE t \in Live
        BY <2>5, <4>1, LiveFacts
      <4>2. CASE t \in graph.inputs
        <5>1. ~IsTemp(t) /\ t \in Given
          BY <1>1, <4>2, GraphFacts DEF Given, IsTemp
        <5>2. planner.alloc_node[t] = 0
          BY <2>2, <3>2, <5>1 DEF Proper, AllocExact
        <5>3. Current(t)
          BY <2>1, <2>4, <2>5, <5>2 DEF Current
        <5> QED BY <2>1, <2>2, <2>4, <3>2, <5>2, <5>3 DEF PlanInv, MemoryCurrent
      <4> QED BY <3>1, <4>1, <4>2
    <3>4. Held(planner, bytes, data, t)
      BY <2>5, <3>3, ResolvedHeld
    <3>5. Covers(planner, t, NodeNotAssigned)
      BY <1>1, <2>2, <2>4, <3>2, <3>3, KeptCovers
    <3> QED BY <3>1, <3>4, <3>5
  <2>6. ASSUME NEW t \in LiveAfter PROVE Safe(t)
    <3>1. graph.inputs \in SUBSET Tensors /\ NodeNotAssigned \in Int /\ bytes \in [Tensors -> Nat]
      BY <1>1, <1>2, <1>6, NotAssignedIsNat DEF Given
    <3>2. ASSUME InArena(t), bytes[t] # 0
          PROVE  IntactIn(Written(data, bytes, graph.inputs), data, bytes, t)
      <4>1. t \in Tensors /\ Held(planner, bytes, data, t) /\ Covers(planner, t, NodeNotAssigned)
        BY <1>5, <2>5, <2>6, <3>2
      <4>2. t \in graph.inputs \/ IntactIn(memory, data, bytes, t)
        BY <1>7, <2>5, <2>6, <3>2
      <4>3. \A u \in graph.inputs : InArena(u) /\ bytes[u] # 0 =>
               Held(planner, bytes, data, u) /\ Covers(planner, u, NodeNotAssigned)
        BY <2>5
      <4> QED BY <1>1, <2>2, <2>3, <3>1, <3>2, <4>1, <4>2, <4>3, WriteIntact
    <3> QED BY <2>1, <3>2 DEF Safe
  <2> QED BY <1>8, <2>1, <2>6, WrittenShape
<1>18. CASE InvokeNode \/ InvokeNodeFails
  <2>1. pc = "run" /\ memory' = Written(data, bytes, WrittenBy(exec)) /\ state' = state /\ fed' = fed
    BY <1>18 DEF InvokeNode, InvokeNodeFails, userVars
  <2>2. Proper(planner) /\ Fits(planner) /\ ~done
    BY <1>1, <2>1 DEF DriverInv, PlanInv, UseInv
  <2>3. FitsBound(planner)
    BY <2>2, FitsMeaning DEF Proper
  <2>4. /\ WrittenBy(exec) \in SUBSET Tensors /\ Node(exec).outputs \subseteq WrittenBy(exec)
        /\ \A u \in WrittenBy(exec) : InArena(u) /\ bytes[u] # 0 =>
              Held(planner, bytes, data, u) /\ Covers(planner, u, exec)
    BY <2>1, RunningWrites
  <2>5. ASSUME NEW t \in LiveAfter, InArena(t) PROVE t \in Live \/ t \in Node(exec).outputs
    <3>1. CASE t \in Given
      <4>1. (fed' /\ t \in graph.inputs) \/ (state' = "invokable" /\ t \in graph.variables)
        <5>1. pc' # "idle" => \A j \in 0 .. exec' - 1 : t \notin Node(j).outputs
          <6> DEFINE e == exec'
          <6>1. e \in NodeIds
            BY <1>4
          <6> HIDE DEF e
          <6>2. \A j \in 0 .. e - 1 : j \in NodeIds
            BY <1>1, <6>1 DEF NodeIds
          <6>3. \A j \in 0 .. e - 1 : t \notin Node(j).outputs
            BY <1>1, <3>1, <6>2, GraphFacts
          <6> QED BY <6>3 DEF e
        <5>2. \/ fed' /\ t \in graph.inputs
              \/ state' = "invokable" /\ t \in graph.variables
              \/ done' /\ t \in graph.outputs /\ t \notin Given
              \/ pc' # "idle" /\ \E j \in 0 .. exec' - 1 : t \in Node(j).outputs
          BY <2>5 DEF LiveAfter, LiveOf, Given
        <5> QED BY <3>1, <5>1, <5>2
      <4> QED BY <1>1, <1>5, <2>1, <4>1, LiveMembers
    <3>2. CASE t \notin Given
      <4>1. InvokeNode
        <5>1. InvokeNodeFails => pc' = "idle" /\ ~done'
          BY <2>2 DEF InvokeNodeFails, userVars
        <5>2. ~(pc' = "idle" /\ ~done')
          BY <2>5, <3>2 DEF LiveAfter, LiveOf, Given
        <5> QED BY <1>18, <5>1, <5>2
      <4>2. \/ exec = NumNodes - 1 /\ pc' = "idle"
            \/ exec # NumNodes - 1 /\ pc' = "prepare" /\ exec' = exec + 1 /\ ~done'
        BY <2>2, <4>1 DEF InvokeNode, NextNode
      <4>3. CASE exec = NumNodes - 1 /\ pc' = "idle"
        <5>1. t \in graph.outputs
          BY <2>5, <3>2, <4>3 DEF LiveAfter, LiveOf, Given
        <5>2. PICK j \in NodeIds : t \in Node(j).outputs
          BY <1>1, <2>5, <3>2, <5>1, GraphFacts
        <5>3. j = exec \/ j \in 0 .. exec - 1
          BY <1>1, <4>3 DEF NodeIds
        <5>4. CASE j \in 0 .. exec - 1
          <6>1. \E k \in 0 .. exec - 1 : t \in Node(k).outputs
            BY <5>2, <5>4
          <6>2. t \in LiveOf(fed, state, done, pc, exec)
            BY <1>1, <2>1, <5>1, <6>1, LiveMembers
          <6> QED BY <1>5, <6>2
        <5> QED BY <5>2, <5>3, <5>4
      <4>4. CASE exec # NumNodes - 1 /\ pc' = "prepare" /\ exec' = exec + 1 /\ ~done'
        <5>1. /\ \E j \in 0 .. exec' - 1 : t \in Node(j).outputs
              /\ t \in graph.outputs \/ \E k \in exec' .. NumNodes - 1 : t \in NodeInputs(k)
          BY <2>5, <3>2, <4>4 DEF LiveAfter, LiveOf, Given
        <5>2. PICK j \in 0 .. exec' - 1 : t \in Node(j).outputs
          BY <5>1
        <5>3. /\ j = exec \/ j \in 0 .. exec - 1
              /\ exec' .. NumNodes - 1 \subseteq exec .. NumNodes - 1
          BY <1>1, <4>4
        <5>4. CASE j \in 0 .. exec - 1
          <6>1. /\ \E k \in 0 .. exec - 1 : t \in Node(k).outputs
                /\ t \in graph.outputs \/ \E k \in exec .. NumNodes - 1 : t \in NodeInputs(k)
            BY <5>1, <5>2, <5>3, <5>4
          <6>2. t \in LiveOf(fed, state, done, pc, exec)
            BY <1>1, <2>1, <6>1, LiveMembers
          <6> QED BY <1>5, <6>2
        <5> QED BY <5>2, <5>3, <5>4
      <4> QED BY <4>2, <4>3, <4>4
    <3> QED BY <3>1, <3>2
  <2>6. ASSUME NEW t \in LiveAfter, InArena(t), bytes'[t] # 0
        PROVE  IntactIn(memory', data', bytes', t)
    <3>1. /\ HasSize(planner, bytes, t) /\ data[t] = ResolveAlloc(planner, t, data[t])
          /\ planner.alloc_node[t] <= exec /\ planner.alloc_node[t] \in Int /\ t \in Tensors
      <4>1. CASE t \in Live
        BY <1>1, <2>1, <2>6, <4>1, LiveFacts
      <4>2. CASE t \in Node(exec).outputs
        <5>1. /\ t \in Tensors /\ planner.alloc_node[t] \in 0 .. exec
              /\ HasSize(planner, bytes, t) /\ data[t] = ResolveAlloc(planner, t, data[t])
          BY <2>1, <2>6, <4>2, RunningFacts
        <5> QED BY <1>1, <5>1
      <4> QED BY <2>5, <2>6, <4>1, <4>2
    <3>2. bytes'[t] = bytes[t] /\ data'[t] = data[t] /\ bytes[t] # 0
      BY <1>18, <2>6, <3>1, NodeKeeps
    <3>3. Held(planner, bytes, data, t)
      BY <2>6, <3>1, <3>2, ResolvedHeld
    <3>4. Covers(planner, t, exec)
      BY <2>1, <2>4, <2>5, <2>6, <3>2, LiveCovers
    <3>5. t \in WrittenBy(exec) \/ IntactIn(memory, data, bytes, t)
      BY <1>7, <2>4, <2>5, <2>6, <3>2
    <3>6. exec \in Int /\ bytes \in [Tensors -> Nat]
      BY <1>1, <1>6
    <3>7. IntactIn(Written(data, bytes, WrittenBy(exec)), data, bytes, t)
      BY <1>1, <2>2, <2>3, <2>4, <2>6, <3>1, <3>2, <3>3, <3>4, <3>5, <3>6, WriteIntact
    <3> QED BY <2>1, <3>2, <3>7 DEF IntactIn
  <2>7. \A t \in LiveAfter : Safe(t)
    BY <2>6 DEF Safe
  <2> QED BY <1>8, <2>1, <2>7, WrittenShape
<1> QED BY <1>11, <1>12, <1>13, <1>14, <1>15, <1>16, <1>17, <1>18 DEF Next

(* LiveValuesIntact: whatever the order of the calls, and however often    *)
(* nodes fail, resize their outputs and are planned again, the bytes of a  *)
(* value that a node or the user still relies on are never overwritten.    *)
THEOREM LiveValuesSafe == Spec /\ PlainGraph => []LiveValuesIntact
<1>1. Init => MemoryShape /\ LiveValuesIntact
  BY DEF Init, MemoryShape, LiveValuesIntact, Live
<1>2. PlainGraph /\ DriverInv /\ PlanInv /\ UseInv /\ MemoryShape /\ LiveValuesIntact
      /\ [Next]_vars => MemoryShape' /\ LiveValuesIntact'
  BY IntactStep
<1> QED BY <1>1, <1>2, InvariantsHold, PlainStays, UseInit, UseStep, PTL DEF Spec
=============================================================================
