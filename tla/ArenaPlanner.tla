----------------------------- MODULE ArenaPlanner -----------------------------
(***************************************************************************)
(* tflite::ArenaPlanner (tensorflow/lite/arena_planner.{h,cc}), driven the *)
(* way tflite::Subgraph drives it (core/subgraph.cc): AllocateTensors      *)
(* plans and allocates up to the first node whose output size is known     *)
(* only once the node has run, and Invoke plans the rest as it goes, again *)
(* when such an output changes its size.                                   *)
(*                                                                         *)
(* Graphs are in execution order and without delegates.  A tensor is a     *)
(* number, as in the code, and has one dimension, so that its shape is its *)
(* size; a byte of memory holds the tensor whose value it is part of.  The *)
(* buffers may move when they grow, which SimpleMemoryArena shows to be    *)
(* invisible through offsets: here a pointer is an offset, and memory      *)
(* keeps its contents until it is released.                                *)
(***************************************************************************)
EXTENDS ArenaOps, SeqOps, FiniteSets, SequencesExt

CONSTANTS
    Graphs,       \* the graphs that are run: [nodes, inputs, outputs, variables, kind, bytes]
    Sizes,        \* the sizes a tensor may have, in bytes
    LateFailures, \* whether a node may fail after it has resized its outputs
    Alignment,    \* kDefaultArenaAlignment and kDefaultTensorAlignment
    MaxMemory     \* bound: the bytes of each arena

NodeNotAssigned == 1000000    \* kNodeNotAssigned, the largest int32_t

(* Graphs of the kind that the builder and CheckInputAndOutputForOverlap   *)
(* let through, in execution order: a tensor is an input of the graph, a   *)
(* variable, which has persistent memory (ResetVariableTensors checks it), *)
(* the output of one node, the temporary of one node, or nobody writes it; *)
(* a node that reads what another one writes comes behind it; and what is  *)
(* read, by a node or by the user, and has its place in an arena is        *)
(* written by somebody.                                                    *)
IsGraph(g) ==
    LET T     == DOMAIN g.kind
        given == g.inputs \cup g.variables
        read  == UNION {Elements(g.nodes[i].inputs) : i \in 1 .. Len(g.nodes)}
    IN  /\ IsFiniteSet(T)
        /\ g.kind \in [T -> {"ArenaRw", "ArenaRwPersistent", "Dynamic", "MmapRo"}]
        /\ g.bytes \in [T -> Sizes]
        /\ g.nodes \in Seq([inputs : Seq(T), outputs : SUBSET T, temporaries : SUBSET T,
                            constant : BOOLEAN])
        /\ Len(g.nodes) \in 1 .. NodeNotAssigned
        /\ given \cup g.outputs \subseteq T
        /\ \A t \in g.variables : g.kind[t] = "ArenaRwPersistent"
        /\ \A i, j \in 1 .. Len(g.nodes) :
              /\ i # j => g.nodes[i].outputs \cap g.nodes[j].outputs = {}
              /\ i # j => g.nodes[i].temporaries \cap g.nodes[j].temporaries = {}
              /\ i <= j => Elements(g.nodes[i].inputs) \cap g.nodes[j].outputs = {}
        /\ \A i \in 1 .. Len(g.nodes) :
              /\ given \cap (g.nodes[i].outputs \cup g.nodes[i].temporaries) = {}
              /\ g.nodes[i].temporaries \cap (read \cup g.outputs) = {}
              /\ \A j \in 1 .. Len(g.nodes) : g.nodes[i].temporaries \cap g.nodes[j].outputs = {}
        /\ \A t \in read \cup g.outputs : g.kind[t] \in {"ArenaRw", "ArenaRwPersistent"} =>
              t \in given \/ \E i \in 1 .. Len(g.nodes) : t \in g.nodes[i].outputs

ASSUME PlannerAssumption ==
    /\ Sizes \subseteq Nat
    /\ LateFailures \in BOOLEAN
    /\ Alignment \in Nat \ {0}
    /\ MaxMemory \in Nat
    /\ \A g \in Graphs : IsGraph(g)

VARIABLES
    graph,            \* the graph; it does not change
    bytes,            \* TfLiteTensor::bytes
    data,             \* TfLiteTensor::data.raw
    planner,          \* memory_planner_, with its fields (see Planner below)
    memory,           \* the bytes of the two arenas
    state,            \* Subgraph::state_
    next_to_prepare,  \* next_execution_plan_index_to_prepare_
    next_to_plan,     \* next_execution_plan_index_to_plan_allocation_
    pc, exec,         \* where Invoke is: execution_plan_index and the half of the loop body
    fed,              \* the user has written the inputs since they were allocated
    done,             \* the last Invoke ran to its end
    initialized,      \* the nodes that have filled in a constant output
    prepared          \* the sizes of its inputs that a node was last prepared for

driverVars == <<state, next_to_prepare, next_to_plan, pc, exec>>
userVars   == <<fed, done>>
vars       == <<graph, bytes, data, planner, memory, driverVars, userVars, initialized,
                prepared>>

-----------------------------------------------------------------------------
(* The graph.  Nodes are numbered from 0, as in the execution plan.        *)

Null == -1
Junk == -1
Heap == 0     \* any pointer into memory outside the arenas

Tensors        == DOMAIN graph.kind
NumNodes       == Len(graph.nodes)
Node(i)        == graph.nodes[i + 1]
NodeInputs(i)  == ToSet(Node(i).inputs)
IsRw(t)         == graph.kind[t] = "ArenaRw"
IsPersistent(t) == graph.kind[t] = "ArenaRwPersistent"
InArena(t)      == IsRw(t) \/ IsPersistent(t)
IsDynamic(t)    == graph.kind[t] = "Dynamic"
HasDynamicOutput(i) == \E t \in Node(i).outputs : IsDynamic(t)

-----------------------------------------------------------------------------
(* An arena as its planner sees it: ordered_allocs_, and whether there is  *)
(* a buffer (GetBufferSize() is not 0).  Its size, which Commit makes large *)
(* enough, is the matter of SimpleMemoryArena.                             *)

EmptyArena == [allocs |-> <<>>, buffer |-> FALSE]
ResetAlloc == [tensor |-> -1, offset |-> 0, size |-> 0, first_node |-> -1, last_node |-> -1]

(* SimpleMemoryArena::Allocate for request req: the arena with the new     *)
(* allocation, and the record that the caller gets.                        *)
Allocation(arena, req) ==
    LET scan   == Fold(LAMBDA sc, a : ScanStep(sc, a, req), ScanStart, arena.allocs)
        offset == IF req.size = 0 THEN 0 ELSE ScanResult(scan, req)
    IN  [tensor |-> req.tensor, offset |-> offset, size |-> req.size,
         first_node |-> req.first_node, last_node |-> req.last_node]

WithAllocation(arena, new) ==
    IF new.size = 0
    THEN arena
    ELSE LET k == CHOOSE k \in 1 .. Len(arena.allocs) + 1 :
                     InsertionPoint(arena.allocs, new.offset, k)
         IN  [arena EXCEPT !.allocs = InsertAt(@, k, new)]

Deallocated(arena, ts) ==
    [arena EXCEPT !.allocs = Fold(LAMBDA kept, a : IF a.tensor \in ts THEN kept ELSE Append(kept, a),
                                  <<>>, @)]

Committed(arena)      == [arena EXCEPT !.buffer = TRUE]
ClearedPlan(arena)    == [arena EXCEPT !.allocs = <<>>]
ReleasedBuffer(arena) == [arena EXCEPT !.buffer = FALSE]

-----------------------------------------------------------------------------
(* The planner: its arenas, allocs_, alloc_node_ and dealloc_node_.        *)

NoPlanner == [exists |-> FALSE, arena |-> EmptyArena, persistent |-> EmptyArena,
              allocs |-> <<>>, alloc_node |-> <<>>, dealloc_node |-> <<>>]

(* The planner after ResetAllocations.                                     *)
ResetAllocations(p) ==
    [p EXCEPT !.arena = ClearedPlan(@), !.persistent = ClearedPlan(@),
              !.allocs = [t \in Tensors |-> ResetAlloc]]

(* The tensors that ResetAllocationsAfter takes the memory from, and the   *)
(* planner after it.                                                       *)
AllocatedAfter(p, node) ==
    {t \in Tensors : p.allocs[t].first_node > node /\ p.allocs[t].size > 0 /\ IsRw(t)}

ResetAllocationsAfter(p, node) ==
    LET ts == AllocatedAfter(p, node)
    IN  [p EXCEPT !.arena = Deallocated(@, ts),
                  !.allocs = [t \in Tensors |-> IF t \in ts THEN ResetAlloc ELSE @[t]]]

(* The occurrences of t among the inputs of node i.                        *)
InputCount(i, t) == Cardinality({j \in DOMAIN Node(i).inputs : Node(i).inputs[j] = t})

(* Mutants of InitialRefcount: nothing keeps the outputs, or the inputs.   *)
InitialRefcountOutputsFree(t) ==
    (IF t \in graph.variables THEN 1 ELSE 0) + (IF t \in graph.inputs THEN 1 ELSE 0)
    + Fold(LAMBDA n, i : n + InputCount(i - 1, t), 0, [i \in 1 .. NumNodes |-> i])

InitialRefcountInputsFree(t) ==
    (IF t \in graph.variables THEN 1 ELSE 0) + (IF t \in graph.outputs THEN 1 ELSE 0)
    + Fold(LAMBDA n, i : n + InputCount(i - 1, t), 0, [i \in 1 .. NumNodes |-> i])

(* One added for graph outputs, variables and (preserve_inputs is always   *)
(* set) graph inputs, and one for each use by a node.                      *)
InitialRefcount(t) ==
    LET One(b) == IF b THEN 1 ELSE 0
    IN  One(t \in graph.outputs) + One(t \in graph.variables) + One(t \in graph.inputs)
        + Fold(LAMBDA n, i : n + InputCount(i - 1, t), 0, [i \in 1 .. NumNodes |-> i])

(* The part of the loop of PlanAllocations for node i: its outputs are     *)
(* allocated, and the inputs whose references are used up deallocated.     *)
PlanNode(plan, i) ==
    LET alloc == [t \in Tensors |->
                    IF t \in Node(i).outputs /\ plan.alloc_node[t] = NodeNotAssigned
                    THEN i ELSE plan.alloc_node[t]]
        refs  == [t \in Tensors |-> plan.refcounts[t] - InputCount(i, t)]
        last  == {t \in NodeInputs(i) : refs[t] = 0 /\ alloc[t] # NodeNotAssigned}
    IN  [refcounts |-> refs, alloc_node |-> alloc,
         dealloc_node |-> [t \in Tensors |-> IF t \in last THEN i ELSE plan.dealloc_node[t]]]

(* PlanAllocations.                                                        *)
PlanAllocations(p) ==
    LET start == [refcounts |-> [t \in Tensors |-> InitialRefcount(t)],
                  alloc_node |-> [t \in Tensors |-> IF t \in graph.inputs \cup graph.variables
                                                    THEN 0 ELSE NodeNotAssigned],
                  dealloc_node |-> [t \in Tensors |-> NodeNotAssigned]]
        plan  == Fold(LAMBDA s, i : PlanNode(s, i - 1), start, [i \in 1 .. NumNodes |-> i])
    IN  [ResetAllocations(p) EXCEPT !.exists = TRUE,
                                    !.alloc_node = plan.alloc_node,
                                    !.dealloc_node = plan.dealloc_node]

(* The comparison of CreateTensorAllocationVector.                         *)
WholeLife(p, t) == p.alloc_node[t] = 0 /\ p.dealloc_node[t] = NodeNotAssigned
Before(p, size, t, u) ==
    IF WholeLife(p, t) \/ WholeLife(p, u)
    THEN WholeLife(p, t) /\ (WholeLife(p, u) => t < u)
    ELSE IF size[t] # size[u] THEN size[t] > size[u]
         ELSE p.alloc_node[t] < p.alloc_node[u]

(* The orders of the tensors ts that agree with the comparison.            *)
SortedVectors(p, size, ts) ==
    LET Candidates(s) == LET rest == ts \ ToSet(s)
                         IN  {t \in rest : \A u \in rest : ~Before(p, size, u, t)}
        Extended(ss, i) == UNION {{Append(s, u) : u \in Candidates(s)} : s \in ss}
    IN  Fold(Extended, {<<>>}, [i \in 1 .. Cardinality(ts) |-> i])

(* Mutant of AllocationVectors: the nodes that are planned are included.   *)
AllocationVectorsFromStart(p, size, first, last) ==
    SortedVectors(p, size, {t \in Tensors : p.alloc_node[t] \in 0 .. last})

(* The results std::sort may give: equal tensors come in any order.        *)
AllocationVectors(p, size, first, last) ==
    SortedVectors(p, size, {t \in Tensors : p.alloc_node[t] \in first .. last})

(* The temporaries of the nodes that are allocated live for one node.      *)
WithTemporaries(p, first, last) ==
    LET nodeOf == [t \in Tensors |-> {i \in first .. last : t \in Node(i).temporaries}]
        Assigned(f) == [t \in Tensors |-> IF nodeOf[t] = {} THEN f[t]
                                          ELSE CHOOSE i \in nodeOf[t] : TRUE]
    IN  [p EXCEPT !.alloc_node = Assigned(@), !.dealloc_node = Assigned(@)]

(* CalculateAllocations: the tensors in question give up their memory, and *)
(* are given new memory in the order of the vector.  Persistent tensors do *)
(* not give theirs up.                                                     *)
AllocateTensor(p, size, t) ==
    LET req == [tensor |-> t, size |-> size[t], alignment |-> Alignment,
                first_node |-> p.alloc_node[t],
                last_node |-> IF IsPersistent(t) THEN NodeNotAssigned ELSE p.dealloc_node[t]]
        new == Allocation(IF IsPersistent(t) THEN p.persistent ELSE p.arena, req)
    IN  IF IsRw(t) THEN [p EXCEPT !.arena = WithAllocation(@, new), !.allocs[t] = new]
        ELSE IF IsPersistent(t)
             THEN [p EXCEPT !.persistent = WithAllocation(@, new), !.allocs[t] = new]
             ELSE p

CalculateAllocations(p, size, order) ==
    LET old == {t \in ToSet(order) : IsRw(t) /\ p.allocs[t].size # 0}
    IN  Fold(LAMBDA q, t : AllocateTensor(q, size, t),
                 [p EXCEPT !.arena = Deallocated(@, old)], order)

(* ExecuteAllocations for the nodes first .. last: the planner, and the    *)
(* pointers that ResolveTensorAllocation sets.                             *)
ExecuteAllocations(p, size, order) ==
    LET q == CalculateAllocations(p, size, order)
    IN  [q EXCEPT !.arena = Committed(@), !.persistent = Committed(@)]

ResolveAlloc(p, t, old) ==
    IF IsRw(t) /\ p.allocs[t].size # 0 THEN p.allocs[t].offset
    ELSE IF IsPersistent(t)
         THEN IF p.allocs[t].size = 0 THEN Null ELSE p.allocs[t].offset
         ELSE old

FitsBound(p) ==
    \A a \in ToSet(p.arena.allocs) \cup ToSet(p.persistent.allocs) : End(a) <= MaxMemory

-----------------------------------------------------------------------------
(* The pointers after a resize to the sizes in size (ResizeTensorImpl):    *)
(* tensors in the arenas lose their memory, dynamic ones get it at once.   *)
Resized(size) == [t \in Tensors |-> IF size[t] = bytes[t] THEN data[t]
                                    ELSE IF InArena(t) THEN Null ELSE Heap]

(* The memory after the tensors ts have been written through pointers d.   *)
ArenaOf(t) == IF IsPersistent(t) THEN "persistent" ELSE "arena"
Written(d, size, ts) ==
    [a \in DOMAIN memory |-> [b \in DOMAIN memory[a] |->
        LET here == {t \in ts : /\ InArena(t) /\ ArenaOf(t) = a /\ d[t] # Null
                                /\ b \in d[t] .. d[t] + size[t] - 1}
        IN  IF here = {} THEN memory[a][b] ELSE CHOOSE t \in here : TRUE]]

(* The last node that PrepareOpsStartingAt prepares: it stops behind a     *)
(* node with a dynamic output.                                             *)
LastPrepared(first) ==
    LET dynamic == {i \in first .. NumNodes - 1 : HasDynamicOutput(i)}
    IN  IF dynamic = {} THEN NumNodes - 1
        ELSE CHOOSE i \in dynamic : \A j \in dynamic : i <= j

(* The sizes the tensors may have after the nodes first .. last have been  *)
(* prepared: each node sizes its outputs and temporaries, except the       *)
(* dynamic outputs.  A node with constant inputs finds the size it found   *)
(* before.                                                                 *)
PreparedSizes(first, last) ==
    LET nodes == {i \in first .. last : ~Node(i).constant}
        sized == {t \in UNION {Node(i).outputs \cup Node(i).temporaries : i \in nodes} :
                    InArena(t)}
    IN  {[t \in Tensors |-> IF t \in sized THEN f[t] ELSE bytes[t]] : f \in [sized -> Sizes]}

InputSizes(i, size) == [t \in NodeInputs(i) |-> size[t]]
Prepared(first, last, size) ==
    [i \in DOMAIN prepared |-> IF i \in first .. last THEN InputSizes(i, size) ELSE prepared[i]]

(* PrepareOpsAndTensors with planner p, from node first on, planning the   *)
(* allocations from node plan on.                                          *)
PrepareOpsAndTensors(p, first, plan) ==
    LET last    == LastPrepared(first)
        planned == IF p.exists THEN p ELSE PlanAllocations(p)
        ready   == WithTemporaries(planned, plan, last)
    IN  \E size \in PreparedSizes(first, last) :
        \E order \in AllocationVectors(ready, size, plan, last) :
            LET q == ExecuteAllocations(ready, size, order)
            IN  /\ FitsBound(q)
                /\ bytes' = size
                /\ prepared' = Prepared(first, last, size)
                /\ planner' = q
                /\ data' = [t \in Tensors |-> ResolveAlloc(q, t, Resized(size)[t])]
                /\ next_to_prepare' = last + 1
                /\ next_to_plan' = last + 1

(* The same when the Prepare function of some node fails: the nodes before *)
(* it have sized their tensors already.                                    *)
PrepareFails(p, first) ==
    /\ \E failing \in first .. LastPrepared(first) :
       \E size \in PreparedSizes(first, failing - 1) :
            /\ bytes' = size
            /\ data' = Resized(size)
            /\ prepared' = Prepared(first, failing - 1, size)
    /\ planner' = IF p.exists THEN p ELSE PlanAllocations(p)

-----------------------------------------------------------------------------
Init ==
    /\ graph \in Graphs
    /\ bytes = graph.bytes
    /\ data = [t \in Tensors |-> IF graph.kind[t] = "MmapRo" THEN Heap ELSE Null]
    /\ planner = NoPlanner
    /\ memory = [a \in {"arena", "persistent"} |-> [b \in 0 .. MaxMemory - 1 |-> Junk]]
    /\ state = "uninvokable"
    /\ next_to_prepare = 0
    /\ next_to_plan = 0
    /\ pc = "idle"
    /\ exec = 0
    /\ fed = FALSE
    /\ done = FALSE
    /\ initialized = {}
    /\ prepared = [i \in 0 .. NumNodes - 1 |-> <<>>]

HasNonPersistentMemory == planner.arena.buffer
HasDynamicInputs == \E t \in graph.inputs : IsDynamic(t)
MustAllocate == state = "uninvokable" \/ HasDynamicInputs

(* AllocateTensors, in full: plan again, and zero the variables.           *)
AllocateTensors ==
    /\ pc = "idle"
    /\ MustAllocate
    /\ PrepareOpsAndTensors(IF planner.exists THEN ResetAllocations(planner) ELSE planner, 0, 0)
    /\ state' = "invokable"
    /\ memory' = Written(data', bytes', graph.variables)
    /\ fed' = FALSE
    /\ done' = FALSE
    /\ UNCHANGED <<graph, initialized, pc, exec>>

(* AllocateTensors when a node cannot be prepared.                         *)
AllocateTensorsFails ==
    /\ pc = "idle"
    /\ MustAllocate
    /\ PrepareFails(IF planner.exists THEN ResetAllocations(planner) ELSE planner, 0)
    /\ next_to_prepare' = 0
    /\ next_to_plan' = 0
    /\ fed' = FALSE
    /\ done' = FALSE
    /\ UNCHANGED <<graph, initialized, memory, state, pc, exec>>

(* AllocateTensors when nothing but the release of the memory happened:    *)
(* AcquireNonPersistentMemory commits and resolves the same plan.          *)
AcquireNonPersistentMemory ==
    /\ pc = "idle"
    /\ ~MustAllocate
    /\ ~HasNonPersistentMemory
    /\ planner' = [planner EXCEPT !.arena = Committed(@)]
    /\ data' = [t \in Tensors |-> IF IsRw(t) THEN ResolveAlloc(planner, t, data[t]) ELSE data[t]]
    /\ UNCHANGED <<graph, initialized, prepared, bytes, memory, driverVars, userVars>>

ReleaseNonPersistentMemory ==
    /\ pc = "idle"
    /\ planner.exists
    /\ planner' = [planner EXCEPT !.arena = ReleasedBuffer(@)]
    /\ data' = [t \in Tensors |-> IF IsRw(t) THEN Null ELSE data[t]]
    /\ memory' = [memory EXCEPT !["arena"] = [b \in DOMAIN @ |-> Junk]]
    /\ fed' = FALSE
    /\ done' = FALSE
    /\ UNCHANGED <<graph, initialized, prepared, bytes, driverVars>>

(* ResizeInputTensor of input t to n bytes.                                *)
ResizeInputTensor(t, n) ==
    /\ pc = "idle"
    /\ t \in graph.inputs
    /\ data[t] = Null \/ bytes[t] # n
    /\ bytes' = [bytes EXCEPT ![t] = n]
    /\ data' = [data EXCEPT ![t] = IF InArena(t) THEN Null ELSE Heap]
    /\ state' = "uninvokable"
    /\ fed' = FALSE
    /\ UNCHANGED <<graph, initialized, prepared, planner, memory, next_to_prepare, next_to_plan, pc, exec, done>>

(* The user writes the inputs through their pointers.                      *)
FeedInputs ==
    /\ pc = "idle"
    /\ state = "invokable" /\ HasNonPersistentMemory
    /\ memory' = Written(data, bytes, graph.inputs)
    /\ fed' = TRUE
    /\ UNCHANGED <<graph, initialized, prepared, bytes, data, planner, driverVars, done>>

-----------------------------------------------------------------------------
(* Invoke.                                                                 *)

InvokeStart ==
    /\ pc = "idle"
    /\ state = "invokable" /\ HasNonPersistentMemory
    /\ fed
    /\ pc' = "prepare"
    /\ exec' = 0
    /\ done' = FALSE
    /\ UNCHANGED <<graph, initialized, prepared, bytes, data, planner, memory, state, next_to_prepare,
                   next_to_plan, fed>>

(* The first half of an iteration: prepare what was not prepared yet.      *)
InvokePrepare ==
    /\ pc = "prepare"
    /\ pc' = "run"
    /\ IF exec = next_to_prepare
       THEN PrepareOpsAndTensors(planner, next_to_prepare, next_to_plan)
       ELSE UNCHANGED <<bytes, data, planner, prepared, next_to_prepare, next_to_plan>>
    /\ UNCHANGED <<graph, initialized, memory, state, exec, userVars>>

InvokePrepareFails ==
    /\ pc = "prepare"
    /\ exec = next_to_prepare
    /\ PrepareFails(planner, next_to_prepare)
    /\ pc' = "idle"
    /\ exec' = 0
    /\ UNCHANGED <<graph, initialized, memory, state, next_to_prepare, next_to_plan, userVars>>

(* Invoke returns with an error before the node runs, if the client asks   *)
(* for it; an input without memory is the other cause.                     *)
LacksData(t)  == data[t] = Null /\ bytes[t] > 0
InvokeReturns ==
    /\ pc = "run"
    /\ pc' = "idle"
    /\ exec' = 0
    /\ UNCHANGED <<graph, initialized, prepared, bytes, data, planner, memory, state,
                   next_to_prepare, next_to_plan, userVars>>

(* The sizes after node i has run: it may resize its dynamic outputs.      *)
RunSizes(i) ==
    LET dynamic == {t \in Node(i).outputs : IsDynamic(t)}
    IN  {[t \in Tensors |-> IF t \in dynamic THEN f[t] ELSE bytes[t]] : f \in [dynamic -> Sizes]}

(* The pointers after that: the dynamic outputs have memory.               *)
RunData(i) == [t \in Tensors |-> IF t \in Node(i).outputs /\ IsDynamic(t) THEN Heap ELSE data[t]]

(* A node writes its outputs, temporaries and the variables among its      *)
(* inputs; one whose inputs are all constant (a Dequantize or a Densify of *)
(* weights) fills in its output the first time only.                       *)
WrittenBy(i) == (IF i \in initialized THEN {} ELSE Node(i).outputs)
                \cup Node(i).temporaries \cup (NodeInputs(i) \cap graph.variables)

(* Mutants of the three definitions below: only growth counts, the node    *)
(* right behind is forgotten, and the loop runs once too often.            *)
NextToPrepareIfGrown(size) ==
    IF \E t \in Tensors : size[t] > bytes[t] THEN exec + 1 ELSE next_to_prepare
MustReplanLater(size) == size # bytes /\ next_to_plan > exec + 2
NextNodeTooFar ==
    IF exec = NumNodes
    THEN pc' = "idle" /\ exec' = 0 /\ done' = TRUE
    ELSE pc' = "prepare" /\ exec' = exec + 1 /\ done' = done

(* next_execution_plan_index_to_prepare_ after the node has changed the    *)
(* sizes to size, and whether allocations behind it are planned again.     *)
NextToPrepare(size) == IF size # bytes THEN exec + 1 ELSE next_to_prepare
MustReplan(size) == size # bytes /\ next_to_plan > exec + 1

(* The loop goes to the next node, or Invoke returns.                      *)
NextNode ==
    IF exec = NumNodes - 1
    THEN pc' = "idle" /\ exec' = 0 /\ done' = TRUE
    ELSE pc' = "prepare" /\ exec' = exec + 1 /\ done' = done

(* The node runs.  If it resized a dynamic output, the nodes behind it are *)
(* to be prepared and planned again.                                       *)
InvokeNode ==
    /\ pc = "run"
    /\ \A t \in NodeInputs(exec) : ~LacksData(t)
    /\ memory' = Written(data, bytes, WrittenBy(exec))
    /\ initialized' = IF Node(exec).constant THEN initialized \cup {exec} ELSE initialized
    /\ \E size \in RunSizes(exec) :
          /\ bytes' = size
          /\ next_to_prepare' = NextToPrepare(size)
          /\ IF MustReplan(size)
             THEN /\ next_to_plan' = exec + 1
                  /\ planner' = ResetAllocationsAfter(planner, exec)
                  /\ data' = [t \in Tensors |-> IF t \in AllocatedAfter(planner, exec)
                                                THEN Null ELSE RunData(exec)[t]]
             ELSE data' = RunData(exec) /\ UNCHANGED <<next_to_plan, planner>>
    /\ NextNode
    /\ UNCHANGED <<graph, state, fed, prepared>>

(* The node fails, before or after it has resized its dynamic outputs.     *)
InvokeNodeFails ==
    /\ pc = "run"
    /\ \A t \in NodeInputs(exec) : ~LacksData(t)
    /\ memory' = Written(data, bytes, WrittenBy(exec))
    /\ \/ UNCHANGED <<bytes, data>>
       \/ LateFailures /\ bytes' \in RunSizes(exec) /\ data' = RunData(exec)
    /\ pc' = "idle"
    /\ exec' = 0
    /\ UNCHANGED <<graph, initialized, prepared, planner, state, next_to_prepare, next_to_plan,
                   userVars>>

Next ==
    \/ AllocateTensors
    \/ AllocateTensorsFails
    \/ AcquireNonPersistentMemory
    \/ ReleaseNonPersistentMemory
    \/ \E t \in graph.inputs, n \in Sizes : ResizeInputTensor(t, n)
    \/ FeedInputs
    \/ InvokeStart
    \/ InvokePrepare
    \/ InvokePrepareFails
    \/ InvokeReturns
    \/ InvokeNode
    \/ InvokeNodeFails

Spec == Init /\ [][Next]_vars

-----------------------------------------------------------------------------
(* Type invariant of the planner and of the loop of Invoke.                *)
TypeOK ==
    /\ graph.inputs \cup graph.outputs \cup graph.variables \subseteq Tensors
    /\ bytes \in [Tensors -> Sizes]
    /\ data \in [Tensors -> Nat \cup {Null}]
    /\ state \in {"uninvokable", "invokable"}
    /\ next_to_prepare \in 0 .. NumNodes
    /\ next_to_plan \in 0 .. NumNodes
    /\ pc \in {"idle", "prepare", "run"}
    /\ exec \in 0 .. NumNodes - 1
    /\ fed \in BOOLEAN
    /\ done \in BOOLEAN
    /\ initialized \subseteq 0 .. NumNodes - 1

(* The values somebody still relies on, told from the graph and not from   *)
(* the plan: inputs once they are written, variables once they are zeroed, *)
(* what nodes that have run produced and later nodes or the user will      *)
(* read, and the outputs of a finished Invoke that nodes have produced.    *)
Live ==
    (IF fed THEN graph.inputs ELSE {})
    \cup (IF state = "invokable" THEN graph.variables ELSE {})
    \cup (IF done THEN graph.outputs \ (graph.inputs \cup graph.variables) ELSE {})
    \cup (IF pc = "idle" THEN {}
          ELSE {t \in UNION {Node(j).outputs : j \in 0 .. exec - 1} :
                   t \in graph.outputs \/ \E k \in exec .. NumNodes - 1 : t \in NodeInputs(k)})

(* No live value is ever damaged: not by a tensor that shares its memory,  *)
(* not by planning again in the middle of Invoke, not by failed attempts.  *)
LiveValuesIntact ==
    \A t \in Live : InArena(t) /\ bytes[t] > 0 =>
        /\ data[t] # Null
        /\ \A b \in data[t] .. data[t] + bytes[t] - 1 : memory[ArenaOf(t)][b] = t

(* A value in use stays where it is: planning the rest of the graph, again *)
(* or for the first time, and acquiring memory never move it in its arena. *)
LiveValuesStay ==
    [][\A t \in Live \cap Live' : InArena(t) /\ data[t] # Null => data'[t] = data[t]]_vars

(* When a node is about to run, it has been prepared and planned, and each *)
(* of its tensors has the memory that its present size needs.              *)
ReadyToRun ==
    pc = "run" =>
        /\ exec < next_to_prepare /\ next_to_prepare = next_to_plan
        /\ \A t \in NodeInputs(exec) \cup Node(exec).outputs \cup Node(exec).temporaries :
              InArena(t) /\ bytes[t] > 0 =>
                 /\ data[t] = planner.allocs[t].offset
                 /\ planner.allocs[t].size = bytes[t]

(* When a node is about to run, its inputs have the sizes it was prepared  *)
(* for: "Force execution prep for downstream ops if the latest op          *)
(* triggered the resize of a dynamic tensor" (core/subgraph.cc:1063).      *)
PreparedForInputs ==
    pc = "run" => prepared[exec] = InputSizes(exec, bytes)

(* Once a node has filled in a constant output, the output stays: an       *)
(* ArenaRwPersistent tensor is "Arena allocated but persistent across      *)
(* eval" (c/common.h).  It is looked at while the node's plan stands.      *)
PersistentAcrossEval ==
    \A i \in initialized : \A t \in Node(i).outputs :
        IsPersistent(t) /\ i < next_to_plan /\ data[t] # Null =>
            \A b \in data[t] .. data[t] + bytes[t] - 1 : memory["persistent"][b] = t

(* The usage intervals that PlanAllocations computes by counting           *)
(* references are the ones told from the graph: from the first node that   *)
(* writes a tensor (node 0 for inputs and variables) to the last one that  *)
(* reads it, and to the end for inputs, outputs, variables and what nobody *)
(* reads.                                                                  *)
LifetimesExact ==
    planner.exists =>
    \A t \in Tensors :
        LET writers == {i \in 0 .. NumNodes - 1 : t \in Node(i).outputs}
            readers == {i \in 0 .. NumNodes - 1 : t \in NodeInputs(i)}
            kept    == t \in graph.inputs \cup graph.outputs \cup graph.variables
            given   == t \in graph.inputs \cup graph.variables
            temp    == \E i \in 0 .. NumNodes - 1 : t \in Node(i).temporaries
        IN  ~temp =>
              /\ planner.alloc_node[t] = IF given THEN 0
                                         ELSE IF writers = {} THEN NodeNotAssigned
                                              ELSE Min(writers)
              /\ planner.dealloc_node[t] =
                    IF kept \/ readers = {} \/ writers = {} THEN NodeNotAssigned
                    ELSE Max(readers)
=============================================================================
