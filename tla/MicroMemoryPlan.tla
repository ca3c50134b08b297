--------------------------- MODULE MicroMemoryPlan ---------------------------
(***************************************************************************)
(* CommitStaticMemoryPlan of the micro runtime (micro/micro_allocator.cc): *)
(* lifetimes of the tensors and scratch buffers of a model, their plan by  *)
(* GreedyMemoryPlanner, and operators that run in the planned memory.      *)
(* Tensors are numbered from 1, scratch buffers after them; operators from *)
(* 0, which are the times of the planner.                                  *)
(***************************************************************************)
EXTENDS Integers, Sequences, SeqOps

CONSTANTS
    Graphs,     \* models: bytes of each tensor; inputs, outputs, preset (with data in
                \* the flatbuffer) and variables, sets of tensors; ops, with inputs and
                \* outputs; scratch requests, with node and bytes; offline offsets, <<>>
                \* without metadata
    MaxBuffers, \* of GreedyMemoryPlanner
    BufferAlign \* kBufferAlignment

VARIABLES
    requirements, need, offsets, entries, searching, prior, candidate_offset,  \* the planner
    graph,   \* the model
    info,    \* the AllocationInfo array
    data,    \* the offset of each tensor and scratch buffer, NullData without memory
    pc, at,  \* where CommitStaticMemoryPlan or Invoke is, and its loop counter
    intact   \* what is in the memory of tensors and scratch buffers is still theirs

planner == <<requirements, need, offsets, entries, searching, prior, candidate_offset>>
vars    == <<planner, graph, info, data, pc, at, intact>>

NullData == -2

-----------------------------------------------------------------------------
(* AllocationInfoBuilder.  The lifetimes are a set of records, one for     *)
(* each tensor.                                                            *)
Tensors(g) == 1 .. Len(g.bytes)

InitialLifetimes(g) ==
    {[tensor |-> t,
      first_created |-> IF t \in g.inputs THEN 0 ELSE -1,
      last_used |-> IF t \in g.outputs THEN Len(g.ops) - 1 ELSE -1,
      needs_allocating |-> t \notin g.preset \cup g.variables] : t \in Tensors(g)}

(* Mutant of ReadBy: the last use is the one that is found last.           *)
ReadByOverwrites(op, i, starts, l) ==
    IF l.tensor \notin op.inputs THEN l ELSE [l EXCEPT !.last_used = i]

(* Operator i has l.tensor as an input; starts says that one of its inputs *)
(* is an input of the graph.                                               *)
ReadBy(op, i, starts, l) ==
    IF l.tensor \notin op.inputs THEN l
    ELSE [l EXCEPT
            !.first_created = IF starts /\ l.needs_allocating /\ @ = -1 THEN i ELSE @,
            !.last_used = IF @ = -1 \/ @ < i THEN i ELSE @]

WrittenBy(op, i, l) ==
    IF l.tensor \in op.outputs /\ (l.first_created = -1 \/ l.first_created > i)
    THEN [l EXCEPT !.first_created = i] ELSE l

(* The loop from the last operator to the first: inputs, then outputs.     *)
Visit(g, lifetimes, i) ==
    LET op     == g.ops[i + 1]
        starts == \E l \in lifetimes : l.tensor \in op.inputs /\ l.first_created = 0
    IN  {WrittenBy(op, i, ReadBy(op, i, starts, l)) : l \in lifetimes}

IsReadOnly(l) == l.first_created = -1 /\ l.last_used # -1

Lifetimes(g) ==
    LET n == Len(g.ops)
        used == Fold(LAMBDA acc, k : Visit(g, acc, n - k), InitialLifetimes(g), [k \in 1 .. n |-> k])
    IN  {[l EXCEPT !.needs_allocating = @ /\ ~IsReadOnly(l)] : l \in used}

(* GetOfflinePlannedOffsets or AddTensors returns an error.                *)
InfoFails(g) ==
    \/ g.offline # <<>> /\ Len(g.offline) # Len(g.bytes)
    \/ \E l \in Lifetimes(g) : l.needs_allocating /\ (l.first_created = -1 \/ l.last_used = -1)

(* AddTensors and AddScratchBuffers.                                       *)
TensorInfo(g, l) ==
    [bytes |-> g.bytes[l.tensor], needs_allocating |-> l.needs_allocating,
     first_created |-> l.first_created, last_used |-> l.last_used,
     offline_offset |-> IF g.offline = <<>> THEN -1 ELSE g.offline[l.tensor]]

ScratchInfo(request) ==
    [bytes |-> request.bytes, needs_allocating |-> TRUE,
     first_created |-> request.node, last_used |-> request.node, offline_offset |-> -1]

AllocationInfo(g) ==
    LET lifetimes == Lifetimes(g)
    IN  [t \in Tensors(g) |-> TensorInfo(g, CHOOSE l \in lifetimes : l.tensor = t)]
        \o [s \in 1 .. Len(g.scratch) |-> ScratchInfo(g.scratch[s])]

(* Mutant of AlignSizeUp: the size is rounded down.                        *)
AlignSizeDown(size) == (size \div BufferAlign) * BufferAlign

AlignSizeUp(size) == ((size + (BufferAlign - 1)) \div BufferAlign) * BufferAlign

(* What CreatePlan adds for an AllocationInfo.                             *)
Request(current) ==
    [size |-> AlignSizeUp(current.bytes),
     first_time_used |-> current.first_created, last_time_used |-> current.last_used,
     offline_offset |-> current.offline_offset]

Requests == UNION {{Request(a) : a \in {b \in Elements(AllocationInfo(g)) : b.needs_allocating}} :
                      g \in {h \in Graphs : ~InfoFails(h)}}

(* Tensors that nobody writes, neither the client nor an operator.         *)
OperatorOnly(g) ==
    Tensors(g) \ (g.inputs \cup g.preset \cup g.variables
                  \cup UNION {g.ops[k].outputs : k \in 1 .. Len(g.ops)})

(* Of two tensors with offline offsets that are in use at the same time,   *)
(* the offline plan keeps one in front of the other.                       *)
OfflineApart(g) ==
    LET all == AllocationInfo(g)
        planned == {t \in Tensors(g) : all[t].needs_allocating /\ all[t].offline_offset # -1}
    IN  \A t, u \in planned :
            \/ t = u
            \/ all[t].last_used < all[u].first_created \/ all[u].last_used < all[t].first_created
            \/ all[t].offline_offset + all[t].bytes <= all[u].offline_offset
            \/ all[u].offline_offset + all[u].bytes <= all[t].offline_offset

(* A model that the code is written for: operators come after those that   *)
(* write their inputs, a tensor is written by one operator or by the       *)
(* client, and one that nobody writes is an input of a single operator,    *)
(* which has an input of the graph too (TODO(b/166484865)).                *)
IsModel(g) ==
    LET n == Len(g.ops)
    IN  /\ g.bytes \in Seq(Nat) /\ g.offline \in Seq(Nat \cup {-1})
        /\ g.inputs \cup g.outputs \cup g.preset \cup g.variables \subseteq Tensors(g)
        /\ g.ops \in Seq([inputs : SUBSET Tensors(g), outputs : SUBSET Tensors(g)])
        /\ g.scratch \in Seq([node : 0 .. n - 1, bytes : Nat])
        /\ \A j, k \in 1 .. n : j # k => g.ops[j].outputs \cap g.ops[k].outputs = {}
        /\ \A k \in 1 .. n : g.ops[k].outputs \cap g.inputs = {}
        /\ \A j, k \in 1 .. n : g.ops[j].outputs \cap g.ops[k].inputs # {} => j < k
        /\ \A t \in OperatorOnly(g), k \in 1 .. n : t \in g.ops[k].inputs =>
              /\ g.ops[k].inputs \cap g.inputs # {}
              /\ \A j \in (1 .. n) \ {k} : t \notin g.ops[j].inputs
        /\ \A t \in OperatorOnly(g) \cap g.outputs : \E k \in 1 .. n : t \in g.ops[k].inputs

ASSUME MicroPlanAssumption ==
    /\ MaxBuffers \in Nat /\ BufferAlign \in Nat \ {0}
    /\ \A g \in Graphs : IsModel(g) /\ (~InfoFails(g) => OfflineApart(g))

P == INSTANCE GreedyMemoryPlanner WITH Requirements <- Requests

-----------------------------------------------------------------------------
Init ==
    /\ P!Init
    /\ graph \in Graphs /\ info = <<>> /\ data = <<>>
    /\ pc = "info" /\ at = 1 /\ intact = {}

BuildInfo ==
    /\ pc = "info"
    /\ IF InfoFails(graph) THEN pc' = "failed" /\ UNCHANGED info
                           ELSE pc' = "create" /\ info' = AllocationInfo(graph)
    /\ UNCHANGED <<planner, graph, data, at, intact>>

(* Mutant of CreatePlan: the status of AddBuffer is not looked at.         *)
CreatePlanUnchecked ==
    /\ pc = "create" /\ at <= Len(info)
    /\ IF info[at].needs_allocating /\ Len(requirements) < MaxBuffers
       THEN P!AddBuffer(Request(info[at])) ELSE UNCHANGED planner
    /\ at' = at + 1
    /\ UNCHANGED <<graph, info, data, pc, intact>>

(* CreatePlan adds what needs_allocating to the planner.                   *)
CreatePlan ==
    /\ pc = "create" /\ at <= Len(info)
    /\ IF ~info[at].needs_allocating
       THEN at' = at + 1 /\ UNCHANGED <<planner, pc>>
       ELSE IF Len(requirements) < MaxBuffers
       THEN at' = at + 1 /\ P!AddBuffer(Request(info[at])) /\ UNCHANGED pc
       ELSE pc' = "failed" /\ UNCHANGED <<planner, at>>
    /\ UNCHANGED <<graph, info, data, intact>>

(* GetMaximumMemorySize calculates the plan.                               *)
GetMaximumMemorySize ==
    /\ pc = "create" /\ at > Len(info)
    /\ IF requirements = <<>> THEN UNCHANGED planner ELSE P!CalculateOffsetsIfNeeded
    /\ pc' = "plan"
    /\ UNCHANGED <<graph, info, data, at, intact>>

Search == pc = "plan" /\ P!SearchStep /\ UNCHANGED <<graph, info, data, pc, at, intact>>

(* planner_index of AllocationInfo i.                                      *)
PlannerIndex(i) == Fold(LAMBDA n, a : IF a.needs_allocating THEN n + 1 ELSE n, 0, SubSeq(info, 1, i))

(* Each AllocationInfo gets the offset of its buffer of the planner.       *)
CommitPlan ==
    /\ pc = "plan" /\ ~searching
    /\ data' = [i \in 1 .. Len(info) |-> IF info[i].needs_allocating
                                         THEN offsets[PlannerIndex(i)] ELSE NullData]
    /\ pc' = "ready" /\ at' = 0
    /\ UNCHANGED <<planner, graph, info, intact>>

-----------------------------------------------------------------------------
ShareBytes(x, y) == data[x] < data[y] + info[y].bytes /\ data[y] < data[x] + info[x].bytes

(* W is written, as far as it has memory.                                  *)
Write(W) ==
    LET placed == {x \in W : data[x] # NullData}
    IN  intact' = {x \in intact \cup placed : \A y \in placed \ {x} : ~ShareBytes(x, y)}

(* The client fills in the inputs.                                         *)
SetInputs ==
    /\ pc = "ready"
    /\ Write(graph.inputs)
    /\ pc' = "run" /\ at' = 0
    /\ UNCHANGED <<planner, graph, info, data>>

(* What operator i writes for itself: inputs that only it has, which it    *)
(* uses as scratch memory, and scratch buffers.                            *)
ScratchOf(i) ==
    (graph.ops[i + 1].inputs \cap OperatorOnly(graph))
        \cup {Len(graph.bytes) + s : s \in {r \in 1 .. Len(graph.scratch) : graph.scratch[r].node = i}}

(* Operator at runs; it may write before it has read all of its inputs.    *)
InvokeNode ==
    /\ pc = "run" /\ at < Len(graph.ops)
    /\ Write(graph.ops[at + 1].outputs \cup ScratchOf(at))
    /\ at' = at + 1
    /\ UNCHANGED <<planner, graph, info, data, pc>>

(* The client has looked at the outputs.                                   *)
InvokeDone ==
    /\ pc = "run" /\ at = Len(graph.ops)
    /\ pc' = "ready" /\ at' = 0
    /\ UNCHANGED <<planner, graph, info, data, intact>>

CommitStaticMemoryPlan == BuildInfo \/ CreatePlan \/ GetMaximumMemorySize \/ Search \/ CommitPlan

Next == CommitStaticMemoryPlan \/ SetInputs \/ InvokeNode \/ InvokeDone

Spec == Init /\ [][Next]_vars

-----------------------------------------------------------------------------
(* The value of x is where an operator or the client looks for it; preset  *)
(* and variable tensors have memory of their own.                          *)
Held(x) == x \in graph.preset \cup graph.variables \/ x \in intact

(* "Figure out when the first and last use of each tensor is" (micro_      *)
(* allocator.cc): while an operator runs, none of its inputs, outputs and  *)
(* scratch buffers is overwritten, by it or by one before it; "Mark all    *)
(* outputs as persistent to the end of the invocation": outputs are there  *)
(* when all have run.                                                      *)
OperandsHeld ==
    pc = "run" /\ at > 0 =>
        /\ \A x \in graph.ops[at].inputs \cup graph.ops[at].outputs \cup ScratchOf(at - 1) : Held(x)
        /\ at = Len(graph.ops) => \A x \in graph.outputs : Held(x)

(* Tensors and scratch buffers end in the memory that GetMaximumMemorySize *)
(* asks for, which CommitStaticMemoryPlan compares with what is available. *)
InsidePlan ==
    pc \in {"ready", "run"} => \A x \in DOMAIN data :
        data[x] # NullData => data[x] + info[x].bytes <= P!GetMaximumMemorySize

UsedTogether(x, y) ==
    /\ info[x].first_created <= info[y].last_used
    /\ info[y].first_created <= info[x].last_used

(* "Too many buffers" (greedy_memory_planner.cc): a plan is refused only   *)
(* for wrong offline offsets, a tensor without a use or writer, or when    *)
(* more buffers are needed than the planner has room for; otherwise each   *)
(* tensor and scratch buffer that needs memory has a buffer, and those in  *)
(* use at the same time share no byte.                                     *)
AllPlanned ==
    /\ pc = "failed" => InfoFails(graph) \/ PlannerIndex(Len(info)) > MaxBuffers
    /\ pc \in {"plan", "ready", "run"} => Len(requirements) = PlannerIndex(Len(info))
    /\ pc \in {"ready", "run"} =>
          \A x, y \in {i \in DOMAIN info : info[i].needs_allocating} :
              x # y /\ UsedTogether(x, y) => ~ShareBytes(x, y)
=============================================================================
