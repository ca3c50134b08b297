------------------------------- MODULE Subgraph -------------------------------
(***************************************************************************)
(* tflite::Subgraph (tensorflow/lite/core/subgraph.{h,cc}) with delegates: *)
(* how an execution plan is changed, undone and redone, when its nodes are *)
(* prepared and when its memory is planned.  Operations are operators on a *)
(* record; one that may fail has a set of outcomes [status, sg].  The      *)
(* module Interpreter makes a state machine of them.                       *)
(*                                                                         *)
(* Shapes and values are abstracted to whether they are right: shaped are  *)
(* the tensors with the shape that the present size of the inputs gives,   *)
(* ready the nodes that were last prepared for right shapes, fresh the     *)
(* tensors whose memory holds the value of the present inference, and      *)
(* buffered those of which a buffer of the delegate does.  Memory itself   *)
(* is the matter of ArenaPlanner: here it counts which execution plan the  *)
(* planner knows the lifetimes of.                                         *)
(***************************************************************************)
EXTENDS PartitionOps

CONSTANTS
    Delegates,       \* the delegates
    AllowsDynamic,   \* those with kTfLiteDelegateFlagsAllowDynamicTensors
    WantsShapes,     \* those with kTfLiteDelegateFlagsRequirePropagatedShapes
    NoDelegate       \* a null TfLiteDelegate*

ASSUME SubgraphAssumption ==
    /\ AllowsDynamic \subseteq Delegates
    /\ WantsShapes \subseteq AllowsDynamic
    /\ NoDelegate \notin Delegates

-----------------------------------------------------------------------------
(* A graph g: for each node what it reads and writes (node n is the n-th), *)
(* the inputs and outputs of the graph, the tensors whose size is known    *)
(* only when they are written, the nodes that each delegate takes, and     *)
(* faults, what may fail: the Prepare of a node of the model, of a kernel  *)
(* or of a delegate, and the Invoke of a node or a kernel ("cpu_prepare",  *)
(* "kernel_prepare", "delegate_prepare", "cpu_invoke", "kernel_invoke").   *)
(* Tensors are numbers.  inputs() has no dynamic tensors.                  *)
NumOriginal(g) == Len(g.reads)
GraphTensors(g) == ReadsOf(g.reads, DOMAIN g.reads) \cup WritesOf(g.writes, DOMAIN g.writes)

(* A graph that the interpreter accepts: nodes in the order of the model   *)
(* come behind those whose outputs they read, a tensor is written once.    *)
IsGraph(g) ==
    LET nodes == 1 .. NumOriginal(g)
    IN  /\ nodes # {}
        /\ g.reads \in Seq(SUBSET Nat) /\ g.writes \in Seq(SUBSET Nat)
        /\ Len(g.writes) = NumOriginal(g)
        /\ g.in \cup g.out \cup g.dynamic \subseteq GraphTensors(g)
        /\ g.in \cap (g.dynamic \cup WritesOf(g.writes, nodes)) = {}
        /\ \A m, n \in nodes : m # n => g.writes[m] \cap g.writes[n] = {}
        /\ \A n \in nodes : g.reads[n] \subseteq g.in \cup WritesOf(g.writes, 1 .. n - 1)
        /\ g.takes \in [Delegates -> SUBSET nodes]

OriginalNode(g, n) == [inputs |-> g.reads[n], outputs |-> g.writes[n],
                       delegate |-> NoDelegate, runs |-> <<n>>]

(* A subgraph with all its nodes added.  planner is <<>> as long as there  *)
(* is no memory planner, and then <<the plan that it has planned>>.        *)
NewSubgraph(g) ==
    [nodes           |-> [n \in 1 .. NumOriginal(g) |-> OriginalNode(g, n)],
     plan            |-> [n \in 1 .. NumOriginal(g) |-> n],
     pre_plan        |-> <<>>,
     state           |-> "uninvokable",
     applied         |-> <<>>,
     undone          |-> FALSE,
     planner         |-> <<>>,
     next_to_prepare |-> 1,
     has_dynamic     |-> FALSE,
     shaped          |-> g.in,
     ready           |-> {},
     delegate        |-> [t \in GraphTensors(g) |-> NoDelegate],
     handle          |-> {},
     stale           |-> {},
     fresh           |-> {},
     buffered        |-> {}]

Outcome(status, s) == [status |-> status, sg |-> s]

-----------------------------------------------------------------------------
(* OpPrepare.  A CPU kernel sizes its outputs from its inputs, and so does *)
(* the kernel of a delegate for dynamic tensors, unless it relies on the   *)
(* shapes it finds.  Dynamic outputs are sized when the node runs.         *)
SizesOutputs(node) == node.delegate = NoDelegate \/ node.delegate \in AllowsDynamic \ WantsShapes

PrepareNode(g, s, n) ==
    LET node  == s.nodes[n]
        sized == node.outputs \ g.dynamic
        right == node.inputs \subseteq s.shaped
    IN  IF SizesOutputs(node)
        THEN [s EXCEPT !.shaped = IF right THEN @ \cup sized ELSE @ \ sized,
                       !.ready  = IF right THEN @ \cup {n} ELSE @ \ {n}]
        ELSE [s EXCEPT !.ready = IF right /\ sized \subseteq s.shaped THEN @ \cup {n}
                                                                      ELSE @ \ {n}]

PrepareMayFail(g, node) ==
    (IF node.delegate = NoDelegate THEN "cpu_prepare" ELSE "kernel_prepare") \in g.faults

HasDynamicOutputs(g, s, n) == s.nodes[n].outputs \cap g.dynamic # {}

(* PrepareOpsStartingAt: up to the first node with dynamic outputs, or to  *)
(* a node that fails.  last is *last_execution_plan_index_prepared.        *)
PrepareOpsStartingAt(g, s, first, plan) ==
    LET stops == {k \in first .. Len(plan) : HasDynamicOutputs(g, s, plan[k])}
        stop  == IF stops = {} THEN Len(plan) ELSE CHOOSE k \in stops : \A j \in stops : k <= j
        start == IF first = 1 THEN [s EXCEPT !.has_dynamic = FALSE] ELSE s
        after[k \in first - 1 .. stop] ==
            IF k < first THEN start ELSE PrepareNode(g, after[k - 1], plan[k])
        all   == IF stops = {} THEN after[stop] ELSE [after[stop] EXCEPT !.has_dynamic = TRUE]
    IN  {[status |-> "ok", sg |-> all, last |-> stop]} \cup
        {[status |-> "error", sg |-> after[k - 1], last |-> k - 1] :
            k \in {j \in first .. stop : PrepareMayFail(g, s.nodes[plan[j]])}}

(* Mutant of PrepareOpsAndTensors: the counter is one too far.             *)
PrepareOpsAndTensorsTooFar(g, s) ==
    {IF r.status = "ok"
     THEN Outcome("ok", [r.sg EXCEPT !.next_to_prepare = r.last + 2])
     ELSE Outcome(r.status, r.sg) :
        r \in PrepareOpsStartingAt(g, [s EXCEPT !.planner = IF @ = <<>> THEN <<s.plan>> ELSE @],
                                   s.next_to_prepare, s.plan)}

(* PrepareOpsAndTensors.  The planner is made once, and plans then.  The   *)
(* original plan is prepared first if a delegate relies on shapes, from    *)
(* the counter that belongs to the present plan.                           *)
PrepareOpsAndTensors(g, s) ==
    LET s1 == [s EXCEPT !.planner = IF @ = <<>> THEN <<s.plan>> ELSE @]
        prepare_original_plan ==
            s.pre_plan # <<>> /\ \E d \in Elements(s.applied) : d \in WantsShapes
        original == IF prepare_original_plan
                    THEN PrepareOpsStartingAt(g, s1, s1.next_to_prepare, s1.pre_plan)
                    ELSE {Outcome("ok", s1)}
    IN  UNION {IF o.status # "ok" THEN {Outcome(o.status, o.sg)}
               ELSE {IF r.status = "ok"
                     THEN Outcome("ok", [r.sg EXCEPT !.next_to_prepare = r.last + 1])
                     ELSE Outcome(r.status, r.sg) :
                        r \in PrepareOpsStartingAt(g, o.sg, o.sg.next_to_prepare, o.sg.plan)} :
               o \in original}

(* AllocateTensors, behind RedoAllDelegates.  New memory has no values.    *)
Allocate(g, s) ==
    IF s.state # "uninvokable" THEN {Outcome("ok", s)}
    ELSE {IF r.status = "ok" THEN Outcome("ok", [r.sg EXCEPT !.state = "invokable"]) ELSE r :
            r \in PrepareOpsAndTensors(g, [s EXCEPT !.next_to_prepare = 1, !.fresh = {}])}

(* Mutant of EnsureMemoryAllocations: the lifetimes stay as they are.      *)
EnsureMemoryAllocationsOldPlan(g, s) ==
    Allocate(g, IF s.planner = <<>> THEN s ELSE [s EXCEPT !.state = "uninvokable"])

EnsureMemoryAllocations(g, s) ==
    LET s1 == IF s.planner = <<>> THEN s
              ELSE [s EXCEPT !.state = "uninvokable", !.planner = <<s.plan>>]
    IN  {IF r.status = "ok" /\ r.sg.state # "invokable" THEN Outcome("error", r.sg) ELSE r :
            r \in Allocate(g, s1)}

-----------------------------------------------------------------------------
(* Mutant of UndoAllDelegates: the kernels are freed and stay in the plan. *)
UndoAllDelegatesKeepsPlan(s) ==
    IF s.pre_plan = <<>> THEN s
    ELSE [s EXCEPT !.pre_plan = <<>>, !.state = "uninvokable", !.undone = TRUE]

(* UndoAllDelegates: the plan before the first delegate, and no node       *)
(* behind the last one that it runs.  What tensors know of delegates and   *)
(* their buffers stays.                                                    *)
UndoAllDelegates(s) ==
    IF s.pre_plan = <<>> THEN s
    ELSE LET last == CHOOSE n \in Elements(s.pre_plan) : \A m \in Elements(s.pre_plan) : m <= n
         IN  [s EXCEPT !.plan     = s.pre_plan,
                       !.pre_plan = <<>>,
                       !.nodes    = SubSeq(@, 1, last),
                       !.ready    = @ \cap 1 .. last,
                       !.state    = "uninvokable",
                       !.undone   = TRUE]

RemoveAllDelegates(g, s) ==
    EnsureMemoryAllocations(g, [UndoAllDelegates(s) EXCEPT !.applied = <<>>, !.undone = FALSE])

(* The iteration of ReplaceNodeSubsetsWithDelegateKernels for one subset:  *)
(* a node for the delegate, which must not find another delegate at its    *)
(* outputs.  They are taken in the order of their numbers.                 *)
ReplaceSubset(r, subset, d) ==
    IF r.status # "ok" THEN r
    ELSE IF subset.type = "non_partition"
    THEN [r EXCEPT !.sg.plan = @ \o subset.nodes]
    ELSE LET s     == r.sg
             n     == Len(s.nodes) + 1
             taken == {t \in subset.output_tensors : s.delegate[t] \notin {NoDelegate, d}}
             set   == {t \in subset.output_tensors : \A u \in taken : t < u}
             node  == [inputs |-> subset.input_tensors, outputs |-> subset.output_tensors,
                       delegate |-> IF taken = {} THEN d ELSE NoDelegate, runs |-> subset.nodes]
             s1    == [s EXCEPT !.nodes    = Append(@, node),
                                !.plan     = Append(@, n),
                                !.state    = "uninvokable",
                                !.delegate = [t \in DOMAIN @ |-> IF t \in set THEN d ELSE @[t]]]
         IN  Outcome(IF taken = {} THEN "ok" ELSE "error", s1)

ReplaceNodeSubsetsWithDelegateKernels(g, s, d, claimed) ==
    IF claimed = {} THEN Outcome("ok", s)
    ELSE LET in  == [n \in DOMAIN s.nodes |-> s.nodes[n].inputs]
             out == [n \in DOMAIN s.nodes |-> s.nodes[n].outputs]
         IN  Fold(LAMBDA r, subset : ReplaceSubset(r, subset, d),
                  Outcome("ok", [s EXCEPT !.plan = <<>>]),
                  Partition(s.plan, in, out, g.out, claimed))

(* TfLiteDelegate::Prepare: the delegate asks for the nodes that it takes  *)
(* and that are still those of the model, and may fail before or after.    *)
DelegatePrepare(g, s, d) ==
    LET claimed  == {n \in g.takes[d] \cap Elements(s.plan) : s.nodes[n].delegate = NoDelegate}
        replaced == ReplaceNodeSubsetsWithDelegateKernels(g, s, d, claimed)
    IN  {replaced} \cup IF "delegate_prepare" \in g.faults
                        THEN {Outcome("error", s), Outcome("error", replaced.sg)}
                        ELSE {}

(* reset_delegation_if_not_ok, for a status that is not.                   *)
ResetDelegation(g, s) ==
    {IF r.status = "ok" THEN Outcome("delegate_error", r.sg) ELSE r : r \in RemoveAllDelegates(g, s)}

(* The outcomes of the rest of the function, by f, where r was successful. *)
Then(outcomes, f(_)) ==
    UNION {IF r.status = "ok" THEN f(r.sg) ELSE {Outcome(r.status, r.sg)} : r \in outcomes}

(* ModifyGraphWithDelegate behind delegate->Prepare, for a graph that was  *)
(* invokable before, or not.                                               *)
FinishDelegation(g, s, d, was_invokable) ==
    LET Applied(q) == [q EXCEPT !.applied = Append(@, d)]
        Ensured(q, state) ==
            UNION {IF r.status = "ok" THEN {Outcome("ok", Applied([r.sg EXCEPT !.state = state]))}
                   ELSE ResetDelegation(g, r.sg) : r \in EnsureMemoryAllocations(g, q)}
    IN  IF d \notin AllowsDynamic THEN Ensured([s EXCEPT !.state = "uninvokable"], "immutable")
        ELSE IF was_invokable     THEN Ensured(s, "invokable")
        ELSE {Outcome("ok", Applied(s))}

(* ModifyGraphWithDelegate from the call of the delegate's Prepare on.     *)
ApplyPrepared(g, s, d) ==
    LET s1 == IF s.applied = <<>> THEN [s EXCEPT !.pre_plan = s.plan] ELSE s
    IN  UNION {IF r.status = "ok"
               THEN FinishDelegation(g, r.sg, d, s.state = "invokable")
               ELSE ResetDelegation(g, r.sg) : r \in DelegatePrepare(g, s1, d)}

(* ModifyGraphWithDelegate behind RedoAllDelegates.                        *)
ApplyDelegate(g, s, d) ==
    LET Refuse(q) == {IF r.status = "ok" THEN Outcome("application_error", r.sg) ELSE r :
                        r \in EnsureMemoryAllocations(g, q)}
        Checked(q) == IF q.has_dynamic THEN Refuse(q) ELSE ApplyPrepared(g, q, d)
    IN  IF s.state = "immutable"    THEN {Outcome("application_error", s)}
        ELSE IF d \in AllowsDynamic THEN ApplyPrepared(g, s, d)
        ELSE Then(PrepareOpsStartingAt(g, s, 1, s.plan), Checked)

(* Mutant of RedoAllDelegates: without effect.                             *)
RedoAllDelegatesForgets(g, s) == {Outcome("ok", [s EXCEPT !.undone = FALSE, !.applied = <<>>])}

(* RedoAllDelegates, which stops at the first delegate that fails.         *)
RedoAllDelegates(g, s) ==
    IF ~s.undone THEN {Outcome("ok", s)}
    ELSE Fold(LAMBDA rs, d : Then(rs, LAMBDA q : ApplyDelegate(g, q, d)),
              {Outcome("ok", [s EXCEPT !.undone = FALSE, !.applied = <<>>])}, s.applied)

ModifyGraphWithDelegate(g, s, d) ==
    Then(RedoAllDelegates(g, s), LAMBDA q : ApplyDelegate(g, q, d))

AllocateTensors(g, s) == Then(RedoAllDelegates(g, s), LAMBDA q : Allocate(g, q))

(* ResizeInputTensor with other dimensions than the tensor has.            *)
ResizeInputTensor(g, s) ==
    IF s.state = "immutable" /\ s.pre_plan = <<>> THEN Outcome("error", s)
    ELSE LET s1 == IF s.state = "immutable" THEN UndoAllDelegates(s) ELSE s
         IN  Outcome("ok", [s1 EXCEPT !.state = "uninvokable", !.shaped = g.in, !.ready = {},
                                      !.fresh = {}])

-----------------------------------------------------------------------------
(* EnsureTensorDataIsReadable, for those of ts that are stale.             *)
EnsureReadable(s, ts) ==
    LET copy == ts \cap s.stale
    IN  IF \E t \in copy : s.delegate[t] = NoDelegate \/ t \notin s.handle
        THEN Outcome("error", s)
        ELSE Outcome("ok", [s EXCEPT !.fresh = (@ \ copy) \cup (s.buffered \cap copy),
                                     !.stale = @ \ copy])

(* The loop of Invoke over the inputs of a node.                           *)
FetchInputs(s, n) ==
    LET node == s.nodes[n]
    IN  EnsureReadable(s, {t \in node.inputs : s.delegate[t] \notin {NoDelegate, node.delegate}})

(* OpInvoke.  A kernel of a delegate uses the buffers that tensors have    *)
(* for it, and says so with data_is_stale.                                 *)
RunNode(s, n) ==
    LET node  == s.nodes[n]
        own   == IF node.delegate = NoDelegate THEN {}
                 ELSE {t \in s.handle : s.delegate[t] = node.delegate}
        right == \A t \in node.inputs :
                    IF t \in own \cap s.stale THEN t \in s.buffered ELSE t \in s.fresh
        raw   == node.outputs \ own
        buf   == node.outputs \cap own
    IN  [s EXCEPT !.fresh    = IF right THEN (@ \ buf) \cup raw ELSE @ \ node.outputs,
                  !.buffered = IF right THEN @ \cup buf ELSE @ \ buf,
                  !.stale    = @ \cup buf]

(* The nodes of the plan whose shapes follow from those of ts.             *)
DownstreamNodes(s, ts) ==
    LET Readers(us) == {n \in Elements(s.plan) : s.nodes[n].inputs \cap us # {}}
    IN  Fold(LAMBDA ns, k : ns \cup Readers(UNION {s.nodes[n].outputs : n \in ns}),
             Readers(ts), s.plan)

(* The dynamic outputs of the node at place k of the plan have their size; *)
(* if that is a new one, nodes behind it are prepared again, and shapes    *)
(* inside them are not those of before.                                    *)
ResizedOutputs(g, s, k, resized) ==
    LET outs  == s.nodes[s.plan[k]].outputs \cap g.dynamic
        below == DownstreamNodes(s, outs)
        inner == UNION {Elements(s.nodes[n].runs) : n \in below}
    IN  IF ~resized THEN [s EXCEPT !.shaped = @ \cup outs]
        ELSE [s EXCEPT !.shaped = (@ \ WritesOf(g.writes, inner)) \cup outs,
                       !.ready  = @ \ (below \cup inner),
                       !.next_to_prepare = k + 1]
=============================================================================
