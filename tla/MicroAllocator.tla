---------------------------- MODULE MicroAllocator ----------------------------
(***************************************************************************)
(* MicroAllocator and MicroInterpreter of the micro runtime                *)
(* (micro/micro_allocator.{h,cc}, micro/micro_interpreter.cc): several     *)
(* interpreters with one allocator, each of which plans its tensors into   *)
(* the head section that all of them share.  A step makes at most one call *)
(* of SimpleMemoryAllocator, so that kernels and failures can come between *)
(* any two of them.                                                        *)
(***************************************************************************)
EXTENDS SimpleMemoryAllocator, Sequences

CONSTANTS
    Models,       \* the models, one interpreter each
    NumNodes,     \* operators of a model
    PlanBytes,    \* GreedyMemoryPlanner::GetMaximumMemorySize for each model
    VarBytes,     \* bytes of its variable tensors
    Size,         \* sizes of the structures kept in the arena, see below
    MaxScratch,   \* kMaxScratchBuffersPerOp
    MaxRequests,  \* bound: scratch buffer requests of a model
    BufferAlign,  \* kBufferAlignment
    StructAlign,  \* alignment of the structures
    KernelTemps,  \* bound: tensors that a kernel looks at
    Again         \* whether clients call AllocateTensors again after it succeeded

(* Structures and blocks are smaller than the address of the buffer.       *)
ASSUME MicroAssumption ==
    /\ {BufferAlign, StructAlign} \subseteq Alignments
    /\ NumNodes \in Nat \ {0} /\ MaxScratch \in Nat \ {0} /\ MaxRequests \in Nat
    /\ KernelTemps \in Nat /\ Again \in BOOLEAN
    /\ PlanBytes \in [Models -> Nat] /\ VarBytes \in [Models -> 0 .. BufferHead]
    /\ Size \in [{"request", "eval", "nodes", "buffer", "handle", "info", "planner", "tensor"}
                 -> 0 .. BufferHead]
    /\ \A n \in 0 .. MaxRequests : Size["handle"] * n <= BufferHead

VARIABLES
    allocating,  \* model_is_allocating_
    max_head,    \* max_head_buffer_usage_
    requests,    \* the node of each scratch buffer request, 0 while it is unassigned
    interp,      \* for each model the fields of its MicroInterpreter
    tensors,     \* the TfLiteTensors that clients have from input(), output() and tensor()
    pc, cur,     \* what runs, for which model
    invoking,    \* AllocateTensors was called by Invoke
    node,        \* the operator
    handles      \* scratch_buffer_handles is not null where it is needed

vars == <<arena, allocating, max_head, requests, interp, tensors, pc, cur, invoking, node, handles>>

Init ==
    /\ AllocatorInit
    /\ allocating = FALSE /\ max_head = 0 /\ requests = <<>>
    /\ interp = [m \in Models |-> [init_ok |-> TRUE, allocated |-> FALSE, eval |-> "null"]]
    /\ tensors = {}
    /\ pc = "idle" /\ cur \in Models /\ invoking = FALSE /\ node = 1 /\ handles = TRUE

(* Other variables than those of the arena and of control.                 *)
Keep == UNCHANGED <<allocating, max_head, requests, interp, tensors, handles>>

GoTo(where) == pc' = where /\ UNCHANGED <<cur, invoking, node>>

-----------------------------------------------------------------------------
(* AllocateTensors, up to model_is_allocating_ in StartModelAllocation.    *)
AllocateTensors(m, by_invoke) ==
    IF allocating
    THEN /\ interp' = [interp EXCEPT ![m].init_ok = FALSE]
         /\ UNCHANGED <<arena, allocating, max_head, requests, tensors, pc, cur, invoking, node, handles>>
    ELSE /\ allocating' = TRUE
         /\ pc' = "scratch" /\ cur' = m /\ invoking' = by_invoke /\ node' = 1
         /\ UNCHANGED <<arena, max_head, requests, interp, tensors, handles>>

CallAllocateTensors(m) ==
    /\ pc = "idle"
    /\ Again \/ ~interp[m].allocated
    /\ AllocateTensors(m, FALSE)

(* Mutant of CallInvoke: tensors_allocated_ is not looked at.              *)
CallInvokeAnyway(m) ==
    /\ pc = "idle"
    /\ interp[m].init_ok
    /\ pc' = "run" /\ cur' = m /\ node' = 1 /\ UNCHANGED invoking /\ Keep /\ UNCHANGED arena

(* Invoke allocates tensors that are not, and runs the operators.          *)
CallInvoke(m) ==
    /\ pc = "idle"
    /\ interp[m].init_ok
    /\ IF interp[m].allocated
       THEN pc' = "run" /\ cur' = m /\ node' = 1 /\ UNCHANGED invoking /\ Keep /\ UNCHANGED arena
       ELSE AllocateTensors(m, TRUE)

(* StartModelAllocation fails, and model_is_allocating_ stays set.         *)
StartFails ==
    /\ interp' = [interp EXCEPT ![cur].init_ok = FALSE]
    /\ GoTo("idle")
    /\ UNCHANGED <<allocating, max_head, requests, tensors, handles>>

(* Mutant of Fails: model_is_allocating_ is cleared.                       *)
FailsFinished ==
    /\ GoTo("idle")
    /\ allocating' = FALSE
    /\ UNCHANGED <<arena, max_head, requests, interp, tensors, handles>>

(* A later part of AllocateTensors fails.                                  *)
Fails == GoTo("idle") /\ UNCHANGED arena /\ Keep

InitScratchBufferData ==
    LET size == Size["request"] * MaxScratch
    IN  /\ pc = "scratch"
        /\ \/ /\ SetHeadBufferSize(size, StructAlign)
              /\ requests' = <<>>
              /\ GoTo("eval")
              /\ UNCHANGED <<allocating, max_head, interp, tensors, handles>>
           \/ ~HeadFits(size, StructAlign) /\ StartFails /\ UNCHANGED arena

(* A tensor of the flatbuffer may be wrong, after part of the memory is    *)
(* taken.                                                                  *)
AllocateTfLiteEvalTensors ==
    /\ pc = "eval"
    /\ \/ /\ AllocateFromTail(Size["eval"], StructAlign)
          /\ interp' = [interp EXCEPT ![cur].eval = "unplanned"]
          /\ GoTo("nodes")
          /\ UNCHANGED <<allocating, max_head, requests, tensors, handles>>
       \/ AllocateFromTail(Size["eval"], StructAlign) /\ StartFails
       \/ ~TailFits(Size["eval"], StructAlign) /\ StartFails /\ UNCHANGED arena

(* AllocateNodeAndRegistrations, with what parsers allocate; an operator   *)
(* may be unknown or not parse.                                            *)
AllocateNodes ==
    /\ pc = "nodes"
    /\ \/ AllocateFromTail(Size["nodes"], StructAlign) /\ GoTo("prepare") /\ Keep
       \/ AllocateFromTail(Size["nodes"], StructAlign) /\ StartFails
       \/ ~TailFits(Size["nodes"], StructAlign) /\ StartFails /\ UNCHANGED arena

-----------------------------------------------------------------------------
(* What kernels may ask for.  GetTensor is AllocateTempTfLiteTensor, which *)
(* fills in the structure without a check for null.                        *)
KernelGetTensor ==
    /\ pc \in {"prepare", "run"}
    /\ Cardinality(temps) < KernelTemps
    /\ \/ AllocateTemp(Size["tensor"], StructAlign) /\ GoTo(pc) /\ Keep
       \/ ~TempFits(Size["tensor"], StructAlign) /\ GoTo("crashed") /\ UNCHANGED arena /\ Keep

(* AllocatePersistentBuffer; without memory the kernel fails.              *)
KernelPersistentBuffer ==
    /\ pc = "prepare"
    /\ \/ AllocateFromTail(Size["buffer"], BufferAlign) /\ GoTo("prepare") /\ Keep
       \/ ~TailFits(Size["buffer"], BufferAlign) /\ Fails

RequestScratchBufferInArena ==
    /\ pc = "prepare"
    /\ Cardinality({i \in DOMAIN requests : requests[i] = 0}) < MaxScratch
    /\ Len(requests) < MaxRequests
    /\ requests' = Append(requests, 0)
    /\ GoTo("prepare")
    /\ UNCHANGED <<arena, allocating, max_head, interp, tensors, handles>>

PrepareFails == pc = "prepare" /\ Fails

(* FinishPrepareNodeAllocations, its two halves.  The status of the second *)
(* is not looked at.                                                       *)
PrepareReturns ==
    /\ pc = "prepare"
    /\ ResetTempAllocations
    /\ requests' = [i \in DOMAIN requests |-> IF requests[i] = 0 THEN node ELSE requests[i]]
    /\ GoTo("prepared")
    /\ UNCHANGED <<allocating, max_head, interp, tensors, handles>>

FinishPrepareNodeAllocations ==
    LET size == Size["request"] * (Len(requests) + MaxScratch)
    IN  /\ pc = "prepared"
        /\ \/ SetHeadBufferSize(size, StructAlign)
           \/ ~HeadFits(size, StructAlign) /\ UNCHANGED arena
        /\ pc' = IF node = NumNodes THEN "handles" ELSE "prepare"
        /\ node' = IF node = NumNodes THEN 1 ELSE node + 1
        /\ UNCHANGED <<cur, invoking>> /\ Keep

-----------------------------------------------------------------------------
(* FinishModelAllocation.  AllocateScratchBufferHandles has no check.      *)
AllocateScratchBufferHandles ==
    LET size == Size["handle"] * Len(requests)
    IN  /\ pc = "handles"
        /\ handles' = (requests = <<>> \/ TailFits(size, StructAlign))
        /\ IF requests # <<>> /\ handles' THEN AllocateFromTail(size, StructAlign)
                                          ELSE UNCHANGED arena
        /\ GoTo("info")
        /\ UNCHANGED <<allocating, max_head, requests, interp, tensors>>

(* CommitStaticMemoryPlan: the temporary AllocationInfo array, which       *)
(* AddTensors may fail to fill in,                                         *)
AllocateInfo ==
    /\ pc = "info"
    /\ \/ AllocateTemp(Size["info"], StructAlign) /\ (GoTo("arena") \/ GoTo("idle")) /\ Keep
       \/ ~TempFits(Size["info"], StructAlign) /\ Fails

(* the planner in all that is left, as an int; CreatePlan fails if that is *)
(* too little,                                                             *)
AsInt(n) == IF n >= Modulus \div 2 THEN n - Modulus ELSE n

AllocatePlanner ==
    LET size == GetAvailableMemory(BufferAlign)
    IN  /\ pc = "arena"
        /\ IF TempFits(size, BufferAlign)
           THEN /\ AllocateTemp(size, BufferAlign)
                /\ GoTo(IF AsInt(size) >= Size["planner"] THEN "reset" ELSE "idle")
                /\ Keep
           ELSE Fails

ResetPlanner == pc = "reset" /\ ResetTempAllocations /\ GoTo("commit") /\ Keep

(* Mutant of HeadUsage: the plan of this model only.                       *)
HeadUsageOfThis == PlanBytes[cur]

HeadUsage == IF max_head < PlanBytes[cur] THEN PlanBytes[cur] ELSE max_head

(* and CommitPlan, which stores the addresses, and the head for the        *)
(* largest plan so far.                                                    *)
CommitPlan ==
    /\ pc = "commit"
    /\ IF PlanBytes[cur] > GetAvailableMemory(BufferAlign) THEN Fails
       ELSE IF ~handles THEN GoTo("crashed") /\ UNCHANGED arena /\ Keep
       ELSE /\ interp' = [interp EXCEPT ![cur].eval = "planned"]
            /\ max_head' = HeadUsage
            /\ \/ SetHeadBufferSize(HeadUsage, BufferAlign) /\ GoTo("variables")
               \/ ~HeadFits(HeadUsage, BufferAlign) /\ UNCHANGED arena /\ GoTo("idle")
            /\ UNCHANGED <<allocating, requests, tensors, handles>>

(* AllocateVariables, the end of FinishModelAllocation and AllocateTensors.*)
AllocateVariables ==
    /\ pc = "variables"
    /\ IF VarBytes[cur] > 0 /\ ~TailFits(VarBytes[cur], BufferAlign) THEN Fails
       ELSE /\ IF VarBytes[cur] > 0 THEN AllocateFromTail(VarBytes[cur], BufferAlign)
                                    ELSE UNCHANGED arena
            /\ allocating' = FALSE
            /\ interp' = [interp EXCEPT ![cur].allocated = TRUE]
            /\ GoTo(IF invoking THEN "run" ELSE "idle")
            /\ UNCHANGED <<max_head, requests, tensors, handles>>

-----------------------------------------------------------------------------
(* Mutant of InvokeNode: one operator too many.                            *)
InvokeNodePast ==
    /\ pc = "run"
    /\ ResetTempAllocations
    /\ \/ GoTo("idle")
       \/ /\ node <= NumNodes
          /\ node' = node + 1
          /\ UNCHANGED <<pc, cur, invoking>>
    /\ Keep

(* An operator has run, with or without success.                           *)
InvokeNode ==
    /\ pc = "run"
    /\ ResetTempAllocations
    /\ \/ GoTo("idle")
       \/ /\ node < NumNodes
          /\ node' = node + 1
          /\ UNCHANGED <<pc, cur, invoking>>
    /\ Keep

(* input(), output() and tensor(): AllocatePersistentTfLiteTensor, without *)
(* a check for null either.                                                *)
ClientTensor ==
    /\ pc = "idle"
    /\ \/ /\ AllocateFromTail(Size["tensor"], StructAlign)
          /\ tensors' = tensors \cup {Block(tail', Size["tensor"])}
          /\ GoTo("idle")
          /\ UNCHANGED <<allocating, max_head, requests, interp, handles>>
       \/ ~TailFits(Size["tensor"], StructAlign) /\ GoTo("crashed") /\ UNCHANGED arena /\ Keep

StartModelAllocation == InitScratchBufferData \/ AllocateTfLiteEvalTensors \/ AllocateNodes
Kernel == \/ KernelGetTensor \/ KernelPersistentBuffer \/ RequestScratchBufferInArena
          \/ PrepareFails \/ PrepareReturns
FinishModelAllocation ==
    \/ AllocateScratchBufferHandles \/ AllocateInfo \/ AllocatePlanner \/ ResetPlanner
    \/ CommitPlan \/ AllocateVariables

Next ==
    \/ \E m \in Models : CallAllocateTensors(m) \/ CallInvoke(m)
    \/ StartModelAllocation
    \/ Kernel
    \/ FinishPrepareNodeAllocations
    \/ FinishModelAllocation
    \/ InvokeNode
    \/ ClientTensor

Spec == Init /\ [][Next]_vars

-----------------------------------------------------------------------------
(* Type invariant: no call leaves the arena or the operators of the model, *)
(* and tensors of clients are never taken back.                            *)
TypeOK ==
    /\ AllocatorTypeOK
    /\ allocating \in BOOLEAN /\ max_head \in Nat
    /\ requests \in Seq(0 .. NumNodes) /\ Len(requests) <= MaxRequests
    /\ interp \in [Models -> [init_ok : BOOLEAN, allocated : BOOLEAN,
                              eval : {"null", "unplanned", "planned"}]]
    /\ tensors \subseteq persistent
    /\ cur \in Models /\ node \in 1 .. NumNodes

(* Block b is not in the memory plan of a model.                           *)
OutsidePlans(b) ==
    \A m \in Models : interp[m].allocated => b.start >= BufferHead + PlanBytes[m]

(* "Ensure that the head is set to the largest memory plan sent through the*)
(* allocator" (micro_allocator.cc): between allocations, nothing persistent*)
(* or temporary of any interpreter is in the plan of one, although heads   *)
(* shrink while models are allocated and tails grow (until a temporary     *)
(* request has wrapped around the address space).                          *)
PlansProtected ==
    ~allocating /\ (\A t \in temps : t.end < Modulus) =>
        \A b \in persistent \cup temps : OutsidePlans(b)

(* "Ensure tensors are allocated before the interpreter is invoked to avoid*)
(* difficult to debug segfaults" (micro_interpreter.cc): operators run on  *)
(* tensors that have their addresses.                                      *)
RunsPlanned == pc = "run" => interp[cur].eval = "planned"

(* "SetHeadBufferSize() needs to be called after ResetTempAllocations()"   *)
(* (simple_memory_allocator.cc): no interpreter ever gets this error,      *)
(* whatever temporary blocks kernels leave in Prepare and Invoke.  Those of*)
(* an allocation that fails are never taken back, and nothing but          *)
(* model_is_allocating_ keeps other interpreters from setting the head.    *)
HeadSetAfterReset == pc \in {"scratch", "prepared", "commit"} => temp = head
=============================================================================
