# TLA+ models of the KSAI-Lite runtime

KSAI-Lite is an inference runtime built on TensorFlow Lite (`tensorflow/lite`).
This directory models the parts that decide where tensors live, when nodes are
prepared and run, how delegates change a graph, and how the micro runtime
shares one arena. TLC checks the models on small instances; TLAPS proves for
all instances that the memory arena, the arena planner, the partitioning of
graphs and the micro runtime's allocator, interpreters and planner are correct,
and that under the restrictions each theorem names delegates and Invoke
(`Subgraph`, `Interpreter`) keep what they promise.

Paths below are relative to `tensorflow/lite/`.

## Inventory

| Component | State | Operations | Hard behaviour | What makes it correct |
|---|---|---|---|---|
| `SimpleMemoryArena` | sorted list of planned allocations, high-water mark, buffer with aligned start | Allocate, Deallocate, Commit, ResolveAlloc, ClearPlan, ReleaseBuffer | gaps under lifetimes and alignment, a buffer that moves | tensors in use together are disjoint, pointers are inside the buffer, values survive |
| `ArenaPlanner` | first and last node of each tensor, its allocation, two arenas | PlanAllocations, ExecuteAllocations, ResetAllocations(After), Acquire/ReleaseNonPersistentMemory | incremental planning in the middle of an inference, any order of equal tensors | no value is overwritten while someone needs it |
| Graph partitioning (`graph_info.cc`) | epochs of nodes and tensors, subsets | Partition, BuildNodeSubset, UpdateNode | nodes are moved over others | complete, in dependency order, exact boundaries, ends |
| `Subgraph` | tensors, nodes, execution plan, plan before delegation, state, plan counters, delegates applied | AllocateTensors, ResizeInputTensor, Invoke, ModifyGraphWithDelegate, Undo/Redo/RemoveAllDelegates | dynamic sizes, failures half way, undo and redo of delegates, stale plans | a node runs only prepared and with memory of its size; a status means what it says |
| `Interpreter`, `InterpreterUtils` | subgraphs, lazy delegates, cancellation | delegates on all subgraphs, AllocateTensors, Invoke, InvokeWithCPUFallback | several subgraphs, cancellation from another thread, retry without delegates | every inference runs the model's nodes in order and ends with valid outputs or an error |
| Micro: `SimpleMemoryAllocator` | head, tail and temporary pointers | SetHeadBufferSize, AllocateFromTail, AllocateTemp, ResetTempAllocations | unsigned differences that wrap | head and tail never meet |
| Micro: `MicroAllocator`, `MicroInterpreter` | flags, largest plan, scratch requests, eval tensors | AllocateTensors in a dozen steps, Invoke, tensors for clients | interpreters that share an allocator, failure at each step | plans are protected, operators run on planned tensors |
| Micro: `GreedyMemoryPlanner` | requirements, offsets, linked list of entries | AddBuffer, CalculateOffsetsIfNeeded, GetMaximumMemorySize | gaps, offline offsets in the way, adding after a plan | buffers in use together are apart, first gap used |
| Micro: allocation info | lifetimes, offline offsets | AddTensors, AddScratchBuffers, CreatePlan, CommitPlan | counting from the last operator to the first | operands are intact while an operator runs |
| Builder, model loading, op resolver | none after the call | building a `Subgraph` | malformed models | sequential translation |
| Resources (`experimental/resource`) | keyed variables and hash tables | assign, lookup, import | repeated initialization | initialized once |
| Profiling buffer | ring of events | begin, end, reset | overwriting while an event is open | an event ends where it began |
| Delegates (NNAPI, GPU, Hexagon, XNNPACK, Flex) | driver objects, cached networks | prepare, invoke, copy buffers | stale buffers, failing drivers | results equal to those of the CPU |
| GPU memory management | usage records, offsets | assignment strategies | objects reused while in use | records in use together are apart |
| Kernels | per-node caches | Prepare, Eval | caches that outlive a plan | numerics |
| Tools, converter, bindings | - | - | - | - |

Calls go from `Interpreter` to its `Subgraph`s, each of which owns an
`ArenaPlanner`, which owns two arenas. Kernels call back into
`Subgraph::ResizeTensor` from Prepare and Eval; this is how an output becomes
dynamic and how planning is repeated during `Invoke`. Delegates call back into
`ReplaceNodeSubsetsWithDelegateKernels`, which partitions the graph. One thread
uses an interpreter at a time; what comes from another thread is the answer of
the cancellation function, which `Invoke` asks for before each node. The other
interleavings that matter are those of client calls, failures, early returns
and resizes, and in the micro runtime of several interpreters on one allocator.

## Modules

| Module | Models | Uses |
|---|---|---|
| `SeqOps` | `Elements`, the set of a sequence's elements, and `Fold`, a loop over it | |
| `ArenaOps` | the arithmetic of `Allocate`: `AlignTo`, one iteration of the gap scan, the insertion point | |
| `SimpleMemoryArena` | the arena | `ArenaOps` |
| `ArenaPlanner` | the planner and the parts of `Subgraph` that drive it | `ArenaOps`, `SeqOps` |
| `PartitionOps` | the partition as a function | `SeqOps` |
| `GraphPartition` | the partitioning loop | `PartitionOps` |
| `Subgraph` | delegation in a subgraph, as operators on a record | `PartitionOps` |
| `Interpreter` | the interpreter and its clients, as a state machine | `Subgraph`, `Inference` |
| `Inference` | abstract specification of an inference | |
| `SimpleMemoryAllocator` | the two-ended arena of the micro runtime | |
| `MicroAllocator` | interpreters that share it | `SimpleMemoryAllocator` |
| `GreedyMemoryPlanner` | the greedy planner | `SeqOps` |
| `MicroMemoryPlan` | lifetimes, planning, offsets and inference of a micro graph | `SeqOps`, `GreedyMemoryPlanner` (INSTANCE) |
| `OpsProofs` | lemmas that the other proofs share: sequences, loops, and the partition as a function | `PartitionOps` |
| other `...Proofs` | theorems about the module of that name; `MicroAllocatorProofs` also about `SimpleMemoryAllocator`, `InterpreterProofs` also about `Subgraph` | |
| `MC...` | instances for TLC | |

Definitions named "mutant" are faulty variants of the definition behind them.
They are used to see that each property notices such a fault, and by nothing
else.

How state and actions correspond to the code:

* **`SimpleMemoryArena`.** The loops of `Allocate` and `Deallocate` take one step
  per iteration (`pc`, `req`, `it` and `scan` are their locals). A new buffer has
  any alignment (`slack`). The caller is modelled as far as the arena depends on
  it: the record of each tensor, the pointer, whether `Commit` was called since
  the plan changed (`stale`), and writes through pointers.
* **`ArenaPlanner`.** `planner` is the object with its two arenas; `data` and
  `bytes` are the tensors' fields; `next_to_prepare` and `next_to_plan` the
  counters of `Subgraph`. `Invoke` takes two steps per node (`pc`): preparing, if
  due, and running. Nodes size their tensors freely; a dynamic output gets its
  size when the node runs. `std::sort` returns every order that its comparison
  allows. `initialized` is the flag by which Dequantize and Densify fill in a
  constant output once; `prepared` records what a node was prepared for.
* **`GraphPartition`** takes one step per node of a pass. `PartitionOps` computes
  the same as a function (`ComputesPartition`), and `Subgraph` uses that one.
* **`Subgraph`.** A record holds the fields of the object; each operation is an
  operator from a record to its possible outcomes (`status`, new record), named
  after the method. Memory is abstracted to the execution plan that the planner
  knows the lifetimes of (`planner`), shapes and values to whether they are the
  right ones (`shaped`, `ready`, `fresh`, `buffered`).
* **`Interpreter`.** Its actions are the client's calls; `Invoke` takes two steps
  per node. `model` says which graphs there are, which delegates clients apply,
  which wait as lazy ones, and whether clients use buffers and the fallback.
  `asked` records which delegates clients were told are applied.
* **`MicroAllocator`.** A step makes at most one call of `SimpleMemoryAllocator`,
  so that each allocation of `AllocateTensors` can fail on its own. `interp` holds
  the flags of each interpreter and whether its eval tensors have addresses.
* **`GreedyMemoryPlanner`.** The linked list is the sequence `entries`; the search
  for a gap takes one step per entry (`prior`, `candidate_offset`).
* **`MicroMemoryPlan`.** `info` is the AllocationInfo array, `data` the offsets that
  `CommitPlan` writes, `intact` the tensors whose value nobody has overwritten.

## Runs

| Run | What it checks | Bounds |
|---|---|---|
| `arena` | `TypeOK`, `NoOverlap`, `ResolvedInsideBuffer`, `ContentsIntact` | 2 tensors, 3 entries (a tensor may have several), sizes 0 and 1, alignments 1 and 2, 2 nodes, both alignments of the buffer: gaps before, between and behind entries, aligned and not, and growth with every pair of old and new alignment |
| `planner` | `TypeOK`, `LiveValuesIntact`, `LiveValuesStay`, `ReadyToRun`, `PreparedForInputs`, `LifetimesExact` | 7 graphs of two or three nodes: no, one or two dynamic outputs, a dynamic input, a variable, a temporary, sizes 1 and 2; `MaxMemory` 12 is more than these plans use |
| `partition` | `TypeOK`, `EveryNodeOnce`, `DependencyOrder`, `BoundaryExact`, `SubsetsMaximal`, `ComputesPartition`, `Terminates` | all 543 acyclic graphs of 4 nodes in all plan orders, all 16 choices of delegated nodes, 2 choices of outputs |
| `delegation` | `TypeOK`, `InvokableIsPlanned`, `RunsPrepared`, `StatusTruthful`, `DelegatesKept`, `ImplementsInference`, `InvokeReturns` | 17 models of up to two subgraphs with two or three nodes, one delegate for dynamic tensors and two static ones, one of them lazy, with and without a dynamic tensor, with buffers, with failures of delegates, kernels and nodes, with and without fallback |
| `allocator` | `AllocatorTypeOK`, `SectionsApart` | a buffer of 5 bytes, addresses modulo 8, all sizes, alignments 1 and 2, 2 temporary blocks: sizes that wrap around included |
| `micro` | `TypeOK`, `PlansProtected`, `RunsPlanned`, `HeadSetAfterReset` | two models, the first with the larger plan and a variable, one operator each, an arena of 14 bytes that is too small for everything: each allocation fails in some behaviour |
| `greedy_planner` | `TypeOK`, `BuffersApart`, `ListSorted`, `SortedOrder`, `HighWaterMark`, `FirstGapUsed`, `SearchEnds` | 4 buffers of size 0 to 2, 2 times, offline offset 1 in the way of the first gap, added before and after plans |
| `micro_plan` | `OperandsHeld`, `InsidePlan`, `AllPlanned` | all graphs of 3 operators with one output and one or two inputs, two lists of sizes, a second tensor that is an input, constant, variable or operator-only input, a scratch buffer, one offline offset, too few offsets, too many buffers |

`arena` and `planner` use a VIEW that forgets bytes nobody relies on. For
`arena` no action or property looks at them; for `planner` this needs that
values in use stay where they are, which `LiveValuesStay` checks in the same
run. Tensors of `arena` are symmetric: nothing compares them.

Deadlock is checked except in runs of functions that return (`partition`,
`greedy_planner`, `micro_plan`) and in `micro`, where a write through a null
pointer ends the program.

What the deeper properties say:

* `LiveValuesIntact`, `LiveValuesStay`: from the moment a value is written until
  its last reader has run, no planning, resizing or writing moves or changes it.
* `ImplementsInference`: every behaviour of `Interpreter`, with `done` mapped to
  the nodes of the model inside the kernels that have run, is one of `Inference`:
  each node once, after what it reads, starting over at most by dropping its
  delegates, and success only with all nodes run and outputs of the present
  inputs.
* `StatusTruthful`: after each status of `ModifyGraphWithDelegate` all subgraphs
  are as the comments in `subgraph.h` and `interpreter.h` promise.
* `PlansProtected`: although the head section shrinks while a model is allocated,
  once no allocation is under way nothing is inside any model's plan.
* `HeadSetAfterReset`: nobody sets the head section while there are temporary blocks,
  which the allocator answers with "Internal error". An allocation that fails leaves its
  blocks where they are for good; that `model_is_allocating_` stays set is what keeps
  other interpreters away from them.
* `AllPlanned`: planning of a micro graph is refused only for the reasons the code has
  for it (offline offsets, tensors without writer or use, a planner without room for one more
  buffer); otherwise everything that needs memory has a buffer, under its own number,
  and what is in use at the same time is apart.
* `FirstGapUsed`: an online buffer is never placed where a lower offset would do.

### Runs that are expected to find a violation

* `persistent_moved` - planning again after a resize gives an
  `ArenaRwPersistent` tensor new memory (`arena_planner.cc:326`), and its node
  does not fill it in again. `c/common.h:376` calls such tensors "persistent
  across eval".
* `late_failure` - a node that fails after resizing its dynamic output
  (`kernels/embedding_lookup_sparse.cc:189` and `:212`) makes `Invoke` return
  before the resize is noticed; the next `Invoke` runs later nodes as prepared
  for the old size, against the comment at `core/subgraph.cc:1063`. The constant
  `LateFailures` allows this failure; in `planner` nodes fail before they resize.
* `stale_buffer` - an inference ends, for instance by cancellation, with a tensor in
  the buffer of a delegate. In the next one, by `InvokeWithCPUFallback`, the kernel that
  writes this tensor fails. The delegate is removed, but the tensor's `data_is_stale`
  and `delegate` stay (`core/subgraph.cc:1380`), so the CPU run copies the buffer of the
  earlier inference over the value it has just computed, and reports what
  `delegates/interpreter_utils.h:40` calls "Output is valid". (When the kernel has written
  the tensor in the same inference and a later one fails, the copy is harmless: the
  buffer has the new value.) `delegation` uses buffers and the fallback in different
  models.
* `second_allocate` - `tensors_allocated_` is never cleared: when AllocateTensors
  of a micro interpreter is called again and fails, `Invoke` runs operators on
  tensors without addresses, against `micro/micro_interpreter.cc:327`. The
  constant `Again` allows the second call.

### Further disagreements met while modelling

The models contain these behaviours of the code; the passing runs leave out the
inputs that lead to them, and no run of its own is kept for them.

* `core/subgraph.cc:1572`: a delegate for dynamic tensors that is applied between
  ResizeInputTensor and AllocateTensors leaves lifetimes of the former plan in the
  memory planner (left out by `late` = FALSE in `delegation`).
* `core/subgraph.cc:1463`: when RedoAllDelegates fails half way, the delegates
  behind are forgotten, and the next AllocateTensors succeeds without them;
  `core/subgraph.h:581` says "This re-applies all delegates that were undone"
  (no fault "cpu_prepare" in `delegation`).
* `core/subgraph.cc:943`: shapes are propagated along the original plan from an
  index into the delegated one; `next_original_execution_plan_index_to_prepare_`
  is set and never read. Behind a dynamic tensor a kernel is prepared with outdated
  shapes, against `c/common.h:902` (`WantsShapes` is empty in `delegation`).
* `core/subgraph.cc:408`: tensors keep a delegate that was removed, so another
  one that writes them is turned away with kTfLiteDelegateError, which
  `core/subgraph.h:566` reserves for "an error *in the delegate*".
* `interpreter.cc:207`: AllocateTensors returns on kTfLiteError before the list of
  lazy delegates is cleared, and the next call applies a null pointer;
  `interpreter_test.cc:1834` says that the list is cleared after the delegates are
  tried (no "cpu_prepare" with lazy delegates).
* `interpreter.cc:402`: after kTfLiteApplicationError of a later subgraph the
  earlier ones keep the refused delegate (`DelegatesKept` speaks of models with one
  subgraph).
* `core/subgraph.cc:1566`: a static delegate allocates memory and makes the graph
  invokable even if it was not allocated before; `core/subgraph.h:562` says "If
  tensors were unallocated, they will remain unallocated".
* `arena_planner.cc:342`: a tensor that loses its allocation keeps its old pointer;
  the comment above says "leaving it as a nullptr". `ReadyToRun` shows that nodes do
  not run with such a pointer.
* `micro/simple_memory_allocator.cc:91`: AllocateFromTail compares with `head_` only,
  so a persistent buffer may cover a temporary TfLiteTensor, after which
  `available_memory` in AllocateTemp wraps around; `micro/micro_allocator.h:152` calls
  temporary memory "guaranteed until a call is made to ResetTempAllocations()".
* `micro/micro_allocator.cc:654`: when the allocation of a model fails, the head
  stays as small as StartModelAllocation made it, and tensors handed out afterwards
  may be inside the plan of another model. `model_is_allocating_` stays set for ever, so
  that no later allocation can start and set the head again. `PlansProtected`
  speaks of times when no allocation is under way, and so says nothing any more after
  a failed one; what holds then is `HeadSetAfterReset`.
* `micro/micro_interpreter.cc:299`: the status of FinishPrepareNodeAllocations is
  dropped, and requests are then written behind the head section.
* `micro/micro_allocator.cc:1145`: several structures are filled in without a check
  for null; the model ends with pc = "crashed".
* `micro/micro_allocator.cc:237`: an operator input that nothing writes gets memory
  only if the operator reads an input of the graph too, and a lifetime that covers
  one such operator; the last conjuncts of `IsModel` in `MicroMemoryPlan` leave only
  graphs in which that is enough.
* `core/subgraph.cc:666`: when a graph has a dynamic input and a repeated
  AllocateTensors fails, `state_` stays invokable although the plan counters are
  zero and the allocations are reset. The next `Invoke` plans again and may move an
  input that the client has filled in. The theorems `LiveValuesAreStable` and
  `LiveValuesSafe` leave out dynamic inputs for this reason; it takes a larger graph
  than the one of the run `planner` that has a dynamic input.

## Fairness

* The arena, the planner and the micro interpreters are driven by clients that may
  stop at any time: no fairness, safety only.
* `GraphPartition`: `WF_vars(Next)`; `GreedyMemoryPlanner`: `WF_vars(SearchStep)`.
  One thread runs loops that contain nothing to wait for.
* `Interpreter`: `WF_vars(InvokeStep)`. An Invoke that has begun goes on; nothing is
  assumed of clients, of other threads, or of failures ending.

## Proofs

| Theorem | Statement | From |
|---|---|---|
| `SimpleMemoryArenaProofs!TypeCorrect` | `Spec => []TypeOK` | `ArenaAssumption` |
| `SimpleMemoryArenaProofs!PlanSafe` | `Spec => [](SortedByOffset /\ NoOverlap)` | |
| `SimpleMemoryArenaProofs!ResolvedSafe` | `Spec => []ResolvedInsideBuffer` | |
| `SimpleMemoryArenaProofs!ContentsSafe` | `Spec => []ContentsIntact` | |
| `MicroAllocatorProofs!AllocatorSafe` | `AllocatorSpec => [](AllocatorTypeOK /\ SectionsApart /\ TempsChained)` | `AllocatorAssumption` |
| `MicroAllocatorProofs!AllocatorTypeCorrect` | `AllocatorSpec => []AllocatorTypeOK` | |
| `MicroAllocatorProofs!MicroTypeCorrect` | `Spec => []TypeOK` | and `MicroAssumption` |
| `MicroAllocatorProofs!PlansSafe` | `Spec => []PlansProtected` | |
| `MicroAllocatorProofs!HeadNeverSetUnderTemps` | `Spec => []HeadSetAfterReset` | |
| `MicroAllocatorProofs!PlannedSafe` | `Spec => []RunsPlanned` | and `Again = FALSE` |
| `GreedyMemoryPlannerProofs!PlannerTypeCorrect` | `Spec => []TypeOK` | `PlannerAssumption` |
| `GreedyMemoryPlannerProofs!GreedyPlanSafe` | `Spec => []BuffersApart` | |
| `GreedyMemoryPlannerProofs!GreedyListSorted` | `Spec => []ListSorted` | |
| `GreedyMemoryPlannerProofs!GreedyHighWaterMark` | `Spec => []HighWaterMark` | |
| `GreedyMemoryPlannerProofs!GreedySortedOrder` | `Spec => []SortedOrder` | |
| `GreedyMemoryPlannerProofs!FirstGap` | `Spec => FirstGapUsed` | |
| `MicroMemoryPlanProofs!PlansInside` | `Spec => []InsidePlan` | `MicroPlanAssumption` |
| `MicroMemoryPlanProofs!PlansComplete` | `Spec => []AllPlanned` | |
| `MicroMemoryPlanProofs!OperandsSafe` | `Spec => []OperandsHeld` | |
| `GraphPartitionProofs!PartitionTypeCorrect` | `Spec => []TypeOK` | `PartitionAssumption` |
| `GraphPartitionProofs!NodesRunOnce` | `Spec => []EveryNodeOnce` | |
| `GraphPartitionProofs!DependenciesKept` | `Spec => []DependencyOrder` | |
| `GraphPartitionProofs!BoundariesExact` | `Spec => []BoundaryExact` | |
| `GraphPartitionProofs!SubsetsAreMaximal` | `Spec => []SubsetsMaximal` | |
| `GraphPartitionProofs!LoopComputesPartition` | `Spec => []ComputesPartition` | |
| `ArenaPlannerProofs!PlannerTypeCorrect` | `Spec => []TypeOK` | `PlannerAssumption` |
| `ArenaPlannerProofs!LifetimesAreExact` | `Spec => []LifetimesExact` | |
| `ArenaPlannerProofs!RunsWithMemory` | `Spec => []ReadyToRun` | |
| `ArenaPlannerProofs!RunsAsPrepared` | `Spec => []PreparedForInputs` | and `LateFailures = FALSE` |
| `ArenaPlannerProofs!LiveValuesAreStable` | `Spec /\ PlainGraph => LiveValuesStay` | |
| `ArenaPlannerProofs!LiveValuesSafe` | `Spec /\ PlainGraph => []LiveValuesIntact` | |
| `InterpreterProofs!InterpreterTypeCorrect` | `Spec => []TypeOK` | `SubgraphAssumption`, `InterpreterAssumption` |
| `InterpreterProofs!StatusesAreTruthful` | `Spec => []StatusTruthful` | and no model is late |
| `InterpreterProofs!InvokeImplementsInference` | `Spec => ImplementsInference` | and no model has buffer handles |
| `InterpreterProofs!RunsArePrepared` | `Spec => []RunsPrepared` | and the first graph of every model is `Regular` |
| `InterpreterProofs!DelegatesAreKept` | `Spec => []DelegatesKept` | and all models are `Firm` |
| `InterpreterProofs!NoLazyDelegateIsNull` | `Spec => [](pc # "crashed" /\ NoDelegate \notin Elements(lazy))` | and all models are `Firm` |
| `InterpreterProofs!InvokablesArePlanned` | `Spec => []InvokableIsPlanned` | and all models are `Calm` |

They hold for every set of tensors, sizes, alignments, models and requirements,
and every length of lists; the assumptions give the constants their types, make
alignments positive, and in the micro runtime say that structures are smaller
than the address of the arena and the arena's start is aligned. Graphs are those
that a converter makes:

* `PartitionAssumption`: a tensor is written by one node at most, and the nodes
  can be run in some order.
* `PlannerAssumption` (`IsGraph`): nodes are in execution order, one node writes
  a tensor, temporaries belong to one node, inputs and variables are written by
  none, and what is read or an output, and lives in an arena, is an input, a
  variable or written by a node.
* `InterpreterAssumption` (`IsGraph`): the same as for the planner, without temporaries; the
  delegates of a model are delegates. Which nodes a delegate takes, which tensors are dynamic
  and what may fail is free.
* `MicroPlanAssumption` (`IsModel`, `OfflineApart`): the same for micro graphs,
  and offline offsets in a model do not put tensors in use together in one place,
  which the planner takes on trust.

`PlainGraph` says that no input of the graph is dynamic and no node fills in a
constant output once. Without the second part `persistent_moved` is a
counterexample, without the first the behaviour at `core/subgraph.cc:666` above.
`LateFailures = FALSE` and `Again = FALSE` leave out what `late_failure` and
`second_allocate` show.

The hypotheses of the theorems about `Interpreter` leave out models in which behaviour
described under "Further disagreements" and `stale_buffer` occurs. They speak of a model as a
whole, so that they leave out a few in which it does not:

* No model is late: no delegate is applied between ResizeInputTensor and AllocateTensors
  (`core/subgraph.cc:1572`).
* No model has buffer handles: with the fallback, `stale_buffer` is a counterexample. TLC also
  checks models that have handles without the fallback.
* `Regular(g)`: no delegate asks for propagated shapes (`WantsShapes` is empty, as in `delegation`), or
  the graph has no dynamic tensor. With both, the original plan is prepared from an index into the
  other one (`core/subgraph.cc:943`). Unlike `delegation`, the theorem covers delegates that ask for
  shapes, on graphs without dynamic tensors; and every failure of Prepare.
* `Firm(m)`: Prepare of a node of the model does not fail, and that of a kernel fails only if
  the model's delegates are all static. Else RedoAllDelegates may stop half way and forget the
  delegates behind (`core/subgraph.cc:1463`), or AllocateTensors leave a null pointer in the
  list of lazy delegates (`interpreter.cc:207`). Failures of delegates, of static kernels, and
  of nodes and kernels while they run are all there.
* `Calm(m)`: firm, not late, and no lazy delegate allows dynamic tensors. AllocateTensors applies
  lazy delegates before it allocates memory, so such a one is applied late whatever the client
  does. Models with several subgraphs, dynamic tensors or fallback are calm or not like others.

* **Arena.** `NoOverlap` is not inductive: when `Allocate` inserts, its offset must
  be known to be free. `ScanInv` says during the scan that what was passed ends at or
  before `current_offset`, and that the best gap is free of everything passed and ends
  before everything not yet reached. The second part needs the list to be sorted, so
  `PlanInv == TypeOK /\ SortedByOffset /\ ScanInv /\ NoOverlap` is inductive.
  `ContentsIntact` also needs that the high-water mark covers the plan and a committed
  plan has its buffer (`RoomInv`), and that the caller's record of a tensor is an entry
  of the plan (`RecordInv`): then a write goes to bytes that no other tensor in use has,
  and `Commit` copies at least the planned bytes. `ArenaInv` is the conjunction.
* **Micro allocator.** `AllocatorInv` is the conjunction that the theorem states. The head may
  be set only when there are no temporary blocks, which keeps `TempsChained`; that a difference
  of addresses which wraps around cannot move the head above the tail needs the types and
  `head <= tail` of `SectionsApart` together.
* **Micro interpreters.** Each step is shown to be a step of the allocator or to leave it
  alone (`StepUsesArena`), so `AllocatorInv` carries over. `HeadInv` says that the largest
  plan seen covers the plan of every allocated model, and that the head covers it whenever
  no allocation is under way; with the sections apart this is `PlansProtected`.
  `PlannedInv` says that a model that counts as allocated has planned tensors and that no
  allocation is under way for it. `ResetInv` adds to `HeadSetAfterReset` that there are no
  temporary blocks either while variables are allocated, with which an allocation ends, and
  between calls when none is under way or has failed: that is where the next one begins.
* **Greedy planner.** `PlannerInv` says that the list is sorted and has the recorded
  offsets, that online buffers are placed after offline ones, that placed buffers are apart,
  and (`Behind`) that each placed buffer used at the same time as the one searched for, in
  front of the entry the search has reached, ends at or before the candidate offset. Then
  the gap that is taken is free (`GapIsFree`). `FirstGap` needs `BelowTaken`: each offset
  below the candidate meets a placed buffer. `GreedyHighWaterMark` follows the loop of
  GetMaximumMemorySize over the list, which the invariant says is complete.
  `GreedySortedOrder` has three parts. Pass m of the exchanges brings the m-th id from the
  end to its place (`PassInv`: inside a pass, the smallest of the ids passed is the last of
  them) and keeps ids of equal size in descending order (`Stable`), so that as many passes as
  ids sort the list. The loop before parts the ids (`SplitInv`). And `OrderInv` says that what
  is placed is the front of `buffer_ids_sorted_`: the id that is wanted is the next one.
* **Planning a micro graph.** `Visited(g, k, l)` is what AllocationInfoBuilder knows of a
  tensor's lifetime after the last k operators; at the end (`Covers`) the lifetime reaches
  from the operator that writes the tensor to the last that reads it. `PlanInv` relates
  `info`, the planner's requirements and the committed offsets, which are numbered
  differently: the i-th entry of `info` has requirement `Index(info, i)`, the number of
  entries up to i that need memory. Each step is a step of the greedy planner or leaves it
  alone (`StepUsesPlanner`), so that its invariant holds. With `InfoApart`, that what is in
  use at the same time is apart, this gives `AllPlanned`; that a refused plan has one buffer
  too many follows from the numbering. `OperandsHeld` then follows from `Live`: a value that
  was written and whose lifetime is not over is intact, since whatever is written in the
  meantime is in use together with it and so somewhere else.
* **Partition.** `PartitionInv` relates the epochs to the subsets: the epoch of a node is the
  number of the subset that has it, the epoch of a tensor that of its writer; inputs and
  outputs of subsets are exact with respect to the nodes assigned so far (`Inputs`,
  `Outputs`). `PassedOver` says that in a pass that has assigned nothing, no node in front of
  the cursor can be assigned; so when a subset is closed none is left for it (`Closed`), which
  gives `SubsetsMaximal`, and when the loop ends with a subset that stays empty every node
  that is left waits for another one, which an acyclic graph does not have (`AllAssigned`).
  For `ComputesPartition` a second invariant, `Building`, says where in the folds of
  `PartitionOps` the loops are: as many subsets are complete as the outer fold has made
  (`GrowState`), and the present one is what the inner fold has after p passes and i nodes of
  the next (`PassState`). The folds always make `NumNodes` passes, the loop stops at the first
  without a change: p passes with a change give at least p nodes, so the loop does not make
  more, and after a pass without a change the others change nothing (`PassEnd`).
* **Arena planner.** The plan is one value that a step replaces by the result of several
  loops, so the proof has two layers. The lower one is about operators: a loop is a function f
  with f[k] made from f[k - 1]; that there is one (`IterationExists`) and that every f[k]
  has a property (`UpTo`) is shown with the theorem of the library that numbers are well
  founded, stated over sets, since its induction rule takes an operator and cannot be
  used. `AllocationFacts` says that the gap scan finds a free place, `ExactUpTo` that
  after k nodes the reference counts are the uses that remain (`IsUseCount`), so that a tensor is
  released at its last reader. The upper layer is the invariant: `DriverInv` (counters
  of `Subgraph`), `PreparedInv` (nodes before the counter are prepared for the present
  sizes), and `PlanInv`, in which `Proper(planner)` says that the two plans are sound (entries
  apart in time or in space), every allocation is an entry of its plan, and lifetimes are
  exact, and the rest that what is planned has memory of its present size. For the values,
  two values that are live together have lifetimes that meet, so a write by a node, which
  goes to its outputs and temporaries only, leaves the others alone, and planning the
  nodes from the k-th on keeps the allocations of what is live before it.

* **Delegation.** The operations of `Subgraph` are operators from a record to its outcomes, so
  that the proof goes up in layers, each of which states how an operation may end.
  *Partition*: the subsets are epochs that cover the plan (`SubsetsCoverPlan`), as in
  `GraphPartition`, here of the folds. *One delegation*: a kernel in place of an epoch keeps the plan in
  order (`KernelStands`), since its inputs are written before the epoch begins and its outputs
  are all that is read behind; the new plan stands for all nodes of the model, once each
  (`GoodPlan`). *Subgraph*: `Sound` is the shape of a subgraph between calls, and every
  operation, however it fails, leaves it sound. That is not enough for undo and redo: `undone`
  delegates are applied again to the plan of the model, and it must be shown that they are
  not refused then. So `Recorded` keeps, in an existential quantifier, the plans before
  each delegate, and says that a static delegate was applied to a plan without dynamic
  tensors, and that what a delegate makes of a plan depends on the plan alone (`ReplaceOneWay`). `Fit`, on
  a regular graph, follows the shapes: inputs have theirs, an immutable subgraph has no dynamic tensor,
  and the nodes of the plan in front of `next_to_prepare` are prepared for the shapes of now, up
  to the end or past a node with dynamic outputs (`PreparedFar`). When a delegate joins an immutable
  subgraph, or delegates are applied again, kernels are prepared with the shapes that the plan
  before had (`Fittable`); those that want them propagated get them along the original plan.
  `Known` is all three. *Interpreter*: `Base` says that all subgraphs are known, that `pc`, `index` and
  `lazy` fit, and that what is in front of `index` has its shapes, dynamic ones included
  (`Underway`): when a dynamic tensor gets a new size, what has to be prepared again stands behind
  (`DownstreamBehind`), and the preparation in `Invoke` goes at least one node further
  (`PrepareGoesOn`). `Base` holds for all models and failures (`BaseAlways`), and gives
  `RunsPrepared` on regular graphs. The others add to it:
  `StatusInv` that only the first subgraph, the one that is resized, may have delegates undone, and
  what the last status promises; `InferenceInv` that what the kernels before `index` stand for is fresh, and each
  step of `Invoke` is then one of `Inference`; `FirmInv` that a subgraph has no delegates
  but the model's, those the client was told of, and no lazy one was lost; `CalmInv` that
  the planner has the plan of the subgraph unless the subgraph must be allocated first.

Only model-checked:

* The properties of `Interpreter` for models outside the hypotheses above, where `delegation` has
  such models: `ImplementsInference` with buffer handles and no fallback.
* Liveness (`Terminates`, `SearchEnds`, `InvokeReturns`), which is out of the prover's reach.
* `LiveValuesIntact` and `LiveValuesStay` for graphs with a dynamic input.

## Abstractions

* Offsets of the arena and the greedy planner do not wrap around. Addresses of
  `SimpleMemoryAllocator` do (`Modulus`), except that a persistent request is smaller than
  the address of the buffer.
* `ResolveAlloc` of the arena is called after `Commit`, as `ArenaPlanner` does.
* In `ArenaPlanner` a tensor has one dimension and a pointer is an offset; that buffers may
  move is covered by `SimpleMemoryArena`. The client relies on its inputs from when it has
  filled them in, and on outputs when `Invoke` has ended well (`Live`). Optional tensors, custom allocations and a plan
  that changes are left out; the last is the subject of `Subgraph`. A node whose Prepare fails
  has not resized its own outputs.
* In `GraphPartition` the position in the plan is the node's index; graphs are acyclic.
* In `Subgraph` and `Interpreter`: `allow_buffer_handle_output_` is false; buffer handles are
  set for tensors that a delegate writes; `next_execution_plan_index_to_plan_allocation_`, fp16
  remapping, UseNNAPI and custom allocations are left out; a delegate takes only nodes of
  the model, not kernels of another; clients apply a delegate once; when
  nodes have to be prepared again for a new size, shapes inside the kernels among them count as
  outdated too. CopyFromBufferHandle itself does not fail, and when one input of a
  node cannot be copied out of its buffer, none is; that a node's input lacks data is an error of `ArenaPlanner` only; and a null pointer in
  the list of lazy delegates is followed even where an immutable graph would be refused first.
* In `MicroAllocator`: the planner's result is a constant of the model (`PlanBytes`); what
  kernels allocate in Init they may allocate in Prepare; `MaxTemps`, `MaxRequests` and
  `KernelTemps` bound what kernels ask for. What is allocated in several blocks (eval
  tensors with their dimensions, operators with their data, variables) is one block, and a
  failure in the middle, for whatever reason, comes after it (for variables, before it).
* In `GreedyMemoryPlanner`: lists linked by indices are sequences, and the first buffer is
  placed by a search in an empty list. In `MicroMemoryPlan` graphs have no optional tensors.

## Not modelled

The models cover the runtime's control and memory logic, a small part of the
repository by lines. Most of the rest is numerical kernels and their hand-optimised
variants (`kernels/`, `kernels/internal/optimized`), generated code
(`schema/schema_generated.h`), drivers of accelerators (`delegates/nnapi`,
`delegates/gpu`, `delegates/hexagon`, `delegates/xnnpack`), the converter (`toco`), tools
and bindings. Kernels are arithmetic on tensors, where states are numbers and a property
is an equation, which TLC cannot enumerate; generated accessors and thin wrappers have no
behaviour of their own; drivers are sequences of calls into vendor libraries whose
behaviour is not in the repository. `PROJECT.json` has a reason for each component.

* Model loading and the op resolver: sequential translation into calls of `Subgraph`.
* GPU memory assignment: sequential algorithms on usage records.
* Profiling ring and resources: small objects with one user at a time.

## Plan

1. Composition of `ArenaPlanner` with a plan that delegates change, so that the lifetimes
   behind `InvokableIsPlanned` are those of the arena.
2. Custom allocations, and growing a graph after its first allocation.
3. The assignment strategies of the GPU delegate, as operators checked against a reference.
4. `ImplementsInference` for models with buffer handles and no fallback, whose invariant has to
   follow values through the buffers of several delegates.
