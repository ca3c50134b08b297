------------------------------ MODULE Interpreter -----------------------------
(***************************************************************************)
(* tflite::Interpreter (tensorflow/lite/interpreter.{h,cc}) on top of its  *)
(* subgraphs, and delegates::InterpreterUtils::InvokeWithCPUFallback       *)
(* (delegates/interpreter_utils.cc).  A call is one step, except that      *)
(* Invoke takes two per node, so that a cancellation from another thread   *)
(* may come anywhere.  Outputs are made readable (allow_buffer_handle_     *)
(* output_ is false, as by default).                                       *)
(***************************************************************************)
EXTENDS Subgraph

CONSTANT
    Models  \* models and what clients do with them: graphs, of the subgraphs, the first is the
            \* primary one; delegates, that they apply; lazy, lazy_delegate_providers_ at the
            \* start; handles, the tensors that they set buffer handles for; fallback, whether
            \* they use InvokeWithCPUFallback; late, whether they apply a delegate between
            \* ResizeInputTensor and AllocateTensors

ASSUME InterpreterAssumption ==
    \A m \in Models :
        /\ m.graphs \in Seq(Elements(m.graphs)) /\ m.graphs # <<>>
        /\ \A g \in Elements(m.graphs) : IsGraph(g)
        /\ m.lazy \in Seq(Delegates) /\ m.delegates \subseteq Delegates
        /\ m.handles \subseteq GraphTensors(m.graphs[1])
        /\ m.fallback \in BOOLEAN /\ m.late \in BOOLEAN

VARIABLES
    model,      \* the model and its client; it does not change
    sgs,        \* subgraphs_
    pc,         \* "idle", "invoke" (at the start of a loop body), "run", or "crashed"
    call,       \* what runs: "Invoke", "InvokeWithCPUFallback" or the second Invoke in it, "retry"
    index,      \* execution_plan_index
    cancelled,  \* what check_cancelled_func_ answers
    lazy,       \* lazy_delegate_providers_
    last,       \* the last call that returned, and its status
    asked       \* the delegates that clients were told are applied, in order

vars == <<model, sgs, pc, call, index, cancelled, lazy, last, asked>>

graphs  == model.graphs
Primary == sgs[1]
G1      == graphs[1]

Init ==
    /\ model \in Models
    /\ sgs = [i \in DOMAIN graphs |-> NewSubgraph(graphs[i])]
    /\ pc = "idle" /\ call = "none" /\ index = 1
    /\ cancelled = FALSE
    /\ lazy = model.lazy
    /\ last = [op |-> "none", status |-> "ok"]
    /\ asked = <<>>

Returns(op, status) == last' = [op |-> op, status |-> status]

-----------------------------------------------------------------------------
(* A call on one subgraph after the other until one of them fails: the     *)
(* outcomes [status, sgs], from those of the call on each subgraph alone.  *)
OnAll(ss, outcomes) ==
    Fold(LAMBDA rs, i :
            UNION {IF r.status # "ok" THEN {r}
                   ELSE {[status |-> o.status, sgs |-> [r.sgs EXCEPT ![i] = o.sg]] :
                           o \in outcomes[i]} : r \in rs},
         {[status |-> "ok", sgs |-> ss]}, [i \in 1 .. Len(ss) |-> i])

RemoveAll(ss) == OnAll(ss, [i \in DOMAIN ss |-> RemoveAllDelegates(graphs[i], ss[i])])

(* Interpreter::ModifyGraphWithDelegate.                                   *)
ModifyAll(ss, d) ==
    UNION {IF r.status # "delegate_error" THEN {r}
           ELSE {IF q.status = "ok" THEN [q EXCEPT !.status = "delegate_error"] ELSE q :
                   q \in RemoveAll(r.sgs)} :
           r \in OnAll(ss, [i \in DOMAIN ss |-> ModifyGraphWithDelegate(graphs[i], ss[i], d)])}

(* What clients are told by a status.                                      *)
AskedAfter(told, status, d) ==
    CASE status = "ok"             -> Append(told, d)
      [] status = "delegate_error" -> <<>>
      [] OTHER                     -> told

(* One delegate is asked to take nodes that the model still has.           *)
ModifyGraph(d) ==
    /\ pc = "idle"
    /\ d \in model.delegates
    /\ d \notin Elements(asked) \cup Elements(Primary.applied)
    /\ model.late \/ d \notin AllowsDynamic \/ Primary.planner = <<>>
                     \/ Primary.state # "uninvokable"
    /\ \E r \in ModifyAll(sgs, d) :
        /\ sgs' = r.sgs
        /\ asked' = AskedAfter(asked, r.status, d)
        /\ Returns("ModifyGraphWithDelegate", r.status)
    /\ UNCHANGED <<model, pc, call, index, cancelled, lazy>>

(* AllocateTensors: the delegates that wait are tried first.  Each one is  *)
(* moved out of the list, and the list is cleared unless there is an error.*)
TryLazy(ss) ==
    LET Try(rs, i) ==
            UNION {IF r.status # "ok" THEN {r}
                   ELSE IF r.lazy[i] = NoDelegate THEN {[r EXCEPT !.status = "crash"]}
                   ELSE {[status |-> IF q.status = "error" THEN "error" ELSE "ok",
                          sgs    |-> q.sgs,
                          lazy   |-> [r.lazy EXCEPT ![i] = NoDelegate],
                          asked  |-> AskedAfter(r.asked, q.status, r.lazy[i])] :
                            q \in ModifyAll(r.sgs, r.lazy[i])} : r \in rs}
    IN  {IF r.status = "ok" THEN [r EXCEPT !.lazy = <<>>] ELSE r :
            r \in Fold(Try, {[status |-> "ok", sgs |-> ss, lazy |-> lazy, asked |-> asked]},
                       [i \in 1 .. Len(lazy) |-> i])}

AllocateAll ==
    /\ pc = "idle"
    /\ \E r \in TryLazy(sgs) :
        /\ lazy' = r.lazy
        /\ \E o \in IF r.status = "ok" THEN AllocateTensors(G1, r.sgs[1])
                                      ELSE {Outcome(r.status, r.sgs[1])} :
            /\ sgs' = [r.sgs EXCEPT ![1] = o.sg]
            /\ pc' = IF o.status = "crash" THEN "crashed" ELSE "idle"
            /\ asked' = IF o.status = "delegate_error" THEN <<>> ELSE r.asked
            /\ Returns("AllocateTensors", o.status)
    /\ UNCHANGED <<model, call, index, cancelled>>

ResizeInput ==
    /\ pc = "idle"
    /\ LET r == ResizeInputTensor(G1, Primary)
       IN  sgs' = [sgs EXCEPT ![1] = r.sg] /\ Returns("ResizeInputTensor", r.status)
    /\ UNCHANGED <<model, pc, call, index, cancelled, lazy, asked>>

(* SetBufferHandle for a tensor that a delegate writes.                    *)
SetBufferHandle(t) ==
    /\ pc = "idle"
    /\ t \notin Primary.handle
    /\ Primary.delegate[t] # NoDelegate
    /\ sgs' = [sgs EXCEPT ![1].handle = @ \cup {t}]
    /\ Returns("SetBufferHandle", "ok")
    /\ UNCHANGED <<model, pc, call, index, cancelled, lazy, asked>>

(* Another thread asks to cancel, or the client takes it back.             *)
Cancel ==
    /\ cancelled' = ~cancelled
    /\ cancelled => pc = "idle"
    /\ UNCHANGED <<model, sgs, pc, call, index, lazy, last, asked>>

-----------------------------------------------------------------------------
(* The client writes new inputs and calls Invoke: values of before are not *)
(* those of this inference.                                                *)
BeginInvoke(which) ==
    /\ pc = "idle"
    /\ Primary.state # "uninvokable"
    /\ sgs' = [sgs EXCEPT ![1].fresh = G1.in, ![1].buffered = {}]
    /\ pc' = "invoke" /\ call' = which /\ index' = 1
    /\ UNCHANGED <<model, cancelled, lazy, last, asked>>

(* Invoke on a graph that is not ready.                                    *)
InvokeRefused ==
    /\ pc = "idle"
    /\ Primary.state = "uninvokable"
    /\ Returns("Invoke", "error")
    /\ UNCHANGED <<model, sgs, pc, call, index, cancelled, lazy, asked>>

(* The inputs are copied back from buf, to where they are allocated now.   *)
CopyInputs(ss, saved) == [ss EXCEPT ![1].fresh = saved \cap G1.in]

(* Mutant of EndInvoke: the retry keeps the delegates, and is tried again. *)
EndInvokeRetriesForever(s, status) ==
    IF /\ call = "InvokeWithCPUFallback" /\ status # "ok"
       /\ ~cancelled /\ s.applied # <<>>
    THEN /\ sgs' = [sgs EXCEPT ![1] = [s EXCEPT !.fresh = G1.in]]
         /\ index' = 1 /\ pc' = "invoke"
         /\ UNCHANGED <<last, asked, call>>
    ELSE /\ sgs' = [sgs EXCEPT ![1] = s]
         /\ pc' = "idle" /\ call' = "none" /\ index' = 1
         /\ Returns("Invoke", status)
         /\ UNCHANGED asked

(* Invoke returns with the primary subgraph s.  With a fallback, a failure *)
(* in the presence of delegates removes them everywhere, keeps the inputs  *)
(* and runs a second Invoke.                                               *)
EndInvoke(s, status) ==
    LET ss    == [sgs EXCEPT ![1] = s]
        again == /\ call = "InvokeWithCPUFallback" /\ status # "ok"
                 /\ ~cancelled
                 /\ s.applied # <<>>
        input == EnsureReadable(s, G1.in)
        Ends(op, st) == /\ pc' = "idle" /\ call' = "none" /\ index' = 1
                        /\ Returns(op, st)
    IN  IF ~again
        THEN /\ sgs' = ss
             /\ Ends(IF call = "retry" THEN "InvokeWithCPUFallback" ELSE call,
                     IF call = "retry" /\ status = "ok" THEN "delegate_error" ELSE status)
             /\ UNCHANGED asked
        ELSE IF input.status # "ok"
        THEN sgs' = ss /\ Ends(call, "error") /\ UNCHANGED asked
        ELSE \E r \in RemoveAll([ss EXCEPT ![1] = input.sg]) :
                /\ asked' = <<>>
                /\ IF r.status = "ok"
                   THEN /\ sgs' = CopyInputs(r.sgs, input.sg.fresh)
                        /\ pc' = "invoke" /\ call' = "retry" /\ index' = 1
                        /\ UNCHANGED last
                   ELSE sgs' = r.sgs /\ Ends(call, r.status)

(* The first half of the loop body: prepare, if due.                       *)
InvokePrepare ==
    /\ pc = "invoke"
    /\ index <= Len(Primary.plan)
    /\ \E r \in IF index = Primary.next_to_prepare THEN PrepareOpsAndTensors(G1, Primary)
                                                  ELSE {Outcome("ok", Primary)} :
        IF r.status = "ok"
        THEN /\ sgs' = [sgs EXCEPT ![1] = r.sg]
             /\ pc' = "run"
             /\ UNCHANGED <<call, index, last, asked>>
        ELSE EndInvoke(r.sg, r.status)
    /\ UNCHANGED <<model, cancelled, lazy>>

InvokeMayFail(node) ==
    (IF node.delegate = NoDelegate THEN "cpu_invoke" ELSE "kernel_invoke") \in G1.faults

(* The second half: inputs from buffers, the check for cancellation, the   *)
(* node.  One that fails may leave anything in its outputs.                *)
InvokeNode ==
    /\ pc = "run"
    /\ LET n       == Primary.plan[index]
           node    == Primary.nodes[n]
           fetched == FetchInputs(Primary, n)
           s       == fetched.sg
       IN  \/ /\ fetched.status # "ok"
              /\ EndInvoke(s, "error")
           \/ /\ fetched.status = "ok" /\ cancelled
              /\ EndInvoke(s, "error")
           \/ /\ fetched.status = "ok" /\ ~cancelled /\ InvokeMayFail(node)
              /\ EndInvoke([s EXCEPT !.fresh = @ \ node.outputs], "error")
           \/ /\ fetched.status = "ok" /\ ~cancelled
              /\ \E resized \in IF HasDynamicOutputs(G1, s, n) THEN BOOLEAN ELSE {FALSE} :
                    sgs' = [sgs EXCEPT ![1] = ResizedOutputs(G1, RunNode(s, n), index, resized)]
              /\ pc' = "invoke" /\ index' = index + 1
              /\ UNCHANGED <<call, last, asked>>
    /\ UNCHANGED <<model, cancelled, lazy>>

(* The plan is through: outputs are copied from buffers.                   *)
InvokeFinish ==
    /\ pc = "invoke"
    /\ index > Len(Primary.plan)
    /\ LET r == EnsureReadable(Primary, G1.out)
       IN  EndInvoke(r.sg, r.status)
    /\ UNCHANGED <<model, cancelled, lazy>>

InvokeStep == InvokePrepare \/ InvokeNode \/ InvokeFinish

Next ==
    \/ \E d \in Delegates : ModifyGraph(d)
    \/ AllocateAll
    \/ ResizeInput
    \/ \E t \in model.handles : SetBufferHandle(t)
    \/ Cancel
    \/ \E which \in {"Invoke"} \cup IF model.fallback THEN {"InvokeWithCPUFallback"} ELSE {} :
            BeginInvoke(which)
    \/ InvokeRefused
    \/ InvokeStep

(* A call that has begun goes on.                                          *)
Spec == Init /\ [][Next]_vars /\ WF_vars(InvokeStep)

-----------------------------------------------------------------------------
SubgraphType(g, s) ==
    /\ Elements(s.plan) \cup Elements(s.pre_plan) \subseteq DOMAIN s.nodes
    /\ s.state \in {"uninvokable", "invokable", "immutable"}
    /\ Elements(s.applied) \subseteq Delegates
    /\ s.next_to_prepare \in 1 .. Len(s.nodes) + 1
    /\ s.ready \subseteq DOMAIN s.nodes
    /\ s.delegate \in [GraphTensors(g) -> Delegates \cup {NoDelegate}]
    /\ s.handle \cup s.stale \cup s.fresh \cup s.buffered \cup s.shaped \subseteq GraphTensors(g)

(* The indices of plans and counters stay inside the lists they point to,  *)
(* also while nodes of delegates come and go.                              *)
TypeOK ==
    /\ \A i \in DOMAIN graphs : SubgraphType(graphs[i], sgs[i])
    /\ pc \in {"idle", "invoke", "run", "crashed"}
    /\ index \in 1 .. NumOriginal(G1) + 1
    /\ Elements(asked) \subseteq Delegates

(* "Allocates the necessary memory to execute all nodes" (memory_planner.h,*)
(* ExecuteAllocations): a graph that may be invoked has memory planned for *)
(* the execution plan that it has, not for one of before a delegate came   *)
(* or went.                                                                *)
InvokableIsPlanned ==
    \A i \in DOMAIN sgs : sgs[i].state # "uninvokable" => sgs[i].planner = <<sgs[i].plan>>

(* A node runs only after it was prepared for the shapes its inputs, and   *)
(* for a delegate kernel its outputs, have now: "non-dynamic I/O tensors   *)
(* of a delegate kernel will have correct shapes before its Prepare()      *)
(* method is called" (c/common.h).                                         *)
RunsPrepared == pc = "run" => Primary.plan[index] \in Primary.ready

(* What the comments on ModifyGraphWithDelegate (subgraph.h, interpreter.h)*)
(* and RemoveAllDelegates promise for each status, for all subgraphs: after*)
(* an error in the delegate no subgraph has a delegate and the plans are   *)
(* those of the model; after any other refusal the interpreter can still   *)
(* be invoked; static delegates make graphs immutable.                     *)
StatusTruthful ==
    LET restored(i) == /\ sgs[i].plan = [n \in 1 .. NumOriginal(graphs[i]) |-> n]
                       /\ sgs[i].pre_plan = <<>> /\ sgs[i].applied = <<>>
                       /\ sgs[i].state = "invokable"
    IN  last.op = "ModifyGraphWithDelegate" =>
            CASE last.status = "delegate_error"    -> \A i \in DOMAIN sgs : restored(i)
              [] last.status = "application_error" -> Primary.state # "uninvokable"
              [] last.status = "ok" -> \A i \in DOMAIN sgs :
                    Elements(sgs[i].applied) \subseteq AllowsDynamic \/ sgs[i].state = "immutable"
              [] OTHER -> TRUE

(* "This re-applies all delegates that were undone" (subgraph.h): when     *)
(* AllocateTensors succeeds, the delegates of the primary subgraph are the *)
(* ones that the client was told of.  Of a model with one subgraph: with   *)
(* several, one that refuses a delegate leaves it in those before it.      *)
DelegatesKept ==
    Len(sgs) = 1 /\ last.op = "AllocateTensors" /\ last.status = "ok" => Primary.applied = asked

(* "Delegate error but fallback succeeded. Output is valid"                *)
(* (interpreter_utils.h), the part of ImplementsInference that buffers of  *)
(* removed delegates, filled by an earlier inference, may break.           *)
FallbackOutputValid ==
    last.op = "InvokeWithCPUFallback" /\ last.status = "delegate_error" /\ pc = "idle" =>
        G1.out \subseteq Primary.fresh

(* The implementation of Inference: what Invoke has run of the model, and  *)
(* whether outputs that it calls valid are those of the present inputs.    *)
RunBefore(k) == UNION {Elements(Primary.nodes[Primary.plan[j]].runs) : j \in 1 .. k - 1}
IsInvoke == last.op \in {"Invoke", "InvokeWithCPUFallback"}
Outputs  == IF G1.out \subseteq Primary.fresh THEN "valid" ELSE "invalid"

Abstract == INSTANCE Inference WITH
    needs   <- [n \in DOMAIN G1.reads |->
                  {m \in DOMAIN G1.reads : G1.writes[m] \cap G1.reads[n] # {}}],
    running <- pc \in {"invoke", "run"},
    done    <- IF pc \in {"invoke", "run"} THEN RunBefore(index) ELSE {},
    result  <- IF pc \in {"invoke", "run"} \/ ~IsInvoke THEN "none"
               ELSE IF last.status = "error" THEN "failed" ELSE Outputs

(* Whatever was delegated, undone, redone, refused or removed before, and  *)
(* wherever it fails or is cancelled, Invoke runs the nodes of the model   *)
(* as Inference says, and its outputs are valid: "Success. Output is       *)
(* valid", "Delegate error but fallback succeeded. Output is valid"        *)
(* (interpreter_utils.h).                                                  *)
ImplementsInference == Abstract!Spec

(* Invoke returns, with or without a fallback.                             *)
InvokeReturns == pc \in {"invoke", "run"} ~> pc = "idle"
=============================================================================
