---------------------------- MODULE MCInterpreter -----------------------------
(* Instances of Interpreter.  d1 allows dynamic tensors, d2 and d3 do not. *)
EXTENDS Interpreter, TLC

CONSTANTS d1, d2, d3, null

MCDelegates == {d1, d2, d3}

Graph(reads, writes, in, out, dynamic, takes, faults) ==
    [reads |-> reads, writes |-> writes, in |-> {in}, out |-> {out}, dynamic |-> dynamic,
     takes |-> takes, faults |-> faults]

(* 0 -> n1 -> 1, 2;  2 -> n2 -> 3;  1, 3 -> n3 -> 4.  A delegate that takes *)
(* n1 and n3 gets two kernels, and tensor 1 goes from one to the other.    *)
Diamond(dynamic, takes, faults) ==
    Graph(<<{0}, {2}, {1, 3}>>, <<{1, 2}, {3}, {4}>>, 0, 4, dynamic, takes, faults)

(* 0 -> n1 -> 1 -> n2 -> 2.                                                *)
Chain(takes, faults) == Graph(<<{0}, {1}>>, <<{1}, {2}>>, 0, 2, {}, takes, faults)

Take(takes1, takes2, takes3) == (d1 :> takes1) @@ (d2 :> takes2) @@ (d3 :> takes3)

Model(gs, delegates, lazy_providers, handles, fallback) ==
    [graphs |-> gs, delegates |-> delegates, lazy |-> lazy_providers, handles |-> handles,
     fallback |-> fallback, late |-> FALSE]

InvokeFaults == {"cpu_invoke", "kernel_invoke"}

(* A delegate of each kind on one graph, that is static or has a dynamic   *)
(* tensor.                                                                 *)
OneSubgraph ==
    {Model(<<Diamond(dynamic, Take(takes1, takes2, {}), InvokeFaults \cup {"delegate_prepare"})>>,
           {d1, d2}, <<>>, {}, TRUE) :
        dynamic \in {{}, {3}}, takes1 \in {{1, 3}, {2}, {1, 2, 3}}, takes2 \in {{2, 3}, {1, 3}}}

(* A second subgraph, as If and While have them, where the delegates find  *)
(* other work, or none; one of them is lazy.                               *)
TwoSubgraphs ==
    LET faults == InvokeFaults \cup {"delegate_prepare", "kernel_prepare"}
    IN  {Model(<<Diamond({}, Take({}, {1, 3}, {2}), faults), Chain(Take({}, {2}, takes3), faults)>>,
               {d2, d3}, <<d3>>, {}, TRUE) : takes3 \in {{}, {1, 2}}}

(* Tensor 1 goes through a buffer from one kernel of d1 to another, to the *)
(* CPU, or to d2.                                                          *)
HandedOver ==
    {Model(<<Diamond({}, Take(takes1, {1, 3}, {}), InvokeFaults)>>, {d1, d2}, <<>>, {1, 4}, FALSE) :
        takes1 \in {{1, 3}, {1, 2}, {1, 2, 3}}}

AllModels == OneSubgraph \cup TwoSubgraphs \cup HandedOver

(* The first kernel of d1 writes tensor 1 to a buffer.  When it has done so*)
(* in one inference and fails in the next, the model runs again on the CPU *)
(* with that buffer still marked as newer than the tensor's memory.        *)
FallbackWithBuffer ==
    {Model(<<Diamond({}, Take({1, 3}, {}, {}), {"kernel_invoke"})>>, {d1}, <<>>, {1}, TRUE)}
=============================================================================
