----------------------------- MODULE PartitionOps -----------------------------
(***************************************************************************)
(* What PartitionGraphIntoIndependentNodeSubsets (graph_info.cc) computes, *)
(* as an operator.  GraphPartition takes the loops of the code step by     *)
(* step and checks that they end with this result; Subgraph uses it.       *)
(*                                                                         *)
(* plan is the execution plan, in and out the tensors of each node, result *)
(* the outputs of the graph and claimed the nodes_to_partition.            *)
(***************************************************************************)
EXTENDS SeqOps, FiniteSets

ReadsOf(in, ns)   == UNION {in[n] : n \in ns}
WritesOf(out, ns) == UNION {out[n] : n \in ns}

TypeIn(claimed, n) == IF n \in claimed THEN "partition" ELSE "non_partition"

(* Whatever n reads and a node of the plan writes has been written, when   *)
(* the nodes of done have run.                                             *)
ReadyAfter(plan, in, out, done, n) ==
    \A m \in Elements(plan) : out[m] \cap in[n] # {} => m \in done

(* Mutant of PassOver: nodes of the type join whether they are ready or not.*)
PassOverUnready(plan, in, out, claimed, type, before, nodes) ==
    nodes \o SelectSeq(plan, LAMBDA n : /\ n \notin before \cup Elements(nodes)
                                       /\ TypeIn(claimed, n) = type)

(* One pass over the plan: nodes of the type that are ready join nodes.    *)
PassOver(plan, in, out, claimed, type, before, nodes) ==
    LET Joins(ns, n) ==
            LET done == before \cup Elements(ns)
            IN  IF /\ n \notin done
                   /\ TypeIn(claimed, n) = type
                   /\ ReadyAfter(plan, in, out, done, n)
                THEN Append(ns, n)
                ELSE ns
    IN  Fold(Joins, nodes, plan)

(* The nodes of the next subset, once the nodes of before are in subsets:  *)
(* the first node that is ready gives the type, and passes over the plan   *)
(* follow (as many as there are nodes is enough) until one adds nothing.   *)
(* If no node is ready, there is no next subset.                           *)
NextNodes(plan, in, out, claimed, before) ==
    LET Open(k) == plan[k] \notin before /\ ReadyAfter(plan, in, out, before, plan[k])
        first   == CHOOSE k \in 1 .. Len(plan) : Open(k) /\ \A j \in 1 .. k - 1 : ~Open(j)
        type    == TypeIn(claimed, plan[first])
    IN  IF \A k \in 1 .. Len(plan) : ~Open(k) THEN <<>>
        ELSE Fold(LAMBDA ns, k : PassOver(plan, in, out, claimed, type, before, ns), <<>>, plan)

(* The subsets with their boundaries: inputs from outside, and what others *)
(* or the graph need of them.                                              *)
Partition(plan, in, out, result, claimed) ==
    LET all == Elements(plan)
        More(c, k) ==
            LET ns == NextNodes(plan, in, out, claimed, c.done)
            IN  IF ns = <<>> THEN c
                ELSE [subsets |-> Append(c.subsets, ns), done |-> c.done \cup Elements(ns)]
        subsets == Fold(More, [subsets |-> <<>>, done |-> {}], plan).subsets
    IN  [k \in 1 .. Len(subsets) |->
            LET ns == Elements(subsets[k])
            IN  [type           |-> TypeIn(claimed, subsets[k][1]),
                 nodes          |-> subsets[k],
                 input_tensors  |-> ReadsOf(in, ns) \ WritesOf(out, ns),
                 output_tensors |-> WritesOf(out, ns) \cap
                                    (ReadsOf(in, all \ ns) \cup result)]]
=============================================================================
