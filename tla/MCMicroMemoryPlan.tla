-------------------------- MODULE MCMicroMemoryPlan --------------------------
EXTENDS MicroMemoryPlan

(* Three operators with one output each.  Tensor 1 is an input of the      *)
(* graph, tensor 2 one of several things, tensor 2 + k the output of the   *)
(* k-th operator.                                                          *)
Reads(k) == {r \in SUBSET (1 .. k + 1) : r # {} /\ \A x, y, z \in r : x = y \/ y = z \/ x = z}

OpLists == {<<[inputs |-> a, outputs |-> {3}], [inputs |-> b, outputs |-> {4}],
              [inputs |-> c, outputs |-> {5}]>> : a \in Reads(1), b \in Reads(2), c \in Reads(3)}

GraphsOf(kinds, sizes, offsets_of) ==
    {[bytes |-> s, ops |-> o, outputs |-> r, offline |-> f, scratch |-> <<[node |-> 1, bytes |-> 1]>>,
      inputs |-> {1} \cup (IF k = "input" THEN {2} ELSE {}),
      preset |-> IF k = "preset" THEN {2} ELSE {},
      variables |-> IF k = "variable" THEN {2} ELSE {}] :
        s \in sizes, o \in OpLists, r \in {{5}, {3, 5}}, f \in offsets_of, k \in kinds}

MixedSizes == {<<1, 3, 2, 1, 3>>, <<3, 1, 1, 4, 2>>}

(* Tensor 2 is only an input of operators: of one, that reads an input of  *)
(* the graph too.                                                          *)
OperatorInput ==
    {g \in GraphsOf({"operator"}, {<<3, 1, 1, 4, 2>>}, {<<>>}) :
        \E k \in 1 .. 3 : /\ {1, 2} \subseteq g.ops[k].inputs
                          /\ \A j \in (1 .. 3) \ {k} : 2 \notin g.ops[j].inputs}

(* One buffer more than the planner has room for.                          *)
TooManyBuffers == {[g EXCEPT !.scratch = @ \o @] : g \in OperatorInput}

(* Without metadata and with the offset of one tensor; and offsets that    *)
(* are too few.                                                            *)
SmallGraphs ==
    GraphsOf({"input", "preset"}, MixedSizes, {<<>>, <<-1, -1, -1, 2, -1>>})
        \cup GraphsOf({"variable"}, {<<3, 1, 1, 4, 2>>}, {<<>>, <<0, -1>>})
        \cup OperatorInput \cup TooManyBuffers

=============================================================================
