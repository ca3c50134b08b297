---------------------------- MODULE MCArenaPlanner ----------------------------
(***************************************************************************)
(* Graphs of three nodes over these tensors: 0 is the input, 1 a variable, *)
(* 2, 3 and 4 are the outputs of nodes 0, 1 and 2, 5 is a temporary of     *)
(* node 1 and 6 a weight.  Node 0 updates the variable, and the input and  *)
(* the outputs of nodes 0 and 1 may be dynamic.                            *)
(***************************************************************************)
EXTENDS ArenaPlanner

Rw  == "ArenaRw"
Dyn == "Dynamic"

Op(in, out, temp) == [inputs |-> in, outputs |-> {out}, temporaries |-> temp, constant |-> FALSE]

Flow(in2, out, k0, k2, k3) ==
    [nodes |-> << Op(<<0, 1>>, 2, {}), Op(<<2>>, 3, {5}), Op(in2, 4, {}) >>,
     inputs |-> {0}, variables |-> {1}, outputs |-> out,
     kind |-> 0 :> k0 @@ 1 :> "ArenaRwPersistent" @@ 2 :> k2 @@ 3 :> k3 @@ 4 :> Rw @@ 5 :> Rw
              @@ 6 :> "MmapRo",
     bytes |-> [t \in 0 .. 6 |-> 1]]

DynamicInput == [Flow(<<3>>, {3}, Dyn, Rw, Rw) EXCEPT !.nodes = SubSeq(@, 1, 2)]

MCGraphs ==
    {Flow(<<3>>, {4}, Rw, k2, k3) : k2 \in {Rw, Dyn}, k3 \in {Rw, Dyn}}
    \cup {Flow(<<3>>, {2, 4}, Rw, Rw, Rw), Flow(<<3, 2>>, {4}, Rw, Rw, Dyn)}
    \cup {DynamicInput}

(* What a byte of the arena holds matters while it is part of a value that *)
(* somebody relies on (and stays where it is, LiveValuesStay).             *)
Intact == {t \in Live : /\ IsRw(t) /\ data[t] # Null
                        /\ \A b \in data[t] .. data[t] + bytes[t] - 1 : memory["arena"][b] = t}
View == <<graph, bytes, data, planner, memory["persistent"], Intact, driverVars, userVars,
          initialized, prepared>>
=============================================================================
