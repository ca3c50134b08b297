------------------------------ MODULE Inference -------------------------------
(***************************************************************************)
(* What a client may rely on, whatever delegates do: an inference runs     *)
(* every node of the model once, alone or in a group, after the nodes it   *)
(* depends on, and succeeds only with all of them run and valid outputs.   *)
(* It may start over, when its delegates are removed, and it may fail.     *)
(***************************************************************************)
VARIABLES
    needs,    \* for each node of the model, the nodes whose outputs it reads
    running,  \* an inference is under way
    done,     \* the nodes it has run
    result    \* of the last one: "none", "valid" or "failed"

vars  == <<needs, running, done, result>>
Nodes == DOMAIN needs

Init ==
    /\ \A n \in Nodes : needs[n] \subseteq Nodes
    /\ running = FALSE /\ done = {} /\ result = "none"

Begin ==
    /\ ~running
    /\ running' = TRUE /\ done' = {} /\ result' = "none"
    /\ UNCHANGED needs

(* A group may depend on nodes of its own.                                 *)
Run(group) ==
    /\ running
    /\ group # {} /\ group \cap done = {}
    /\ \A n \in group : needs[n] \subseteq done \cup group
    /\ done' = done \cup group
    /\ UNCHANGED <<needs, running, result>>

StartOver ==
    /\ running
    /\ done' = {}
    /\ UNCHANGED <<needs, running, result>>

Succeed ==
    /\ running
    /\ done = Nodes
    /\ running' = FALSE /\ done' = {} /\ result' = "valid"
    /\ UNCHANGED needs

(* An inference fails, or is refused.                                      *)
Fail ==
    /\ running' = FALSE /\ done' = {} /\ result' = "failed"
    /\ UNCHANGED needs

(* The client does something else.                                         *)
Forget ==
    /\ ~running
    /\ result' = "none"
    /\ UNCHANGED <<needs, running, done>>

Next ==
    \/ Begin
    \/ \E group \in SUBSET Nodes : Run(group)
    \/ StartOver
    \/ Succeed
    \/ Fail
    \/ Forget

Spec == Init /\ [][Next]_vars
=============================================================================
