------------------------------ MODULE InterpreterProofs -----------------------
(***************************************************************************)
(* Proofs about Subgraph and Interpreter, for all models, delegates and    *)
(* sequences of calls.                                                     *)
(*                                                                         *)
(* The module goes up the layers of the code.  First the subgraph: what a  *)
(* kernel that replaces a part of a plan has to be for the plan to stay in *)
(* order, what preparing and planning leave alone, what removing delegates *)
(* restores, and how each of the operations may end.  Sound is the shape   *)
(* of a subgraph, Recorded adds that its plan is what its delegates make   *)
(* of the plan of the model (so that delegates that are undone can be      *)
(* applied again, with the same result), Fit that it is prepared for the   *)
(* shapes of now as far as it says, and Known is all of them.  Last the    *)
(* interpreter: Base says that every subgraph is known, the program        *)
(* counter fits and what is in front of it has its shapes; it holds        *)
(* whatever the models are, and each of the invariants after it adds to    *)
(* Base what one property needs.                                           *)
(***************************************************************************)
EXTENDS Interpreter, OpsProofs, FiniteSetTheorems

-----------------------------------------------------------------------------
(* The nodes and the plan of the model.                                    *)
Orig(g)      == [n \in 1 .. NumOriginal(g) |-> n]
OrigNodes(g) == [n \in 1 .. NumOriginal(g) |-> OriginalNode(g, n)]

NodeRecords(g) == [inputs : SUBSET GraphTensors(g), outputs : SUBSET GraphTensors(g),
                   delegate : Delegates \cup {NoDelegate}, runs : Seq(Nat)]
NodeLists(g)   == Seq(NodeRecords(g))

(* Nodes of delegates come behind those of the model.                      *)
GoodNodes(g, nodes) ==
    /\ nodes \in NodeLists(g) /\ NumOriginal(g) <= Len(nodes)
    /\ \A n \in 1 .. NumOriginal(g) : nodes[n] = OriginalNode(g, n)

RunsOf(nodes, n) == Elements(nodes[n].runs)
AllRuns(nodes, ns) == UNION {RunsOf(nodes, n) : n \in ns}

(* A node runs nodes of the model, is given what they read from elsewhere, *)
(* and has outputs of theirs.                                              *)
GoodNode(g, node) ==
    LET ns == Elements(node.runs)
    IN  /\ ns # {} /\ ns \subseteq 1 .. NumOriginal(g)
        /\ ReadsOf(g.reads, ns) \ WritesOf(g.writes, ns) \subseteq node.inputs
        /\ node.outputs \subseteq WritesOf(g.writes, ns)

OutputsBefore(nodes, plan, k) == UNION {nodes[plan[j]].outputs : j \in 1 .. k - 1}

(* No two nodes of a plan run the same, and inputs are there in time.      *)
WellPlaced(g, nodes, plan) ==
    /\ plan \in Seq(Nat)
    /\ \A k \in 1 .. Len(plan) :
          /\ plan[k] \in 1 .. Len(nodes) /\ GoodNode(g, nodes[plan[k]])
          /\ nodes[plan[k]].inputs \subseteq g.in \cup OutputsBefore(nodes, plan, k)
    /\ \A j, k \in 1 .. Len(plan) : j # k => RunsOf(nodes, plan[j]) \cap RunsOf(nodes, plan[k]) = {}

(* A plan that computes the graph.                                         *)
GoodPlan(g, nodes, plan) ==
    /\ WellPlaced(g, nodes, plan)
    /\ AllRuns(nodes, Elements(plan)) = 1 .. NumOriginal(g)
    /\ g.out \subseteq g.in \cup OutputsBefore(nodes, plan, Len(plan) + 1)

(* What a graph has.                                                       *)
LEMMA GraphFacts ==
    ASSUME NEW g, IsGraph(g)
    PROVE  /\ NumOriginal(g) \in Nat \ {0}
           /\ Orig(g) \in Seq(Nat) /\ Len(Orig(g)) = NumOriginal(g) /\ Orig(g) # <<>>
           /\ Elements(Orig(g)) = 1 .. NumOriginal(g)
           /\ \A n \in 1 .. NumOriginal(g) : Orig(g)[n] = n
           /\ OrigNodes(g) \in NodeLists(g) /\ Len(OrigNodes(g)) = NumOriginal(g)
           /\ \A n \in 1 .. NumOriginal(g) : OrigNodes(g)[n] = OriginalNode(g, n)
           /\ GoodNodes(g, OrigNodes(g))
           /\ DOMAIN g.reads = 1 .. NumOriginal(g) /\ DOMAIN g.writes = 1 .. NumOriginal(g)
           /\ \A n \in 1 .. NumOriginal(g) : /\ g.reads[n] \subseteq GraphTensors(g)
                                             /\ g.writes[n] \subseteq GraphTensors(g)
           /\ g.in \subseteq GraphTensors(g) /\ g.out \subseteq GraphTensors(g)
           /\ g.dynamic \subseteq GraphTensors(g)
<1> DEFINE N == NumOriginal(g)
<1>1. N \in Nat /\ N # 0 /\ DOMAIN g.reads = 1 .. N /\ DOMAIN g.writes = 1 .. N
  <2>1. g.reads \in Seq(SUBSET Nat) /\ g.writes \in Seq(SUBSET Nat) /\ Len(g.writes) = Len(g.reads)
    BY DEF IsGraph, NumOriginal
  <2>2. 1 .. N # {}
    BY DEF IsGraph
  <2>3. N \in Nat /\ DOMAIN g.reads = 1 .. N /\ DOMAIN g.writes = 1 .. N
    BY <2>1, LenProperties DEF NumOriginal
  <2> QED BY <2>2, <2>3
<1>2. \A n \in 1 .. N : g.reads[n] \subseteq GraphTensors(g) /\ g.writes[n] \subseteq GraphTensors(g)
  BY <1>1 DEF GraphTensors, ReadsOf, WritesOf
<1> HIDE DEF N
<1>3. Orig(g) \in [1 .. N -> Nat] /\ \A n \in 1 .. N : Orig(g)[n] = n
  BY DEF Orig, N
<1>4. Orig(g) \in Seq(Nat) /\ Len(Orig(g)) = N
  BY <1>1, <1>3, FunctionIsSeq
<1>5. Orig(g) # <<>>
  BY <1>1, <1>4, EmptySeq
<1>6. Elements(Orig(g)) = 1 .. N
  BY <1>3, <1>4 DEF Elements
<1>7. \A n \in 1 .. N : OriginalNode(g, n) \in NodeRecords(g)
  BY <1>2 DEF OriginalNode, NodeRecords
<1>8. OrigNodes(g) \in [1 .. N -> NodeRecords(g)] /\ \A n \in 1 .. N : OrigNodes(g)[n] = OriginalNode(g, n)
  BY <1>7 DEF OrigNodes, N
<1>9. OrigNodes(g) \in NodeLists(g) /\ Len(OrigNodes(g)) = N
  BY <1>1, <1>8, FunctionIsSeq DEF NodeLists
<1>10. GoodNodes(g, OrigNodes(g))
  BY <1>1, <1>8, <1>9 DEF GoodNodes, N
<1>11. g.in \subseteq GraphTensors(g) /\ g.out \subseteq GraphTensors(g) /\ g.dynamic \subseteq GraphTensors(g)
  BY DEF IsGraph
<1> QED BY <1>1, <1>2, <1>3, <1>4, <1>5, <1>6, <1>8, <1>9, <1>10, <1>11 DEF N

(* A tensor has one writer, and inputs of the graph have none.             *)
LEMMA OneWriter ==
    ASSUME NEW g, IsGraph(g), NEW A \in SUBSET (1 .. NumOriginal(g)), NEW B \in SUBSET (1 .. NumOriginal(g)),
           A \cap B = {}
    PROVE  /\ WritesOf(g.writes, A) \cap WritesOf(g.writes, B) = {}
           /\ WritesOf(g.writes, A) \cap g.in = {}
<1>1. \A m, n \in 1 .. NumOriginal(g) : m # n => g.writes[m] \cap g.writes[n] = {}
  BY DEF IsGraph
<1>2. \A m \in 1 .. NumOriginal(g) : g.writes[m] \cap g.in = {}
  <2>1. g.in \cap WritesOf(g.writes, 1 .. NumOriginal(g)) = {}
    BY DEF IsGraph
  <2> QED BY <2>1 DEF WritesOf
<1>3. \A a \in A, b \in B : g.writes[a] \cap g.writes[b] = {}
  BY <1>1
<1>4. \A x \in WritesOf(g.writes, A) : x \notin WritesOf(g.writes, B) /\ x \notin g.in
  <2> TAKE x \in WritesOf(g.writes, A)
  <2>1. PICK a \in A : x \in g.writes[a]
    BY DEF WritesOf
  <2> QED BY <1>2, <1>3, <2>1 DEF WritesOf
<1> QED BY <1>4

(* A node of the model is a good one.                                      *)
LEMMA OriginalIsGood ==
    ASSUME NEW g, IsGraph(g), NEW n \in 1 .. NumOriginal(g)
    PROVE  GoodNode(g, OriginalNode(g, n)) /\ Elements(OriginalNode(g, n).runs) = {n}
<1>1. Elements(<<n>>) = {n}
  BY DEF Elements
<1> QED BY <1>1 DEF GoodNode, OriginalNode, ReadsOf, WritesOf

(* The plan of the model is good.                                          *)
LEMMA OrigIsGood ==
    ASSUME NEW g, IsGraph(g)
    PROVE  GoodPlan(g, OrigNodes(g), Orig(g))
<1> DEFINE N == NumOriginal(g)
           nodes == OrigNodes(g)
           plan == Orig(g)
<1>1. /\ N \in Nat /\ plan \in Seq(Nat) /\ Len(plan) = N /\ Elements(plan) = 1 .. N
      /\ \A n \in 1 .. N : plan[n] = n /\ nodes[n] = OriginalNode(g, n)
      /\ Len(nodes) = N
  BY GraphFacts
<1>2. \A n \in 1 .. N : GoodNode(g, nodes[n]) /\ RunsOf(nodes, n) = {n}
  BY <1>1, OriginalIsGood DEF RunsOf
<1>3. \A n \in 1 .. N : nodes[n].inputs = g.reads[n] /\ nodes[n].outputs = g.writes[n]
  BY <1>1 DEF OriginalNode
<1> HIDE DEF N, nodes, plan
<1>4. \A k \in 1 .. N + 1 : OutputsBefore(nodes, plan, k) = WritesOf(g.writes, 1 .. k - 1)
  <2> TAKE k \in 1 .. N + 1
  <2>1. \A j \in 1 .. k - 1 : nodes[plan[j]].outputs = g.writes[j]
    BY <1>1, <1>3
  <2> QED BY <2>1 DEF OutputsBefore, WritesOf
<1>5. \A n \in 1 .. N : g.reads[n] \subseteq g.in \cup WritesOf(g.writes, 1 .. n - 1)
  BY DEF IsGraph, N
<1>6. WellPlaced(g, nodes, plan)
  <2>1. ASSUME NEW k \in 1 .. N
        PROVE  nodes[plan[k]].inputs \subseteq g.in \cup OutputsBefore(nodes, plan, k)
    <3>1. k \in 1 .. N + 1 /\ plan[k] = k
      BY <1>1
    <3>2. nodes[plan[k]].inputs = g.reads[k]
      BY <1>3, <3>1
    <3> QED BY <1>4, <1>5, <3>1, <3>2
  <2> QED BY <1>1, <1>2, <2>1 DEF WellPlaced
<1>7. AllRuns(nodes, Elements(plan)) = 1 .. N
  BY <1>1, <1>2 DEF AllRuns
<1>8. g.out \subseteq g.in \cup OutputsBefore(nodes, plan, Len(plan) + 1)
  <2>1. GraphTensors(g) \subseteq g.in \cup WritesOf(g.writes, 1 .. N)
    <3>1. DOMAIN g.reads = 1 .. N /\ DOMAIN g.writes = 1 .. N
      BY GraphFacts DEF N
    <3>2. \A n \in 1 .. N : WritesOf(g.writes, 1 .. n - 1) \subseteq WritesOf(g.writes, 1 .. N)
      BY <1>1 DEF WritesOf
    <3>3. \A n \in 1 .. N : g.reads[n] \subseteq g.in \cup WritesOf(g.writes, 1 .. N)
      BY <1>5, <3>2
    <3>4. ReadsOf(g.reads, 1 .. N) \subseteq g.in \cup WritesOf(g.writes, 1 .. N)
      BY <3>3 DEF ReadsOf
    <3> QED BY <3>1, <3>4 DEF GraphTensors
  <2>2. OutputsBefore(nodes, plan, N + 1) = WritesOf(g.writes, 1 .. N)
    <3>1. N + 1 \in 1 .. N + 1 /\ 1 .. (N + 1) - 1 = 1 .. N
      BY <1>1
    <3> QED BY <1>4, <3>1
  <2> QED BY <1>1, <2>1, <2>2, GraphFacts
<1> QED BY <1>6, <1>7, <1>8 DEF GoodPlan, N, nodes, plan

(* There are not more nodes in a plan than in the model.                   *)
LEMMA PlanIsShort ==
    ASSUME NEW g, IsGraph(g), NEW nodes, NEW plan, WellPlaced(g, nodes, plan)
    PROVE  Len(plan) \in Nat /\ Len(plan) <= NumOriginal(g)
<1> DEFINE L == Len(plan)
           N == NumOriginal(g)
           C == 1 .. L
           D == 1 .. N
           f == [k \in C |-> CHOOSE n \in D : n \in RunsOf(nodes, plan[k])]
<1>1. L \in Nat /\ N \in Nat
  BY GraphFacts, LenProperties DEF WellPlaced
<1>2. ASSUME NEW k \in C PROVE f[k] \in D /\ f[k] \in RunsOf(nodes, plan[k])
  <2>1. RunsOf(nodes, plan[k]) # {} /\ RunsOf(nodes, plan[k]) \subseteq D
    BY DEF WellPlaced, GoodNode, RunsOf
  <2> QED BY <2>1
<1> HIDE DEF f
<1>3. f \in [C -> D]
  BY <1>2 DEF f
<1>4. \A j, k \in C : j # k => f[j] # f[k]
  BY <1>2 DEF WellPlaced
<1>5. f \in Injection(C, D)
  BY <1>3, <1>4 DEF Injection, IsInjective
<1>6. IsFiniteSet(C) /\ Cardinality(C) = L /\ IsFiniteSet(D) /\ Cardinality(D) = N
  <2>1. IsFiniteSet(C) /\ Cardinality(C) = L
    <3> DEFINE i == 1
    <3>1. i \in Int /\ L \in Int
      BY <1>1
    <3>2. IsFiniteSet(i .. L) /\ Cardinality(i .. L) = IF i > L THEN 0 ELSE L - i + 1
      BY <3>1, FS_Interval
    <3> QED BY <1>1, <3>2
  <2>2. IsFiniteSet(D) /\ Cardinality(D) = N
    BY <1>1, FS_Interval
  <2> QED BY <2>1, <2>2
<1>7. Cardinality(C) <= Cardinality(D)
  <2> HIDE DEF C, D
  <2> QED BY <1>5, <1>6, FS_Injection DEF ExistsInjection
<1> QED BY <1>1, <1>6, <1>7

(* Dependencies go forward in a good plan.                                 *)
LEMMA GoodPlanInOrder ==
    ASSUME NEW g, IsGraph(g), NEW nodes \in NodeLists(g), NEW plan, WellPlaced(g, nodes, plan)
    PROVE  InOrder(plan, [n \in DOMAIN nodes |-> nodes[n].inputs], [n \in DOMAIN nodes |-> nodes[n].outputs])
<1> DEFINE L == Len(plan)
           in == [n \in DOMAIN nodes |-> nodes[n].inputs]
           out == [n \in DOMAIN nodes |-> nodes[n].outputs]
           R(k) == RunsOf(nodes, plan[k])
<1>1. L \in Nat /\ DOMAIN nodes = 1 .. Len(nodes)
  BY PlanIsShort DEF NodeLists
<1>2. \A k \in 1 .. L : /\ plan[k] \in DOMAIN nodes
                        /\ R(k) # {} /\ R(k) \in SUBSET (1 .. NumOriginal(g))
                        /\ out[plan[k]] \subseteq WritesOf(g.writes, R(k))
                        /\ out[plan[k]] = nodes[plan[k]].outputs
                        /\ in[plan[k]] \subseteq g.in \cup OutputsBefore(nodes, plan, k)
  BY <1>1 DEF WellPlaced, GoodNode, RunsOf
<1>3. \A j, k \in 1 .. L : j # k => R(j) \cap R(k) = {}
  BY DEF WellPlaced
<1>4. \A j, k \in 1 .. L : plan[j] = plan[k] => j = k
  BY <1>2, <1>3
<1> HIDE DEF in, out, R
<1>5. \A j, k \in 1 .. L : j # k => out[plan[j]] \cap out[plan[k]] = {}
  BY <1>2, <1>3, OneWriter
<1>6. \A j \in 1 .. L : out[plan[j]] \cap g.in = {}
  <2> TAKE j \in 1 .. L
  <2>1. R(j) \cap {} = {} /\ {} \in SUBSET (1 .. NumOriginal(g))
    OBVIOUS
  <2> QED BY <1>2, <2>1, OneWriter
<1>7. ASSUME NEW j \in 1 .. L, NEW k \in 1 .. L, out[plan[j]] \cap in[plan[k]] # {}
      PROVE  j < k
  <2>1. PICK t : t \in out[plan[j]] /\ t \in in[plan[k]]
    BY <1>7
  <2>2. t \in OutputsBefore(nodes, plan, k)
    BY <1>2, <1>6, <2>1
  <2>3. PICK l \in 1 .. k - 1 : t \in nodes[plan[l]].outputs
    BY <2>2 DEF OutputsBefore
  <2>4. l \in 1 .. L /\ l < k
    BY <1>1
  <2>5. t \in out[plan[l]]
    BY <1>2, <2>3, <2>4
  <2>6. l = j
    BY <1>5, <2>1, <2>4, <2>5
  <2> QED BY <2>4, <2>6
<1> QED BY <1>1, <1>4, <1>7 DEF InOrder, in, out

-----------------------------------------------------------------------------
InsOf(nodes)  == [n \in DOMAIN nodes |-> nodes[n].inputs]
OutsOf(nodes) == [n \in DOMAIN nodes |-> nodes[n].outputs]

(* A plan that is being made of the nodes D of a plan before: what the     *)
(* others read of them, or the graph gives out, is among its outputs.      *)
PartPlan(g, nodes, plan, D, nodes1, plan1) ==
    /\ WellPlaced(g, nodes1, plan1)
    /\ AllRuns(nodes1, Elements(plan1)) = AllRuns(nodes, D)
    /\ \A n \in D : nodes[n].outputs \cap (ReadsOf(InsOf(nodes), Elements(plan) \ D) \cup g.out)
                      \subseteq OutputsBefore(nodes1, plan1, Len(plan1) + 1)

(* More nodes behind those there were.                                     *)
Extends(nodes1, nodes2) ==
    /\ Len(nodes1) \in Nat /\ Len(nodes2) \in Nat /\ Len(nodes1) <= Len(nodes2)
    /\ \A n \in 1 .. Len(nodes1) : nodes2[n] = nodes1[n]

(* Nodes xs that stand for the nodes S, and may run behind plan1.          *)
StandFor(g, nodes, plan, D, S, nodes1, plan1, nodes2, xs) ==
    /\ xs \in Seq(Nat)
    /\ \A i \in 1 .. Len(xs) :
          /\ xs[i] \in 1 .. Len(nodes2) /\ GoodNode(g, nodes2[xs[i]])
          /\ nodes2[xs[i]].inputs \subseteq g.in \cup OutputsBefore(nodes1, plan1, Len(plan1) + 1)
                                            \cup OutputsBefore(nodes2, xs, i)
          /\ RunsOf(nodes2, xs[i]) \cap AllRuns(nodes, D) = {}
    /\ \A i, j \in 1 .. Len(xs) : i # j => RunsOf(nodes2, xs[i]) \cap RunsOf(nodes2, xs[j]) = {}
    /\ AllRuns(nodes2, Elements(xs)) = AllRuns(nodes, S)
    /\ \A n \in S : nodes[n].outputs \cap (ReadsOf(InsOf(nodes), Elements(plan) \ (D \cup S)) \cup g.out)
                      \subseteq OutputsBefore(nodes2, xs, Len(xs) + 1)

(* Such a plan grows by them.                                              *)
LEMMA GrowPlan ==
    ASSUME NEW g, NEW nodes, NEW plan, NEW D, NEW S, NEW nodes1, NEW plan1,
           PartPlan(g, nodes, plan, D, nodes1, plan1),
           NEW nodes2, Extends(nodes1, nodes2), NEW xs,
           StandFor(g, nodes, plan, D, S, nodes1, plan1, nodes2, xs)
    PROVE  PartPlan(g, nodes, plan, D \cup S, nodes2, plan1 \o xs)
<1> DEFINE L == Len(plan1)
           M == Len(xs)
           qs == plan1 \o xs
<1>1. /\ plan1 \in Seq(Nat) /\ L \in Nat /\ M \in Nat /\ qs \in Seq(Nat) /\ Len(qs) = L + M
      /\ \A k \in 1 .. L : qs[k] = plan1[k]
      /\ \A i \in 1 .. M : qs[L + i] = xs[i]
  <2>1. plan1 \in Seq(Nat)
    BY DEF PartPlan, WellPlaced
  <2>2. xs \in Seq(Nat)
    BY DEF StandFor
  <2> QED BY <2>1, <2>2, ConcatProperties, LenProperties
<1> HIDE DEF qs
<1> USE DEF Extends
<1>2. \A k \in 1 .. L : plan1[k] \in 1 .. Len(nodes1)
  BY DEF PartPlan, WellPlaced
<1>3. \A k \in 1 .. L : nodes2[qs[k]] = nodes1[plan1[k]] /\ qs[k] \in 1 .. Len(nodes2)
  <2> TAKE k \in 1 .. L
  <2>1. qs[k] = plan1[k] /\ plan1[k] \in 1 .. Len(nodes1)
    BY <1>1, <1>2
  <2>2. nodes2[plan1[k]] = nodes1[plan1[k]] /\ plan1[k] \in 1 .. Len(nodes2)
    BY <2>1
  <2> QED BY <2>1, <2>2
<1> HIDE DEF L, M, Extends
<1>4. \A i \in 1 .. M : nodes2[qs[L + i]] = nodes2[xs[i]] /\ qs[L + i] \in 1 .. Len(nodes2)
  BY <1>1 DEF StandFor, M
<1>5. \A k \in 1 .. L + M : k \in 1 .. L \/ \E i \in 1 .. M : k = L + i
  <2> TAKE k \in 1 .. L + M
  <2>1. ~(k \in 1 .. L) => k - L \in 1 .. M /\ k = L + (k - L)
    BY <1>1
  <2> QED BY <2>1
<1>6. \A k \in 1 .. L + 1 : OutputsBefore(nodes2, qs, k) = OutputsBefore(nodes1, plan1, k)
  <2> TAKE k \in 1 .. L + 1
  <2>1. \A j \in 1 .. k - 1 : nodes2[qs[j]].outputs = nodes1[plan1[j]].outputs
    BY <1>1, <1>3
  <2> QED BY <2>1 DEF OutputsBefore
<1>7. \A i \in 1 .. M + 1 : OutputsBefore(nodes1, plan1, L + 1) \cup OutputsBefore(nodes2, xs, i)
                              \subseteq OutputsBefore(nodes2, qs, L + i)
  <2> TAKE i \in 1 .. M + 1
  <2>1. \A j \in 1 .. i - 1 : L + j \in 1 .. (L + i) - 1 /\ nodes2[qs[L + j]].outputs = nodes2[xs[j]].outputs
    BY <1>1, <1>4
  <2>2. OutputsBefore(nodes2, xs, i) \subseteq OutputsBefore(nodes2, qs, L + i)
    BY <2>1 DEF OutputsBefore
  <2>3. \A j \in 1 .. (L + 1) - 1 : j \in 1 .. (L + i) - 1 /\ nodes2[qs[j]].outputs = nodes1[plan1[j]].outputs
    BY <1>1, <1>3
  <2>4. OutputsBefore(nodes1, plan1, L + 1) \subseteq OutputsBefore(nodes2, qs, L + i)
    BY <2>3 DEF OutputsBefore
  <2> QED BY <2>2, <2>4
<1>8. \A k \in 1 .. L : /\ GoodNode(g, nodes2[qs[k]])
                        /\ nodes2[qs[k]].inputs \subseteq g.in \cup OutputsBefore(nodes2, qs, k)
  <2> TAKE k \in 1 .. L
  <2>1. k \in 1 .. L + 1
    BY <1>1
  <2> QED BY <1>3, <1>6, <2>1 DEF PartPlan, WellPlaced, L
<1>9. \A i \in 1 .. M : /\ GoodNode(g, nodes2[qs[L + i]])
                        /\ nodes2[qs[L + i]].inputs \subseteq g.in \cup OutputsBefore(nodes2, qs, L + i)
  <2> TAKE i \in 1 .. M
  <2>1. i \in 1 .. M + 1
    BY <1>1
  <2> QED BY <1>4, <1>7, <2>1 DEF StandFor, L, M
<1>10. \A k \in 1 .. L : RunsOf(nodes2, qs[k]) = RunsOf(nodes1, plan1[k])
  BY <1>3 DEF RunsOf
<1>11. \A i \in 1 .. M : RunsOf(nodes2, qs[L + i]) = RunsOf(nodes2, xs[i])
  BY <1>4 DEF RunsOf
<1>12. \A k \in 1 .. L : RunsOf(nodes1, plan1[k]) \subseteq AllRuns(nodes, D)
  <2>1. \A k \in 1 .. L : plan1[k] \in Elements(plan1)
    BY DEF Elements, L
  <2>2. \A k \in 1 .. L : RunsOf(nodes1, plan1[k]) \subseteq AllRuns(nodes1, Elements(plan1))
    BY <2>1 DEF AllRuns
  <2> QED BY <2>2 DEF PartPlan
<1>13. ASSUME NEW j \in 1 .. L + M, NEW k \in 1 .. L + M, j # k
       PROVE  RunsOf(nodes2, qs[j]) \cap RunsOf(nodes2, qs[k]) = {}
  <2>1. CASE j \in 1 .. L /\ k \in 1 .. L
    BY <1>10, <1>13, <2>1 DEF PartPlan, WellPlaced, L
  <2>2. CASE j \in 1 .. L /\ k \notin 1 .. L
    <3>1. PICK i \in 1 .. M : k = L + i
      BY <1>5, <2>2
    <3> QED BY <1>10, <1>11, <1>12, <2>2, <3>1 DEF StandFor, M
  <2>3. CASE j \notin 1 .. L /\ k \in 1 .. L
    <3>1. PICK i \in 1 .. M : j = L + i
      BY <1>5, <2>3
    <3> QED BY <1>10, <1>11, <1>12, <2>3, <3>1 DEF StandFor, M
  <2>4. CASE j \notin 1 .. L /\ k \notin 1 .. L
    <3>1. PICK i \in 1 .. M : k = L + i
      BY <1>5, <2>4
    <3>2. PICK h \in 1 .. M : j = L + h
      BY <1>5, <2>4
    <3>3. h # i
      BY <1>13, <3>1, <3>2
    <3> QED BY <1>11, <3>1, <3>2, <3>3 DEF StandFor, M
  <2> QED BY <2>1, <2>2, <2>3, <2>4
<1>14. WellPlaced(g, nodes2, qs)
  <2>1. \A k \in 1 .. L + M : /\ qs[k] \in 1 .. Len(nodes2) /\ GoodNode(g, nodes2[qs[k]])
                              /\ nodes2[qs[k]].inputs \subseteq g.in \cup OutputsBefore(nodes2, qs, k)
    BY <1>3, <1>4, <1>5, <1>8, <1>9
  <2> QED BY <1>1, <1>13, <2>1 DEF WellPlaced
<1>15. AllRuns(nodes2, Elements(qs)) = AllRuns(nodes, D \cup S)
  <2>1. AllRuns(nodes, D \cup S) = AllRuns(nodes, D) \cup AllRuns(nodes, S)
    BY DEF AllRuns
  <2>2. AllRuns(nodes1, Elements(plan1)) = AllRuns(nodes, D)
    BY DEF PartPlan
  <2>3. \A x : x \in AllRuns(nodes2, Elements(qs)) <=> \E k \in 1 .. L + M : x \in RunsOf(nodes2, qs[k])
    BY <1>1 DEF AllRuns, Elements, L, M
  <2>4. \A x : x \in AllRuns(nodes1, Elements(plan1)) <=> \E k \in 1 .. L : x \in RunsOf(nodes1, plan1[k])
    BY DEF AllRuns, Elements, L, M
  <2>5. \A x : x \in AllRuns(nodes2, Elements(xs)) <=> \E k \in 1 .. M : x \in RunsOf(nodes2, xs[k])
    BY DEF AllRuns, Elements, L, M
  <2>6. \A k \in 1 .. L : k \in 1 .. L + M
    BY <1>1
  <2>7. \A k \in 1 .. M : L + k \in 1 .. L + M
    BY <1>1
  <2>8. \A x : x \in AllRuns(nodes2, Elements(qs)) <=>
                 x \in AllRuns(nodes1, Elements(plan1)) \/ x \in AllRuns(nodes2, Elements(xs))
    BY <1>5, <1>10, <1>11, <2>3, <2>4, <2>5, <2>6, <2>7
  <2> QED BY <2>1, <2>2, <2>8 DEF StandFor
<1>16. ASSUME NEW n \in D \cup S
       PROVE  nodes[n].outputs \cap (ReadsOf(InsOf(nodes), Elements(plan) \ (D \cup S)) \cup g.out)
                        \subseteq OutputsBefore(nodes2, qs, Len(qs) + 1)
  <2>1. OutputsBefore(nodes1, plan1, L + 1) \cup OutputsBefore(nodes2, xs, M + 1)
                              \subseteq OutputsBefore(nodes2, qs, Len(qs) + 1)
    <3>1. M + 1 \in 1 .. M + 1 /\ L + (M + 1) = Len(qs) + 1
      BY <1>1
    <3> QED BY <1>7, <3>1
  <2>2. CASE n \in D
    <3>1. ReadsOf(InsOf(nodes), Elements(plan) \ (D \cup S)) \subseteq ReadsOf(InsOf(nodes), Elements(plan) \ D)
      BY DEF ReadsOf
    <3>2. nodes[n].outputs \cap (ReadsOf(InsOf(nodes), Elements(plan) \ D) \cup g.out)
                    \subseteq OutputsBefore(nodes1, plan1, L + 1)
      BY <2>2 DEF PartPlan, L
    <3> QED BY <2>1, <3>1, <3>2
  <2>3. CASE n \in S
    BY <2>1, <2>3 DEF StandFor, M
  <2> QED BY <2>2, <2>3
<1> QED BY <1>14, <1>15, <1>16 DEF PartPlan, qs

-----------------------------------------------------------------------------
(* Different nodes of a plan run different nodes.                          *)
LEMMA DifferentRuns ==
    ASSUME NEW g, NEW nodes, NEW plan, WellPlaced(g, nodes, plan),
           NEW m \in Elements(plan), NEW n \in Elements(plan), m # n
    PROVE  RunsOf(nodes, m) \cap RunsOf(nodes, n) = {}
<1>1. PICK j \in 1 .. Len(plan) : m = plan[j]
  BY DEF Elements
<1>2. PICK k \in 1 .. Len(plan) : n = plan[k]
  BY DEF Elements
<1> QED BY <1>1, <1>2 DEF WellPlaced

(* What a list of nodes of the plan finds behind the nodes D.              *)
LEMMA EpochInputs ==
    ASSUME NEW g, IsGraph(g), NEW nodes \in NodeLists(g), NEW plan, WellPlaced(g, nodes, plan),
           NEW claimed, NEW type, NEW D \in SUBSET Elements(plan), NEW ns,
           IsEpoch(plan, InsOf(nodes), OutsOf(nodes), claimed, type, D, ns),
           NEW nodes1, NEW plan1, PartPlan(g, nodes, plan, D, nodes1, plan1),
           NEW i \in 1 .. Len(ns)
    PROVE  /\ ns[i] \in Elements(plan) /\ ns[i] \in 1 .. Len(nodes) /\ ns[i] \notin D
           /\ GoodNode(g, nodes[ns[i]])
           /\ RunsOf(nodes, ns[i]) \cap AllRuns(nodes, D) = {}
           /\ nodes[ns[i]].inputs \subseteq g.in \cup OutputsBefore(nodes1, plan1, Len(plan1) + 1)
                                            \cup OutputsBefore(nodes, ns, i)
<1> DEFINE E == Elements(plan)
           n == ns[i]
<1>1. n \in E /\ n \notin D
  <2>1. ns \in Seq(E) /\ \A j \in 1 .. Len(ns) : ns[j] \notin D
    BY DEF IsEpoch
  <2> HIDE DEF E
  <2> QED BY <2>1, ElementOfSeq
<1>2. PICK a \in 1 .. Len(plan) : n = plan[a]
  BY <1>1 DEF Elements
<1>3. DOMAIN nodes = 1 .. Len(nodes) /\ Len(nodes) \in Nat /\ Len(plan) \in Nat
  BY PlanIsShort, LenProperties DEF NodeLists
<1>4. n \in DOMAIN nodes /\ GoodNode(g, nodes[n]) /\ nodes[n].inputs \subseteq g.in \cup OutputsBefore(nodes, plan, a)
  BY <1>2, <1>3 DEF WellPlaced
<1>5. RunsOf(nodes, n) \cap AllRuns(nodes, D) = {}
  <2>1. \A m \in D : RunsOf(nodes, m) \cap RunsOf(nodes, n) = {}
    BY <1>1, DifferentRuns
  <2> HIDE DEF n
  <2> QED BY <2>1 DEF AllRuns
<1>6. ASSUME NEW t \in nodes[n].inputs, t \notin g.in
      PROVE  t \in OutputsBefore(nodes1, plan1, Len(plan1) + 1) \cup OutputsBefore(nodes, ns, i)
  <2>1. t \in OutputsBefore(nodes, plan, a)
    BY <1>4, <1>6
  <2>2. PICK b \in 1 .. a - 1 : t \in nodes[plan[b]].outputs
    BY <2>1 DEF OutputsBefore
  <2> DEFINE m == plan[b]
  <2>3. b \in 1 .. Len(plan)
    BY <1>3
  <2>4. m \in E /\ m \in DOMAIN nodes
    BY <1>3, <2>3 DEF Elements, WellPlaced
  <2>5. OutsOf(nodes)[m] \cap InsOf(nodes)[n] # {}
    BY <1>4, <1>6, <2>2, <2>4 DEF OutsOf, InsOf
  <2>6. m \in D \cup {ns[j] : j \in 1 .. i - 1}
    BY <2>4, <2>5 DEF IsEpoch, ReadyAfter
  <2>7. CASE m \in D
    <3>1. t \in ReadsOf(InsOf(nodes), E \ D)
      BY <1>1, <1>4, <1>6 DEF ReadsOf, InsOf
    <3> QED BY <2>2, <2>7, <3>1 DEF PartPlan
  <2>8. CASE m \notin D
    <3>1. PICK j \in 1 .. i - 1 : m = ns[j]
      BY <2>6, <2>8
    <3> QED BY <2>2, <3>1 DEF OutputsBefore
  <2> QED BY <2>7, <2>8
<1> QED BY <1>1, <1>3, <1>4, <1>5, <1>6

(* Nodes that no delegate takes join the new plan.                         *)
LEMMA SinglesStand ==
    ASSUME NEW g, IsGraph(g), NEW nodes \in NodeLists(g), NEW plan, WellPlaced(g, nodes, plan),
           NEW claimed, NEW type, NEW D \in SUBSET Elements(plan), NEW ns,
           IsEpoch(plan, InsOf(nodes), OutsOf(nodes), claimed, type, D, ns),
           NEW nodes1, NEW plan1, PartPlan(g, nodes, plan, D, nodes1, plan1), Extends(nodes, nodes1)
    PROVE  StandFor(g, nodes, plan, D, Elements(ns), nodes1, plan1, nodes1, ns)
<1> DEFINE E == Elements(plan)
<1>1. \A i \in 1 .. Len(ns) :
         /\ ns[i] \in E /\ ns[i] \in 1 .. Len(nodes) /\ ns[i] \notin D
         /\ GoodNode(g, nodes[ns[i]])
         /\ RunsOf(nodes, ns[i]) \cap AllRuns(nodes, D) = {}
         /\ nodes[ns[i]].inputs \subseteq g.in \cup OutputsBefore(nodes1, plan1, Len(plan1) + 1)
                                          \cup OutputsBefore(nodes, ns, i)
  BY EpochInputs
<1>2. ns \in Seq(E) /\ Len(ns) \in Nat
  BY LenProperties DEF IsEpoch
<1>3. ns \in Seq(Nat)
  <2>1. \A i \in 1 .. Len(ns) : ns[i] \in Nat
    BY <1>1
  <2> QED BY <1>2, <2>1
<1>4. \A i \in 1 .. Len(ns) : nodes1[ns[i]] = nodes[ns[i]] /\ ns[i] \in 1 .. Len(nodes1)
  BY <1>1 DEF Extends
<1>5. \A i \in 1 .. Len(ns) : RunsOf(nodes1, ns[i]) = RunsOf(nodes, ns[i])
  BY <1>4 DEF RunsOf
<1>6. \A i \in 1 .. Len(ns) + 1 : OutputsBefore(nodes1, ns, i) = OutputsBefore(nodes, ns, i)
  <2> TAKE i \in 1 .. Len(ns) + 1
  <2>1. \A j \in 1 .. i - 1 : nodes1[ns[j]].outputs = nodes[ns[j]].outputs
    BY <1>2, <1>4
  <2> QED BY <2>1 DEF OutputsBefore
<1>7. ASSUME NEW i \in 1 .. Len(ns), NEW j \in 1 .. Len(ns), i # j
      PROVE  RunsOf(nodes1, ns[i]) \cap RunsOf(nodes1, ns[j]) = {}
  <2>1. ns[i] # ns[j]
    BY <1>7 DEF IsEpoch
  <2>2. RunsOf(nodes, ns[i]) \cap RunsOf(nodes, ns[j]) = {}
    BY <1>1, <2>1, DifferentRuns
  <2> QED BY <1>5, <2>2
<1>8. AllRuns(nodes1, Elements(ns)) = AllRuns(nodes, Elements(ns))
  <2>1. \A n \in Elements(ns) : RunsOf(nodes1, n) = RunsOf(nodes, n)
    BY <1>5 DEF Elements
  <2> QED BY <2>1 DEF AllRuns
<1>9. ASSUME NEW n \in Elements(ns)
      PROVE  nodes[n].outputs \subseteq OutputsBefore(nodes1, ns, Len(ns) + 1)
  <2>1. PICK i \in 1 .. Len(ns) : n = ns[i]
    BY DEF Elements
  <2>2. i \in 1 .. (Len(ns) + 1) - 1
    BY <1>2
  <2> QED BY <1>4, <2>1, <2>2 DEF OutputsBefore
<1>10. \A i \in 1 .. Len(ns) :
        /\ ns[i] \in 1 .. Len(nodes1) /\ GoodNode(g, nodes1[ns[i]])
        /\ nodes1[ns[i]].inputs \subseteq g.in \cup OutputsBefore(nodes1, plan1, Len(plan1) + 1)
                                          \cup OutputsBefore(nodes1, ns, i)
        /\ RunsOf(nodes1, ns[i]) \cap AllRuns(nodes, D) = {}
  <2> TAKE i \in 1 .. Len(ns)
  <2>1. i \in 1 .. Len(ns) + 1
    BY <1>2
  <2> QED BY <1>1, <1>4, <1>5, <1>6, <2>1
<1> QED BY <1>3, <1>7, <1>8, <1>9, <1>10 DEF StandFor

(* The node of a delegate for a list of nodes of the model.                *)
KernelFor(g, nodes, plan, ns, node) ==
    LET S == Elements(ns)
        in  == InsOf(nodes)
        out == OutsOf(nodes)
    IN  /\ node.runs = ns
        /\ node.inputs = ReadsOf(in, S) \ WritesOf(out, S)
        /\ node.outputs = WritesOf(out, S) \cap (ReadsOf(in, Elements(plan) \ S) \cup g.out)

(* A kernel that has the ins and outs of an epoch stands in the plan for   *)
(* the nodes of the epoch.                                                 *)
LEMMA KernelStands ==
    ASSUME NEW g, IsGraph(g), NEW nodes, GoodNodes(g, nodes), NEW plan, WellPlaced(g, nodes, plan),
           NEW claimed, NEW type, NEW D \in SUBSET Elements(plan), NEW ns,
           IsEpoch(plan, InsOf(nodes), OutsOf(nodes), claimed, type, D, ns), Len(ns) # 0,
           Elements(ns) \subseteq 1 .. NumOriginal(g),
           NEW nodes1, NEW plan1, PartPlan(g, nodes, plan, D, nodes1, plan1), Extends(nodes, nodes1),
           NEW nodes2, Extends(nodes1, nodes2), Len(nodes2) = Len(nodes1) + 1,
           KernelFor(g, nodes, plan, ns, nodes2[Len(nodes2)])
    PROVE  StandFor(g, nodes, plan, D, Elements(ns), nodes1, plan1, nodes2, <<Len(nodes2)>>)
<1> DEFINE E == Elements(plan)
           S == Elements(ns)
           in == InsOf(nodes)
           out == OutsOf(nodes)
           c == Len(nodes2)
           node == nodes2[c]
           xs == <<c>>
<1>0. nodes \in NodeLists(g) /\ DOMAIN nodes = 1 .. Len(nodes)
  BY DEF GoodNodes, NodeLists
<1>1. \A i \in 1 .. Len(ns) :
         /\ ns[i] \in E /\ ns[i] \in 1 .. Len(nodes) /\ ns[i] \notin D
         /\ RunsOf(nodes, ns[i]) \cap AllRuns(nodes, D) = {}
         /\ nodes[ns[i]].inputs \subseteq g.in \cup OutputsBefore(nodes1, plan1, Len(plan1) + 1)
                                          \cup OutputsBefore(nodes, ns, i)
  BY <1>0, EpochInputs
<1>2. ns \in Seq(E) /\ Len(ns) \in Nat /\ c \in Nat
  BY LenProperties DEF IsEpoch, Extends
<1>3. node.runs = ns /\ RunsOf(nodes2, c) = S /\ S # {}
  <2>1. node.runs = ns
    BY DEF KernelFor
  <2>2. ns[1] \in S
    BY <1>2 DEF Elements
  <2> QED BY <2>1, <2>2 DEF RunsOf
<1>4. \A n \in S : /\ n \in DOMAIN nodes /\ n \in E /\ n \notin D /\ n \in 1 .. NumOriginal(g)
                   /\ nodes[n] = OriginalNode(g, n) /\ RunsOf(nodes, n) = {n}
                   /\ in[n] = g.reads[n] /\ out[n] = g.writes[n]
                   /\ in[n] = nodes[n].inputs /\ out[n] = nodes[n].outputs
  <2> TAKE n \in S
  <2>1. PICK i \in 1 .. Len(ns) : n = ns[i]
    BY DEF Elements
  <2>2. n \in DOMAIN nodes /\ n \in E /\ n \notin D /\ n \in 1 .. NumOriginal(g)
    BY <1>0, <1>1, <2>1
  <2>3. nodes[n] = OriginalNode(g, n)
    BY <2>2 DEF GoodNodes
  <2> QED BY <2>2, <2>3, OriginalIsGood DEF RunsOf, InsOf, OutsOf, OriginalNode
<1> HIDE DEF in, out, node, S
<1>5. ReadsOf(in, S) = ReadsOf(g.reads, S) /\ WritesOf(out, S) = WritesOf(g.writes, S)
  BY <1>4 DEF ReadsOf, WritesOf
<1>6. /\ node.inputs = ReadsOf(in, S) \ WritesOf(out, S)
      /\ node.outputs = WritesOf(out, S) \cap (ReadsOf(in, E \ S) \cup g.out)
  BY DEF KernelFor, S, in, out, node
<1>7. GoodNode(g, node)
  <2>1. Elements(node.runs) = S
    BY <1>3 DEF S
  <2> QED BY <1>3, <1>4, <1>5, <1>6, <2>1 DEF GoodNode
<1>8. S \cap AllRuns(nodes, D) = {}
  <2> SUFFICES ASSUME NEW n \in S PROVE n \notin AllRuns(nodes, D)
    OBVIOUS
  <2>1. PICK i \in 1 .. Len(ns) : n = ns[i]
    BY DEF Elements, S
  <2>2. n \in RunsOf(nodes, ns[i])
    BY <1>4, <2>1
  <2> QED BY <1>1, <2>2
<1>9. node.inputs \subseteq g.in \cup OutputsBefore(nodes1, plan1, Len(plan1) + 1)
  <2> SUFFICES ASSUME NEW t \in node.inputs, t \notin g.in
               PROVE  t \in OutputsBefore(nodes1, plan1, Len(plan1) + 1)
    OBVIOUS
  <2>1. PICK n \in S : t \in nodes[n].inputs
    BY <1>4, <1>6 DEF ReadsOf
  <2>2. PICK i \in 1 .. Len(ns) : n = ns[i]
    BY DEF Elements, S
  <2>3. t \notin OutputsBefore(nodes, ns, i)
    <3>1. \A j \in 1 .. i - 1 : ns[j] \in S
      BY <1>2 DEF Elements, S
    <3>2. \A j \in 1 .. i - 1 : nodes[ns[j]].outputs = out[ns[j]]
      BY <1>4, <3>1
    <3>3. t \notin WritesOf(out, S)
      BY <1>6
    <3> QED BY <3>1, <3>2, <3>3 DEF OutputsBefore, WritesOf
  <2> QED BY <1>1, <2>1, <2>2, <2>3
<1>10. \A n \in S : nodes[n].outputs \cap (ReadsOf(in, E \ (D \cup S)) \cup g.out) \subseteq node.outputs
  <2> TAKE n \in S
  <2>1. nodes[n].outputs \subseteq WritesOf(out, S)
    BY <1>4 DEF WritesOf
  <2>2. ReadsOf(in, E \ (D \cup S)) \subseteq ReadsOf(in, E \ S)
    BY DEF ReadsOf
  <2> QED BY <1>6, <2>1, <2>2
<1>11. AllRuns(nodes, S) = S
  BY <1>4 DEF AllRuns
<1>12. /\ xs \in Seq(Nat) /\ Len(xs) = 1 /\ xs[1] = c /\ Elements(xs) = {c}
       /\ 1 .. Len(xs) = {1} /\ 1 .. (Len(xs) + 1) - 1 = {1}
  BY <1>2 DEF Elements
<1>13. OutputsBefore(nodes2, xs, Len(xs) + 1) = node.outputs
  <2> HIDE DEF xs
  <2> QED BY <1>12 DEF OutputsBefore, node
<1>14. AllRuns(nodes2, Elements(xs)) = S
  <2> HIDE DEF xs, c
  <2> QED BY <1>3, <1>12 DEF AllRuns
<1>15. c \in 1 .. c
  BY <1>2 DEF Extends
<1> HIDE DEF xs, c
<1>16. \A i \in 1 .. Len(xs) :
        /\ xs[i] \in 1 .. c /\ GoodNode(g, nodes2[xs[i]])
        /\ nodes2[xs[i]].inputs \subseteq g.in \cup OutputsBefore(nodes1, plan1, Len(plan1) + 1)
                                          \cup OutputsBefore(nodes2, xs, i)
        /\ RunsOf(nodes2, xs[i]) \cap AllRuns(nodes, D) = {}
  <2> TAKE i \in 1 .. Len(xs)
  <2>1. xs[i] = c /\ nodes2[xs[i]] = node
    BY <1>12 DEF node
  <2> QED BY <1>3, <1>7, <1>8, <1>9, <1>15, <2>1
<1>17. \A i, j \in 1 .. Len(xs) : i = j
  BY <1>12
<1> QED BY <1>10, <1>11, <1>12, <1>13, <1>14, <1>16, <1>17 DEF StandFor, S, in, xs, c

-----------------------------------------------------------------------------
(* The type of the record that a subgraph is; h are the tensors that may   *)
(* have buffer handles.                                                    *)
TensorSets(g)    == SUBSET GraphTensors(g)
HandleSets(h)    == SUBSET h
IndexLists       == Seq(Nat)
PlannerStates    == Seq(IndexLists)
States           == {"uninvokable", "invokable", "immutable"}
DelegateLists    == Seq(Delegates)
NodeSets         == SUBSET Nat
TensorOwners(g)  == [GraphTensors(g) -> Delegates \cup {NoDelegate}]

Subgraphs(g, h) ==
    [nodes : NodeLists(g), plan : IndexLists, pre_plan : IndexLists, state : States,
     applied : DelegateLists, undone : BOOLEAN, planner : PlannerStates, next_to_prepare : Nat,
     has_dynamic : BOOLEAN, shaped : TensorSets(g), ready : NodeSets, delegate : TensorOwners(g),
     handle : HandleSets(h), stale : HandleSets(h), fresh : TensorSets(g),
     buffered : HandleSets(h)]

(* What replacing nodes by those of a delegate leaves alone.               *)
OnlyReplaced(s, q) ==
    /\ q.pre_plan = s.pre_plan /\ q.applied = s.applied /\ q.undone = s.undone
    /\ q.planner = s.planner /\ q.next_to_prepare = s.next_to_prepare
    /\ q.has_dynamic = s.has_dynamic /\ q.shaped = s.shaped /\ q.ready = s.ready
    /\ q.handle = s.handle /\ q.stale = s.stale /\ q.fresh = s.fresh /\ q.buffered = s.buffered

Replacing(g, h, s) ==
    {r \in [status : {"ok", "error"}, sg : Subgraphs(g, h)] :
        /\ OnlyReplaced(s, r.sg) /\ r.sg.state \in {s.state, "uninvokable"}
        /\ GoodNodes(g, r.sg.nodes) /\ Extends(s.nodes, r.sg.nodes)}

IsPart(g, part) ==
    /\ part.nodes \in Seq(Nat) /\ part.type \in {"partition", "non_partition"}
    /\ part.input_tensors \in TensorSets(g) /\ part.output_tensors \in TensorSets(g)

(* One iteration of ReplaceNodeSubsetsWithDelegateKernels, from r to q.    *)
NodeFor(part, d) == [inputs |-> part.input_tensors, outputs |-> part.output_tensors,
                     delegate |-> d, runs |-> part.nodes]

ReplacedBy(r, part, d, q) ==
    /\ r.status = "error" => q = r
    /\ r.status = "ok" /\ part.type = "non_partition" =>
          /\ q.status = "ok" /\ q.sg.nodes = r.sg.nodes
          /\ q.sg.plan = r.sg.plan \o part.nodes
    /\ r.status = "ok" /\ part.type = "partition" =>
          /\ q.sg.state = "uninvokable"
          /\ Extends(r.sg.nodes, q.sg.nodes) /\ Len(q.sg.nodes) = Len(r.sg.nodes) + 1
          /\ q.sg.plan = r.sg.plan \o <<Len(q.sg.nodes)>>
          /\ q.status = "ok" => q.sg.nodes = Append(r.sg.nodes, NodeFor(part, d))
          /\ q.status = "ok" => q.sg.nodes[Len(q.sg.nodes)] = NodeFor(part, d)

(* One part of the partition: what is replaced so far stays well formed.   *)
LEMMA ReplaceStep ==
    ASSUME NEW g, IsGraph(g), NEW h, NEW s \in Subgraphs(g, h), NEW r \in Replacing(g, h, s),
           NEW part, IsPart(g, part), NEW d \in Delegates
    PROVE  /\ ReplaceSubset(r, part, d) \in Replacing(g, h, s)
           /\ ReplacedBy(r, part, d, ReplaceSubset(r, part, d))
<1> DEFINE q == ReplaceSubset(r, part, d)
           z == r.sg
<1>1. r = [status |-> r.status, sg |-> z] /\ r.status \in {"ok", "error"} /\ z \in Subgraphs(g, h)
      /\ OnlyReplaced(s, z) /\ z.state \in {s.state, "uninvokable"}
      /\ GoodNodes(g, z.nodes) /\ Extends(s.nodes, z.nodes)
  BY DEF Replacing
<1>2. z.nodes \in NodeLists(g) /\ z.plan \in Seq(Nat) /\ part.nodes \in Seq(Nat)
      /\ z.delegate \in TensorOwners(g) /\ s.state \in States
  BY <1>1 DEF Subgraphs, IndexLists, IsPart
<1> HIDE DEF z
<1>3. CASE r.status = "error"
  <2>1. q = r
    BY <1>3 DEF ReplaceSubset
  <2> QED BY <1>3, <2>1 DEF ReplacedBy
<1>4. CASE r.status = "ok" /\ part.type = "non_partition"
  <2> DEFINE pl == z.plan \o part.nodes
             z1 == [z EXCEPT !.plan = pl]
  <2>1. q = [r EXCEPT !.sg = z1]
    BY <1>1, <1>4 DEF ReplaceSubset, z
  <2>2. pl \in IndexLists
    BY <1>2, ConcatProperties DEF IndexLists
  <2> HIDE DEF pl
  <2>3. z1 \in Subgraphs(g, h) /\ z1.nodes = z.nodes /\ z1.plan = pl /\ OnlyReplaced(s, z1)
        /\ z1.state = z.state
    BY <1>1, <2>2 DEF Subgraphs, OnlyReplaced
  <2> HIDE DEF z1
  <2>4. q = [status |-> "ok", sg |-> z1]
    BY <1>1, <1>4, <2>1
  <2> HIDE DEF q
  <2>5. q \in Replacing(g, h, s)
    BY <1>1, <2>3, <2>4 DEF Replacing
  <2>6. ReplacedBy(r, part, d, q)
    BY <1>4, <2>3, <2>4 DEF ReplacedBy, pl, z
  <2> QED BY <2>5, <2>6 DEF q
<1>5. CASE r.status = "ok" /\ part.type = "partition"
  <2> DEFINE taken == {t \in part.output_tensors : z.delegate[t] \notin {NoDelegate, d}}
             set   == {t \in part.output_tensors : \A u \in taken : t < u}
             node  == [inputs |-> part.input_tensors, outputs |-> part.output_tensors,
                       delegate |-> IF taken = {} THEN d ELSE NoDelegate, runs |-> part.nodes]
             ow    == [t \in DOMAIN z.delegate |-> IF t \in set THEN d ELSE z.delegate[t]]
             nd    == Append(z.nodes, node)
             pl    == Append(z.plan, Len(z.nodes) + 1)
             z1    == [z EXCEPT !.nodes = nd, !.plan = pl, !.state = "uninvokable", !.delegate = ow]
             st    == IF taken = {} THEN "ok" ELSE "error"
  <2>1. q = [status |-> st, sg |-> z1]
    BY <1>5 DEF ReplaceSubset, Outcome, z
  <2>2. node \in NodeRecords(g) /\ (taken = {} => node.delegate = d)
    BY <1>2 DEF NodeRecords, IsPart, TensorSets
  <2>3. ow \in TensorOwners(g)
    <3> HIDE DEF set
    <3> QED BY <1>2 DEF TensorOwners
  <2>5. taken = {} => node = NodeFor(part, d)
    BY DEF NodeFor
  <2> HIDE DEF node, ow
  <2>6. /\ nd \in NodeLists(g) /\ Len(nd) = Len(z.nodes) + 1 /\ nd[Len(nd)] = node
        /\ Len(z.nodes) \in Nat /\ Extends(z.nodes, nd)
    BY <1>2, <2>2, AppendProperties, LenProperties DEF NodeLists, Extends
  <2>7. pl \in IndexLists /\ pl = z.plan \o <<Len(nd)>>
    <3>1. z.plan \in Seq(Nat) /\ Len(z.nodes) + 1 \in Nat /\ Len(nd) = Len(z.nodes) + 1
      BY <1>2, <2>6
    <3> HIDE DEF nd
    <3> DEFINE c == Len(z.nodes) + 1
    <3>2. c \in Nat /\ pl = Append(z.plan, c) /\ c = Len(nd)
      BY <3>1
    <3> HIDE DEF c, pl
    <3>3. pl \in Seq(Nat)
      BY <3>1, <3>2, AppendProperties
    <3>4. pl = z.plan \o <<c>>
      BY <3>1, <3>2, AppendIsConcat
    <3> QED BY <3>2, <3>3, <3>4 DEF IndexLists
  <2>8. GoodNodes(g, nd) /\ Extends(s.nodes, nd)
    BY <1>1, <2>6, GraphFacts DEF GoodNodes, Extends
  <2>9. taken = {} => nd = Append(z.nodes, NodeFor(part, d)) /\ nd[Len(nd)] = NodeFor(part, d)
    BY <2>5, <2>6
  <2> HIDE DEF nd, pl
  <2>10. z1 \in Subgraphs(g, h) /\ z1.nodes = nd /\ z1.plan = pl /\ OnlyReplaced(s, z1)
         /\ z1.state = "uninvokable"
    BY <1>1, <2>3, <2>6, <2>7 DEF Subgraphs, OnlyReplaced, States
  <2>11. st \in {"ok", "error"} /\ (st = "ok" => taken = {})
    OBVIOUS
  <2> HIDE DEF z1, q, st, taken
  <2>12. q \in Replacing(g, h, s)
    BY <1>1, <2>1, <2>8, <2>10, <2>11 DEF Replacing
  <2>13. q.sg.nodes = nd /\ q.sg.plan = pl /\ q.sg.state = "uninvokable" /\ q.status = st
    BY <2>1, <2>10
  <2>14. ReplacedBy(r, part, d, q)
    BY <1>5, <2>6, <2>7, <2>9, <2>11, <2>13 DEF ReplacedBy, z
  <2> QED BY <2>12, <2>14 DEF q
<1> QED BY <1>1, <1>3, <1>4, <1>5 DEF IsPart

-----------------------------------------------------------------------------
(* The loop of ReplaceNodeSubsetsWithDelegateKernels over the parts p.     *)
ReplaceStart(s) == Outcome("ok", [s EXCEPT !.plan = <<>>])
ReplaceAll(s, d, p) == Fold(LAMBDA r, subset : ReplaceSubset(r, subset, d), ReplaceStart(s), p)

IsReplaceRun(f, g, h, s, d, p) ==
    /\ f[0] = ReplaceStart(s) /\ \A k \in 0 .. Len(p) : f[k] \in Replacing(g, h, s)
    /\ \A k \in 1 .. Len(p) : ReplacedBy(f[k - 1], p[k], d, f[k])
    /\ ReplaceAll(s, d, p) = f[Len(p)]

(* The loop over the parts starts with an empty plan and the nodes as they *)
(* are.                                                                    *)
LEMMA ReplaceStarts ==
    ASSUME NEW g, NEW h, NEW s \in Subgraphs(g, h), GoodNodes(g, s.nodes)
    PROVE  /\ ReplaceStart(s) \in Replacing(g, h, s) /\ ReplaceStart(s).status = "ok"
           /\ ReplaceStart(s).sg.plan = <<>> /\ ReplaceStart(s).sg.nodes = s.nodes
           /\ ReplaceStart(s).sg.delegate = s.delegate
<1> DEFINE z == [s EXCEPT !.plan = <<>>]
<1>1. z \in Subgraphs(g, h) /\ z.nodes = s.nodes /\ z.plan = <<>> /\ OnlyReplaced(s, z)
      /\ z.state = s.state /\ z.delegate = s.delegate
  <2>1. <<>> \in IndexLists
    BY DEF IndexLists
  <2> QED BY <2>1 DEF Subgraphs, OnlyReplaced
<1>2. Extends(s.nodes, s.nodes)
  <2>1. Len(s.nodes) \in Nat
    BY LenProperties DEF GoodNodes, NodeLists
  <2> QED BY <2>1 DEF Extends
<1>3. ReplaceStart(s) = [status |-> "ok", sg |-> z]
  BY DEF ReplaceStart, Outcome
<1> HIDE DEF z
<1> QED BY <1>1, <1>2, <1>3 DEF Replacing

(* The loop over the parts runs through states that are well formed.       *)
LEMMA ReplaceRuns ==
    ASSUME NEW g, IsGraph(g), NEW h, NEW s \in Subgraphs(g, h), GoodNodes(g, s.nodes),
           NEW d \in Delegates, NEW p, Len(p) \in Nat, \A k \in 1 .. Len(p) : IsPart(g, p[k])
    PROVE  \E f : IsReplaceRun(f, g, h, s, d, p)
<1> DEFINE n == Len(p)
           A == Replacing(g, h, s)
           base == ReplaceStart(s)
           P(x, k) == ReplaceSubset(x, p[k], d)
           step == [k \in 1 .. n |-> [x \in A |-> P(x, k)]]
           After(f) == [k \in 0 .. n |-> IF k = 0 THEN base ELSE ReplaceSubset(f[k - 1], p[k], d)]
           run == CHOOSE f : f = After(f)
<1>1. ReplaceAll(s, d, p) = run[n]
  BY DEF ReplaceAll, Fold
<1>2. base \in A
  BY ReplaceStarts
<1>3. ASSUME NEW f, NEW k \in 1 .. n PROVE After(f)[k] = P(f[k - 1], k)
  OBVIOUS
<1>4. ASSUME NEW f PROVE After(f)[0] = base /\ After(f) = [k \in 0 .. n |-> After(f)[k]]
  OBVIOUS
<1> HIDE DEF After, base
<1>5. ASSUME NEW k \in 1 .. n, NEW x \in A PROVE P(x, k) \in A /\ ReplacedBy(x, p[k], d, P(x, k))
  BY ReplaceStep
<1> HIDE DEF P
<1>6. step \in Steps(A, n)
  BY <1>5 DEF Steps
<1>7. ASSUME NEW k \in 1 .. n, NEW x \in A PROVE step[k][x] = P(x, k)
  OBVIOUS
<1> HIDE DEF A, step
<1>8. run = After(run)
  <2>1. PICK f : IsIteration(f, A, n, base, step)
    BY <1>2, <1>6, IterationExists
  <2>2. f \in [0 .. n -> A] /\ f[0] = base /\ \A k \in 1 .. n : f[k - 1] \in A /\ f[k] = P(f[k - 1], k)
    BY <1>7, <2>1 DEF IsIteration
  <2>3. \A k \in 0 .. n : f[k] = After(f)[k]
    BY <1>3, <1>4, <2>2
  <2>4. f = After(f)
    BY <1>4, <2>2, <2>3
  <2> QED BY <2>4
<1> HIDE DEF run
<1>9. run[0] = base /\ \A k \in 1 .. n : run[k] = P(run[k - 1], k)
  BY <1>3, <1>4, <1>8
<1>10. \A k \in 0 .. n : run[k] \in A
  BY <1>2, <1>6, <1>7, <1>9, RunStays
<1>11. ASSUME NEW k \in 1 .. n PROVE ReplacedBy(run[k - 1], p[k], d, run[k])
  <2>1. run[k - 1] \in A
    BY <1>10
  <2> QED BY <1>5, <1>9, <2>1
<1> QED BY <1>1, <1>9, <1>10, <1>11 DEF IsReplaceRun, A, base

(* The parts of a good plan.                                               *)
Parts(g, nodes, plan, claimed) == Partition(plan, InsOf(nodes), OutsOf(nodes), g.out, claimed)

IsCutOf(g, nodes, plan, claimed, ss) ==
    /\ IsCut(plan, InsOf(nodes), OutsOf(nodes), claimed, ss)
    /\ BeforeSubset(ss, Len(ss) + 1) = Elements(plan)
    /\ Len(ss) \in Nat /\ Len(Parts(g, nodes, plan, claimed)) = Len(ss)
    /\ \A k \in 1 .. Len(ss) : Parts(g, nodes, plan, claimed)[k] =
          PartFrom(plan, InsOf(nodes), OutsOf(nodes), g.out, claimed, ss[k])

(* The partition of a plan that is well placed is a cut of it.             *)
LEMMA PlanParts ==
    ASSUME NEW g, IsGraph(g), NEW nodes \in NodeLists(g), NEW plan, WellPlaced(g, nodes, plan), NEW claimed
    PROVE  \E ss : IsCutOf(g, nodes, plan, claimed, ss)
<1> DEFINE in  == InsOf(nodes)
           out == OutsOf(nodes)
<1>1. InOrder(plan, in, out)
  BY GoodPlanInOrder DEF InsOf, OutsOf
<1> HIDE DEF in, out
<1>2. PICK ss : /\ IsCut(plan, in, out, claimed, ss)
                /\ BeforeSubset(ss, Len(ss) + 1) = Elements(plan)
                /\ Len(Partition(plan, in, out, g.out, claimed)) = Len(ss)
                /\ \A k \in 1 .. Len(ss) : Partition(plan, in, out, g.out, claimed)[k] =
                                             PartFrom(plan, in, out, g.out, claimed, ss[k])
  BY <1>1, PartitionParts
<1>3. Len(ss) \in Nat
  BY <1>2, LenProperties DEF IsCut
<1> QED BY <1>2, <1>3 DEF IsCutOf, Parts, in, out

-----------------------------------------------------------------------------
(* The parts of a good plan are typed.                                     *)
LEMMA PartsTyped ==
    ASSUME NEW g, IsGraph(g), NEW nodes \in NodeLists(g), NEW plan, WellPlaced(g, nodes, plan), NEW claimed,
           NEW ss, IsCutOf(g, nodes, plan, claimed, ss), NEW k \in 1 .. Len(ss)
    PROVE  /\ IsPart(g, Parts(g, nodes, plan, claimed)[k])
           /\ Elements(ss[k]) \subseteq Elements(plan)
           /\ BeforeSubset(ss, k) \in SUBSET Elements(plan)
           /\ BeforeSubset(ss, k + 1) = BeforeSubset(ss, k) \cup Elements(ss[k])
<1> DEFINE E == Elements(plan)
           p == Parts(g, nodes, plan, claimed)[k]
           in == InsOf(nodes)
           out == OutsOf(nodes)
           q == PartFrom(plan, in, out, g.out, claimed, ss[k])
<1>1. ss \in Seq(Seq(E)) /\ Len(ss) \in Nat
  BY DEF IsCutOf, IsCut
<1>2. \A l \in 1 .. Len(ss) : ss[l] \in Seq(E)
  BY <1>1, ElementOfSeq
<1>3. \A l \in 1 .. Len(ss) : Elements(ss[l]) \subseteq E
  <2> TAKE l \in 1 .. Len(ss)
  <2> HIDE DEF E
  <2>1. ss[l] \in Seq(E)
    BY <1>2
  <2> QED BY <2>1, ElementOfSeq DEF Elements
<1>4. BeforeSubset(ss, k) \in SUBSET E
  <2>1. \A l \in 1 .. k - 1 : Elements(ss[l]) \subseteq E
    BY <1>1, <1>3
  <2> QED BY <2>1 DEF BeforeSubset
<1>5. BeforeSubset(ss, k + 1) = BeforeSubset(ss, k) \cup Elements(ss[k])
  <2>1. \A l : l \in 1 .. (k + 1) - 1 <=> l \in 1 .. k - 1 \/ l = k
    BY <1>1
  <2> QED BY <2>1, Zenon DEF BeforeSubset
<1>6. E \subseteq DOMAIN nodes /\ E \subseteq Nat
  <2>1. DOMAIN nodes = 1 .. Len(nodes) /\ Len(nodes) \in Nat
    BY LenProperties DEF NodeLists
  <2> QED BY <2>1 DEF Elements, WellPlaced
<1>7. \A n \in E : in[n] \subseteq GraphTensors(g) /\ out[n] \subseteq GraphTensors(g)
  <2> TAKE n \in E
  <2>1. n \in 1 .. Len(nodes)
    BY <1>6 DEF NodeLists
  <2>2. nodes[n] \in NodeRecords(g)
    BY <2>1, ElementOfSeq DEF NodeLists
  <2> QED BY <1>6, <2>2 DEF NodeRecords, InsOf, OutsOf
<1>8. p = q
  BY DEF IsCutOf
<1> HIDE DEF p, in, out, E
<1>9. q.type = TypeIn(claimed, ss[k][1]) /\ q.nodes = ss[k]
      /\ q.input_tensors \subseteq ReadsOf(in, Elements(ss[k])) /\ q.output_tensors \subseteq WritesOf(out, Elements(ss[k]))
  BY DEF PartFrom
<1> HIDE DEF q
<1>10. p.nodes \in Seq(Nat)
  <2>1. ss[k] \in Seq(E) /\ Len(ss[k]) \in Nat
    BY <1>2, LenProperties
  <2>2. \A i \in 1 .. Len(ss[k]) : ss[k][i] \in Nat
    BY <1>6, <2>1, ElementOfSeq
  <2>3. ss[k] \in Seq(Nat)
    BY <2>1, <2>2
  <2> QED BY <1>8, <1>9, <2>3
<1>11. p.input_tensors \in TensorSets(g) /\ p.output_tensors \in TensorSets(g)
  <2>1. \A n \in Elements(ss[k]) : in[n] \subseteq GraphTensors(g) /\ out[n] \subseteq GraphTensors(g)
    BY <1>3, <1>7
  <2>2. ReadsOf(in, Elements(ss[k])) \subseteq GraphTensors(g) /\ WritesOf(out, Elements(ss[k])) \subseteq GraphTensors(g)
    BY <2>1 DEF ReadsOf, WritesOf
  <2> QED BY <1>8, <1>9, <2>2 DEF TensorSets
<1>12. p.type \in {"partition", "non_partition"}
  BY <1>8, <1>9 DEF TypeIn
<1> QED BY <1>3, <1>4, <1>5, <1>10, <1>11, <1>12 DEF IsPart, p, E

(* One part more.                                                          *)
LEMMA PartJoins ==
    ASSUME NEW g, IsGraph(g), NEW nodes, GoodNodes(g, nodes), NEW plan, WellPlaced(g, nodes, plan),
           NEW claimed \in SUBSET (1 .. NumOriginal(g)), NEW ss, IsCutOf(g, nodes, plan, claimed, ss),
           NEW k \in 1 .. Len(ss), NEW r, NEW q, NEW d, r.status = "ok", q.status = "ok",
           ReplacedBy(r, Parts(g, nodes, plan, claimed)[k], d, q),
           Extends(nodes, r.sg.nodes),
           PartPlan(g, nodes, plan, BeforeSubset(ss, k), r.sg.nodes, r.sg.plan)
    PROVE  PartPlan(g, nodes, plan, BeforeSubset(ss, k + 1), q.sg.nodes, q.sg.plan)
<1> DEFINE E == Elements(plan)
           p == Parts(g, nodes, plan, claimed)[k]
           in == InsOf(nodes)
           out == OutsOf(nodes)
           D == BeforeSubset(ss, k)
           ns == ss[k]
           nodes1 == r.sg.nodes
           plan1 == r.sg.plan
           nodes2 == q.sg.nodes
<1>1. /\ D \in SUBSET E /\ IsPart(g, p) /\ Elements(ns) \subseteq E
      /\ BeforeSubset(ss, k + 1) = D \cup Elements(ns)
  BY PartsTyped DEF GoodNodes
<1>2. PICK type : IsEpoch(plan, in, out, claimed, type, D, ns)
  BY DEF IsCutOf, IsCut
<1>3. Len(ns) \in Nat \ {0}
  BY DEF IsCutOf, IsCut
<1>4. \A n \in Elements(ns) : TypeIn(claimed, n) = type
  BY <1>2 DEF IsEpoch, Elements
<1>5. p = PartFrom(plan, in, out, g.out, claimed, ns)
  BY DEF IsCutOf
<1>6. p.type = TypeIn(claimed, ns[1]) /\ p.nodes = ns /\ ns[1] \in Elements(ns)
  BY <1>3, <1>5 DEF PartFrom, Elements
<1>7. nodes \in NodeLists(g)
  BY DEF GoodNodes
<1> HIDE DEF E, p, in, out, D, ns
<1>8. CASE p.type = "non_partition"
  <2>1. nodes2 = nodes1 /\ q.sg.plan = plan1 \o ns
    BY <1>6, <1>8 DEF ReplacedBy, p
  <2>2. StandFor(g, nodes, plan, D, Elements(ns), nodes1, plan1, nodes1, ns)
    BY <1>1, <1>2, <1>7, SinglesStand DEF in, out, D, E
  <2>3. Extends(nodes1, nodes1)
    BY DEF Extends
  <2>4. PartPlan(g, nodes, plan, D \cup Elements(ns), nodes1, plan1 \o ns)
    BY <2>2, <2>3, GrowPlan DEF D
  <2> QED BY <1>1, <2>1, <2>4
<1>9. CASE p.type = "partition"
  <2>1. /\ Extends(nodes1, nodes2) /\ Len(nodes2) = Len(nodes1) + 1
        /\ q.sg.plan = plan1 \o <<Len(nodes2)>>
        /\ nodes2[Len(nodes2)] = NodeFor(p, d)
    BY <1>9 DEF ReplacedBy, p
  <2>2. KernelFor(g, nodes, plan, ns, nodes2[Len(nodes2)])
    BY <1>5, <2>1 DEF KernelFor, NodeFor, PartFrom, in, out
  <2>3. \A n \in Elements(ns) : n \in claimed
    BY <1>4, <1>6, <1>9 DEF TypeIn
  <2>4. Elements(ns) \subseteq 1 .. NumOriginal(g) /\ Len(ns) # 0
    BY <1>3, <2>3
  <2>5. StandFor(g, nodes, plan, D, Elements(ns), nodes1, plan1, nodes2, <<Len(nodes2)>>)
    BY <1>1, <1>2, <2>1, <2>2, <2>4, KernelStands DEF in, out, D, E
  <2>6. PartPlan(g, nodes, plan, D \cup Elements(ns), nodes2, plan1 \o <<Len(nodes2)>>)
    BY <2>1, <2>5, GrowPlan DEF D
  <2> QED BY <1>1, <2>1, <2>6
<1> QED BY <1>1, <1>8, <1>9 DEF IsPart

(* A delegate that replaces nodes without an error leaves a good plan.     *)
LEMMA ReplaceGood ==
    ASSUME NEW g, IsGraph(g), NEW h, NEW s \in Subgraphs(g, h), GoodNodes(g, s.nodes),
           GoodPlan(g, s.nodes, s.plan), NEW d \in Delegates, NEW claimed \in SUBSET (1 .. NumOriginal(g))
    PROVE  LET r == ReplaceNodeSubsetsWithDelegateKernels(g, s, d, claimed)
           IN  /\ r \in Replacing(g, h, s)
               /\ r.status = "ok" => GoodPlan(g, r.sg.nodes, r.sg.plan)
<1> DEFINE nodes == s.nodes
           plan == s.plan
           p == Parts(g, nodes, plan, claimed)
           r == ReplaceNodeSubsetsWithDelegateKernels(g, s, d, claimed)
<1>1. CASE claimed = {}
  <2>1. r = [status |-> "ok", sg |-> s]
    BY <1>1 DEF ReplaceNodeSubsetsWithDelegateKernels, Outcome
  <2>2. Extends(nodes, nodes) /\ OnlyReplaced(s, s)
    <3>1. Len(nodes) \in Nat
      BY LenProperties DEF GoodNodes, NodeLists
    <3> QED BY <3>1 DEF Extends, OnlyReplaced
  <2> HIDE DEF r
  <2>3. r \in Replacing(g, h, s)
    BY <2>1, <2>2 DEF Replacing
  <2> QED BY <2>1, <2>3 DEF r
<1>2. CASE claimed # {}
  <2>1. r = ReplaceAll(s, d, p)
    BY <1>2 DEF ReplaceNodeSubsetsWithDelegateKernels, ReplaceAll, Parts, InsOf, OutsOf, ReplaceStart
  <2>2. WellPlaced(g, nodes, plan) /\ nodes \in NodeLists(g)
    BY DEF GoodPlan, GoodNodes
  <2>3. PICK ss : IsCutOf(g, nodes, plan, claimed, ss)
    BY <2>2, PlanParts
  <2>4. Len(p) = Len(ss) /\ Len(ss) \in Nat /\ BeforeSubset(ss, Len(ss) + 1) = Elements(plan)
    BY <2>3 DEF IsCutOf
  <2> HIDE DEF r, p, nodes, plan
  <2>5. \A k \in 1 .. Len(p) : IsPart(g, p[k])
    BY <2>2, <2>3, <2>4, PartsTyped DEF p
  <2>6. PICK f : IsReplaceRun(f, g, h, s, d, p)
    BY <2>4, <2>5, ReplaceRuns
  <2>7. r = f[Len(p)] /\ r \in Replacing(g, h, s)
    BY <2>1, <2>4, <2>6 DEF IsReplaceRun
  <2> DEFINE D(k) == BeforeSubset(ss, k + 1)
             T == {k \in 0 .. Len(p) : f[k].status = "ok" =>
                      PartPlan(g, nodes, plan, D(k), f[k].sg.nodes, f[k].sg.plan)}
  <2>8. 0 \in T
    <3>1. D(0) = {}
      BY DEF BeforeSubset
    <3>2. f[0].sg.plan = <<>>
      BY <2>6, ReplaceStarts DEF IsReplaceRun
    <3>3. \A ns : PartPlan(g, nodes, plan, {}, ns, <<>>)
      <4> TAKE ns
      <4>1. <<>> \in Seq(Nat) /\ Len(<<>>) = 0 /\ Elements(<<>>) = {} /\ 1 .. Len(<<>>) = {}
        BY DEF Elements
      <4>2. WellPlaced(g, ns, <<>>)
        BY <4>1 DEF WellPlaced
      <4> QED BY <4>1, <4>2 DEF PartPlan, AllRuns
    <3>4. PartPlan(g, nodes, plan, D(0), f[0].sg.nodes, f[0].sg.plan)
      <4> HIDE DEF D
      <4> QED BY <3>1, <3>2, <3>3
    <3>5. 0 \in 0 .. Len(p)
      BY <2>4
    <3> HIDE DEF D
    <3> QED BY <3>4, <3>5
  <2>9. ASSUME NEW k \in 1 .. Len(p), k - 1 \in T PROVE k \in T
    <3>1. SUFFICES ASSUME f[k].status = "ok"
                   PROVE  PartPlan(g, nodes, plan, D(k), f[k].sg.nodes, f[k].sg.plan)
      BY <2>4
    <3>2. /\ ReplacedBy(f[k - 1], p[k], d, f[k])
          /\ f[k - 1] \in Replacing(g, h, s)
      BY <2>4, <2>6 DEF IsReplaceRun
    <3>3. f[k - 1].status \in {"ok", "error"} /\ Extends(nodes, f[k - 1].sg.nodes)
      BY <3>2 DEF Replacing, nodes
    <3>4. f[k - 1].status = "ok"
      BY <3>1, <3>2, <3>3 DEF ReplacedBy
    <3>5. PartPlan(g, nodes, plan, BeforeSubset(ss, k), f[k - 1].sg.nodes, f[k - 1].sg.plan)
      <4>1. (k - 1) + 1 = k
        BY <2>4
      <4> QED BY <2>9, <3>4, <4>1
    <3>6. k \in 1 .. Len(ss) /\ GoodNodes(g, nodes)
      BY <2>4 DEF nodes
    <3> QED BY <2>2, <2>3, <3>1, <3>2, <3>3, <3>4, <3>5, <3>6, PartJoins DEF p
  <2>10. Len(p) \in T
    <3> HIDE DEF T
    <3>1. \A k \in 0 .. Len(p) : k \in T
      BY <2>4, <2>8, <2>9, UpTo
    <3> QED BY <2>4, <3>1
  <2>11. r.status = "ok" => PartPlan(g, nodes, plan, Elements(plan), r.sg.nodes, r.sg.plan)
    BY <2>4, <2>7, <2>10
  <2>12. ASSUME PartPlan(g, nodes, plan, Elements(plan), r.sg.nodes, r.sg.plan)
         PROVE  GoodPlan(g, r.sg.nodes, r.sg.plan)
    <3>1. AllRuns(nodes, Elements(plan)) = 1 .. NumOriginal(g)
          /\ g.out \subseteq g.in \cup OutputsBefore(nodes, plan, Len(plan) + 1)
      BY DEF GoodPlan, nodes, plan
    <3>2. ASSUME NEW t \in g.out, t \notin g.in
          PROVE  t \in OutputsBefore(r.sg.nodes, r.sg.plan, Len(r.sg.plan) + 1)
      <4>1. t \in OutputsBefore(nodes, plan, Len(plan) + 1) /\ Len(plan) \in Nat
        BY <2>2, <3>1, <3>2, PlanIsShort
      <4>2. PICK j \in 1 .. (Len(plan) + 1) - 1 : t \in nodes[plan[j]].outputs
        BY <4>1 DEF OutputsBefore
      <4>3. plan[j] \in Elements(plan)
        BY <4>1 DEF Elements
      <4> QED BY <2>12, <4>2, <4>3 DEF PartPlan
    <3> QED BY <2>12, <3>1, <3>2 DEF PartPlan, GoodPlan
  <2> QED BY <2>7, <2>11, <2>12 DEF r
<1> QED BY <1>1, <1>2

-----------------------------------------------------------------------------
(* The same nodes, plans and knowledge of delegates and buffers.           *)
SameNodes(s, q) ==
    /\ q.nodes = s.nodes /\ q.plan = s.plan /\ q.pre_plan = s.pre_plan
    /\ q.applied = s.applied /\ q.undone = s.undone
    /\ q.delegate = s.delegate /\ q.handle = s.handle /\ q.stale = s.stale
    /\ q.buffered = s.buffered

(* What preparing nodes leaves alone.                                      *)
OnlyPrepared(s, q) ==
    SameNodes(s, q) /\ q.state = s.state /\ q.planner = s.planner
    /\ q.next_to_prepare = s.next_to_prepare /\ q.fresh = s.fresh

Prepared(g, h, s) ==
    {q \in Subgraphs(g, h) : OnlyPrepared(s, q) /\ q.ready \subseteq s.ready \cup 1 .. Len(s.nodes)}

(* Preparing a node changes shapes and what is ready.                      *)
LEMMA PrepareNodeFrame ==
    ASSUME NEW g, NEW h, NEW s \in Subgraphs(g, h), NEW n \in 1 .. Len(s.nodes)
    PROVE  /\ PrepareNode(g, s, n) \in Prepared(g, h, s)
           /\ PrepareNode(g, s, n).has_dynamic = s.has_dynamic
<1> DEFINE sized == s.nodes[n].outputs \ g.dynamic
           right == s.nodes[n].inputs \subseteq s.shaped
           q == PrepareNode(g, s, n)
<1>1. s.nodes[n] \in NodeRecords(g)
  BY ElementOfSeq DEF Subgraphs, NodeLists
<1>2. sized \in TensorSets(g)
  BY <1>1 DEF NodeRecords, TensorSets
<1>3. n \in Nat
  OBVIOUS
<1>4. \E a \in TensorSets(g), b \in NodeSets :
          q = [s EXCEPT !.shaped = a, !.ready = b] /\ b \subseteq s.ready \cup {n}
  <2>1. s.shaped \in TensorSets(g) /\ s.ready \in NodeSets
    BY DEF Subgraphs
  <2>2. s.shaped \cup sized \in TensorSets(g) /\ s.shaped \ sized \in TensorSets(g)
        /\ s.ready \cup {n} \in NodeSets /\ s.ready \ {n} \in NodeSets
    BY <1>2, <1>3, <2>1 DEF TensorSets, NodeSets
  <2>3. s = [s EXCEPT !.shaped = s.shaped]
    BY DEF Subgraphs
  <2> QED BY <2>1, <2>2, <2>3 DEF PrepareNode
<1> HIDE DEF q
<1>5. PICK a \in TensorSets(g), b \in NodeSets :
          q = [s EXCEPT !.shaped = a, !.ready = b] /\ b \subseteq s.ready \cup {n}
  BY <1>4
<1>6. q \in Subgraphs(g, h) /\ OnlyPrepared(s, q) /\ q.has_dynamic = s.has_dynamic /\ q.ready = b
  BY <1>5 DEF Subgraphs, OnlyPrepared, SameNodes
<1> QED BY <1>5, <1>6 DEF Prepared, q

(* The places at which PrepareOpsStartingAt stops, and the one where.      *)
StopsOf(g, s, first, plan) == {k \in first .. Len(plan) : HasDynamicOutputs(g, s, plan[k])}

IsStop(g, s, first, plan, stop) ==
    LET stops == StopsOf(g, s, first, plan)
    IN  IF stops = {} THEN stop = Len(plan) ELSE stop \in stops /\ \A j \in stops : stop <= j

PrepareStart(s, first) == IF first = 1 THEN [s EXCEPT !.has_dynamic = FALSE] ELSE s

(* The nodes that PrepareOpsStartingAt prepares, one after the other.      *)
IsPrepareRun(f, g, h, s, first, plan, stop) ==
    /\ IsStop(g, s, first, plan, stop) /\ stop \in first - 1 .. Len(plan)
    /\ f[first - 1] = PrepareStart(s, first)
    /\ \A k \in first .. stop : f[k] = PrepareNode(g, f[k - 1], plan[k])
    /\ \A k \in first - 1 .. stop :
          f[k] \in Prepared(g, h, s) /\ f[k].has_dynamic = PrepareStart(s, first).has_dynamic

(* Its outcomes.                                                           *)
PrepareOutcome(r, f, g, s, first, plan, stop) ==
    \/ /\ r.status = "ok" /\ r.last = stop
       /\ r.sg = IF StopsOf(g, s, first, plan) = {} THEN f[stop] ELSE [f[stop] EXCEPT !.has_dynamic = TRUE]
    \/ /\ r.status = "error"
       /\ \E k \in first .. stop : /\ PrepareMayFail(g, s.nodes[plan[k]])
                                   /\ r.sg = f[k - 1] /\ r.last = k - 1

(* The loop that prepares the nodes: the states it goes through, where it  *)
(* stops, and what comes out.                                              *)
LEMMA PrepareRuns ==
    ASSUME NEW g, NEW h, NEW s \in Subgraphs(g, h), NEW plan \in Seq(Nat),
           \A k \in 1 .. Len(plan) : plan[k] \in 1 .. Len(s.nodes), NEW first \in 1 .. Len(plan) + 1
    PROVE  \E f, stop : /\ IsPrepareRun(f, g, h, s, first, plan, stop)
                        /\ \A r \in PrepareOpsStartingAt(g, s, first, plan) :
                              PrepareOutcome(r, f, g, s, first, plan, stop)
<1> DEFINE L == Len(plan)
           stops == StopsOf(g, s, first, plan)
           stop == IF stops = {} THEN L ELSE CHOOSE k \in stops : \A j \in stops : k <= j
           start == PrepareStart(s, first)
           After(f) == [k \in first - 1 .. stop |->
                          IF k < first THEN start ELSE PrepareNode(g, f[k - 1], plan[k])]
           run == CHOOSE f : f = After(f)
           all == IF stops = {} THEN run[stop] ELSE [run[stop] EXCEPT !.has_dynamic = TRUE]
           res == {[status |-> "ok", sg |-> all, last |-> stop]} \cup
                  {[status |-> "error", sg |-> run[k - 1], last |-> k - 1] :
                     k \in {j \in first .. stop : PrepareMayFail(g, s.nodes[plan[j]])}}
<1>1. PrepareOpsStartingAt(g, s, first, plan) = res
  BY DEF PrepareOpsStartingAt, StopsOf, PrepareStart
<1>2. L \in Nat /\ stops \subseteq Nat /\ stops \subseteq first .. L
  BY LenProperties DEF StopsOf
<1>3. IsStop(g, s, first, plan, stop) /\ stop \in first - 1 .. L
  <2>1. CASE stops = {}
    BY <1>2, <2>1 DEF IsStop
  <2>2. CASE stops # {}
    <3> HIDE DEF stops
    <3>1. PICK x \in stops : \A y \in stops : ~(y < x)
      BY <1>2, <2>2, Smallest
    <3>2. \A y \in stops : x <= y
      BY <1>2, <3>1
    <3>3. stop \in stops /\ \A j \in stops : stop <= j
      BY <2>2, <3>1, <3>2
    <3> HIDE DEF stop
    <3>4. stop \in first - 1 .. L
      BY <1>2, <3>3
    <3> QED BY <2>2, <3>3, <3>4 DEF IsStop, stops
  <2> QED BY <2>1, <2>2
<1>4. start \in Prepared(g, h, s)
  BY DEF Prepared, PrepareStart, Subgraphs, OnlyPrepared, SameNodes
<1> DEFINE A == {q \in Prepared(g, h, s) : q.has_dynamic = start.has_dynamic}
           n == stop - first + 1
           P(x, k) == PrepareNode(g, x, plan[first - 1 + k])
           step == [k \in 1 .. n |-> [x \in A |-> P(x, k)]]
<1> HIDE DEF stop, start, stops
<1>5. n \in Nat /\ stop \in Int /\ first \in Int /\ stop <= L
  BY <1>2, <1>3
<1>6. start \in A
  BY <1>4
<1>7. ASSUME NEW x \in A, NEW k \in 1 .. L PROVE PrepareNode(g, x, plan[k]) \in A
  <2>1. x \in Prepared(g, h, s) /\ x.has_dynamic = start.has_dynamic
    OBVIOUS
  <2>2. x \in Subgraphs(g, h) /\ x.nodes = s.nodes /\ OnlyPrepared(s, x)
        /\ x.ready \subseteq s.ready \cup 1 .. Len(s.nodes)
    BY <2>1 DEF Prepared, OnlyPrepared, SameNodes
  <2>3. plan[k] \in 1 .. Len(x.nodes)
    BY <2>2
  <2> DEFINE q == PrepareNode(g, x, plan[k])
  <2>4. q \in Prepared(g, h, x) /\ q.has_dynamic = x.has_dynamic
    BY <2>2, <2>3, PrepareNodeFrame
  <2> HIDE DEF q
  <2>5. q \in Subgraphs(g, h) /\ OnlyPrepared(x, q) /\ q.ready \subseteq x.ready \cup 1 .. Len(x.nodes)
    BY <2>4 DEF Prepared
  <2>6. OnlyPrepared(s, q)
    BY <2>2, <2>5 DEF OnlyPrepared, SameNodes
  <2>7. q \in Prepared(g, h, s)
    BY <2>2, <2>5, <2>6 DEF Prepared
  <2> QED BY <2>1, <2>4, <2>7 DEF q
<1>8. ASSUME NEW f, NEW k \in first .. stop PROVE After(f)[k] = PrepareNode(g, f[k - 1], plan[k])
  BY <1>5
<1>9. ASSUME NEW f PROVE After(f)[first - 1] = start /\ After(f) = [k \in first - 1 .. stop |-> After(f)[k]]
  BY <1>3, <1>5
<1> HIDE DEF After
<1>10. step \in Steps(A, n)
  <2>1. ASSUME NEW k \in 1 .. n, NEW x \in A PROVE P(x, k) \in A
    <3>1. first - 1 + k \in 1 .. L
      BY <1>2, <1>5
    <3> QED BY <1>7, <3>1
  <2> HIDE DEF A, P
  <2> QED BY <2>1 DEF Steps
<1>11. ASSUME NEW k \in 1 .. n, NEW x \in A PROVE step[k][x] = P(x, k)
  OBVIOUS
<1> HIDE DEF A, step
<1>12. run = After(run)
  <2>1. PICK F : IsIteration(F, A, n, start, step)
    BY <1>5, <1>6, <1>10, IterationExists
  <2>2. F[0] = start /\ \A k \in 1 .. n : F[k - 1] \in A /\ F[k] = P(F[k - 1], k)
    <3> HIDE DEF P, n
    <3>1. F \in [0 .. n -> A] /\ F[0] = start /\ \A k \in 1 .. n : F[k] = step[k][F[k - 1]]
      BY <2>1 DEF IsIteration
    <3>2. \A k \in 1 .. n : k - 1 \in 0 .. n
      BY <1>5
    <3> QED BY <1>11, <3>1, <3>2
  <2> DEFINE f == [k \in first - 1 .. stop |-> F[k - first + 1]]
  <2>3. f[first - 1] = start
    BY <1>3, <1>5, <2>2
  <2>4. ASSUME NEW k \in first .. stop PROVE f[k] = PrepareNode(g, f[k - 1], plan[k])
    <3>1. k - first + 1 \in 1 .. n /\ (k - first + 1) - 1 = (k - 1) - first + 1
          /\ first - 1 + (k - first + 1) = k /\ k \in first - 1 .. stop /\ k - 1 \in first - 1 .. stop
      BY <1>5
    <3>2. F[k - first + 1] = PrepareNode(g, F[(k - 1) - first + 1], plan[k])
      BY <2>2, <3>1
    <3> QED BY <3>1, <3>2
  <2>5. f = [k \in first - 1 .. stop |-> f[k]]
    OBVIOUS
  <2> HIDE DEF f
  <2>6. \A k \in first - 1 .. stop : f[k] = After(f)[k]
    <3>1. \A k \in first - 1 .. stop : k = first - 1 \/ k \in first .. stop
      BY <1>5
    <3> QED BY <1>8, <1>9, <2>3, <2>4, <3>1
  <2>7. f = After(f)
    BY <1>9, <2>5, <2>6
  <2> QED BY <2>7
<1> HIDE DEF run
<1>13. run[first - 1] = start /\ \A k \in first .. stop : run[k] = PrepareNode(g, run[k - 1], plan[k])
  BY <1>8, <1>9, <1>12
<1> DEFINE T == {k \in 0 .. n : run[first - 1 + k] \in A}
<1>14. 0 \in T
  BY <1>5, <1>6, <1>13
<1>15. ASSUME NEW k \in 1 .. n, k - 1 \in T PROVE k \in T
  <2>1. first - 1 + k \in first .. stop /\ first - 1 + k \in 1 .. L /\ (first - 1 + k) - 1 = first - 1 + (k - 1)
    BY <1>2, <1>5
  <2>2. run[first - 1 + k] = PrepareNode(g, run[first - 1 + (k - 1)], plan[first - 1 + k])
    BY <1>13, <2>1
  <2>3. run[first - 1 + k] \in A
    BY <1>7, <1>15, <2>1, <2>2
  <2> QED BY <1>5, <2>3
<1>16. \A k \in 0 .. n : k \in T
  <2> HIDE DEF T, n
  <2> QED BY <1>5, <1>14, <1>15, UpTo
<1>17. \A k \in first - 1 .. stop : run[k] \in A
  <2> TAKE k \in first - 1 .. stop
  <2>1. k - first + 1 \in 0 .. n /\ first - 1 + (k - first + 1) = k
    BY <1>5
  <2> QED BY <1>16, <2>1
<1>18. IsPrepareRun(run, g, h, s, first, plan, stop)
  BY <1>3, <1>13, <1>17 DEF IsPrepareRun, A, start
<1>19. \A r \in res : PrepareOutcome(r, run, g, s, first, plan, stop)
  <2> TAKE r \in res
  <2>1. CASE r = [status |-> "ok", sg |-> all, last |-> stop]
    <3> HIDE DEF all
    <3>1. r.status = "ok" /\ r.last = stop /\ r.sg = all
      BY <2>1
    <3> QED BY <3>1 DEF PrepareOutcome, all, stops
  <2>2. CASE \E k \in {j \in first .. stop : PrepareMayFail(g, s.nodes[plan[j]])} :
                r = [status |-> "error", sg |-> run[k - 1], last |-> k - 1]
    <3>1. PICK k \in first .. stop : /\ PrepareMayFail(g, s.nodes[plan[k]])
                                     /\ r = [status |-> "error", sg |-> run[k - 1], last |-> k - 1]
      BY <2>2
    <3>2. r.status = "error" /\ r.sg = run[k - 1] /\ r.last = k - 1
      BY <3>1
    <3> QED BY <3>1, <3>2 DEF PrepareOutcome
  <2> QED BY <2>1, <2>2
<1> HIDE DEF res
<1> QED BY <1>1, <1>18, <1>19

-----------------------------------------------------------------------------
(* What preparing nodes from a place of a plan on gives.                   *)
LEMMA PrepareOpsFacts ==
    ASSUME NEW g, NEW h, NEW s \in Subgraphs(g, h), NEW plan \in Seq(Nat),
           \A k \in 1 .. Len(plan) : plan[k] \in 1 .. Len(s.nodes), NEW first \in 1 .. Len(plan) + 1,
           NEW r \in PrepareOpsStartingAt(g, s, first, plan)
    PROVE  /\ r.sg \in Prepared(g, h, s) /\ r.last \in first - 1 .. Len(plan)
           /\ r.status \in {"ok", "error"}
           /\ r.status = "error" => \E k \in 1 .. Len(plan) : PrepareMayFail(g, s.nodes[plan[k]])
           /\ r.status = "ok" /\ first = 1 =>
                 (r.sg.has_dynamic <=> \E k \in 1 .. Len(plan) : HasDynamicOutputs(g, s, plan[k]))
<1>1. PICK f, stop : /\ IsPrepareRun(f, g, h, s, first, plan, stop)
                     /\ PrepareOutcome(r, f, g, s, first, plan, stop)
  BY PrepareRuns
<1>2. /\ stop \in first - 1 .. Len(plan) /\ Len(plan) \in Nat /\ first \in Nat /\ stop \in Int
      /\ \A k \in first - 1 .. stop :
            f[k] \in Prepared(g, h, s) /\ f[k].has_dynamic = PrepareStart(s, first).has_dynamic
  BY <1>1, LenProperties DEF IsPrepareRun
<1>3. CASE r.status = "ok"
  <2>1. /\ r.last = stop
        /\ r.sg = IF StopsOf(g, s, first, plan) = {} THEN f[stop] ELSE [f[stop] EXCEPT !.has_dynamic = TRUE]
    BY <1>1, <1>3 DEF PrepareOutcome
  <2>2. f[stop] \in Prepared(g, h, s) /\ f[stop].has_dynamic = PrepareStart(s, first).has_dynamic
    BY <1>2
  <2>3. [f[stop] EXCEPT !.has_dynamic = TRUE] \in Prepared(g, h, s)
    BY <2>2 DEF Prepared, Subgraphs, OnlyPrepared, SameNodes
  <2>4. r.sg \in Prepared(g, h, s)
    BY <2>1, <2>2, <2>3
  <2>5. first = 1 => (r.sg.has_dynamic <=> StopsOf(g, s, first, plan) # {})
    <3>1. first = 1 => PrepareStart(s, first).has_dynamic = FALSE
      BY DEF PrepareStart, Subgraphs
    <3>2. [f[stop] EXCEPT !.has_dynamic = TRUE].has_dynamic = TRUE
      BY <2>2 DEF Prepared, Subgraphs
    <3> QED BY <2>1, <2>2, <3>1, <3>2
  <2>6. first = 1 => (StopsOf(g, s, first, plan) # {} <=>
                         \E k \in 1 .. Len(plan) : HasDynamicOutputs(g, s, plan[k]))
    BY DEF StopsOf
  <2> QED BY <1>2, <1>3, <2>1, <2>4, <2>5, <2>6
<1>4. CASE r.status # "ok"
  <2>1. PICK k \in first .. stop : /\ r.status = "error" /\ PrepareMayFail(g, s.nodes[plan[k]])
                                   /\ r.sg = f[k - 1] /\ r.last = k - 1
    BY <1>1, <1>4 DEF PrepareOutcome
  <2>2. k \in 1 .. Len(plan) /\ k - 1 \in first - 1 .. stop /\ k - 1 \in first - 1 .. Len(plan)
    BY <1>2
  <2> QED BY <1>2, <2>1, <2>2
<1> QED BY <1>3, <1>4

(* A subgraph whose plans and counter point to nodes.                      *)
Preparable(g, h, s) ==
    /\ s \in Subgraphs(g, h)
    /\ \A k \in 1 .. Len(s.plan) : s.plan[k] \in 1 .. Len(s.nodes)
    /\ \A k \in 1 .. Len(s.pre_plan) : s.pre_plan[k] \in 1 .. Len(s.nodes)
    /\ s.pre_plan = <<>> => \A n \in 1 .. Len(s.nodes) : s.nodes[n].delegate = NoDelegate

NextFits(s) ==
    /\ s.next_to_prepare \in 1 .. Len(s.plan) + 1
    /\ s.pre_plan # <<>> => s.next_to_prepare <= Len(s.pre_plan) + 1

(* When preparing nodes may fail.                                          *)
Faulty(g, s) == "cpu_prepare" \in g.faults \/ ("kernel_prepare" \in g.faults /\ s.pre_plan # <<>>)

PlannerOf(s) == IF s.planner = <<>> THEN <<s.plan>> ELSE s.planner

(* A node that may fail to prepare makes the subgraph faulty.              *)
LEMMA FaultyNodes ==
    ASSUME NEW g, NEW h, NEW s, Preparable(g, h, s), NEW n \in 1 .. Len(s.nodes),
           PrepareMayFail(g, s.nodes[n])
    PROVE  Faulty(g, s)
  BY DEF Preparable, PrepareMayFail, Faulty

(* PrepareOpsAndTensors.                                                   *)
LEMMA PrepareTensorsFacts ==
    ASSUME NEW g, NEW h, NEW s, Preparable(g, h, s), NextFits(s),
           NEW r \in PrepareOpsAndTensors(g, s)
    PROVE  /\ r.status \in {"ok", "error"} /\ r.sg \in Subgraphs(g, h)
           /\ SameNodes(s, r.sg) /\ r.sg.state = s.state /\ r.sg.fresh = s.fresh
           /\ r.sg.planner = PlannerOf(s)
           /\ r.sg.ready \subseteq s.ready \cup 1 .. Len(s.nodes)
           /\ r.sg.next_to_prepare \in s.next_to_prepare .. Len(s.plan) + 1
           /\ r.status = "error" => Faulty(g, s)
<1> DEFINE s1 == [s EXCEPT !.planner = IF @ = <<>> THEN <<s.plan>> ELSE @]
           pre == s.pre_plan # <<>> /\ \E d \in Elements(s.applied) : d \in WantsShapes
           original == IF pre THEN PrepareOpsStartingAt(g, s1, s1.next_to_prepare, s1.pre_plan)
                       ELSE {Outcome("ok", s1)}
<1>1. s \in Subgraphs(g, h) /\ s.plan \in Seq(Nat) /\ s.pre_plan \in Seq(Nat) /\ Len(s.plan) \in Nat
      /\ s.next_to_prepare \in Nat /\ s.next_to_prepare \in 1 .. Len(s.plan) + 1
  BY LenProperties DEF Preparable, NextFits, Subgraphs, IndexLists
<1>2. s1 \in Subgraphs(g, h) /\ SameNodes(s, s1) /\ s1.state = s.state /\ s1.fresh = s.fresh
      /\ s1.planner = PlannerOf(s) /\ s1.ready = s.ready /\ s1.next_to_prepare = s.next_to_prepare
  <2>1. PlannerOf(s) \in PlannerStates
    <3>1. <<s.plan>> \in PlannerStates
      BY <1>1 DEF PlannerStates, IndexLists
    <3> QED BY <1>1, <3>1 DEF PlannerOf, Subgraphs
  <2>2. s1 = [s EXCEPT !.planner = PlannerOf(s)]
    BY DEF PlannerOf
  <2> HIDE DEF s1
  <2> QED BY <1>1, <2>1, <2>2 DEF Subgraphs, SameNodes
<1> HIDE DEF s1
<1>3. PICK o \in original : r \in
             IF o.status # "ok" THEN {Outcome(o.status, o.sg)}
             ELSE {IF q.status = "ok"
                   THEN Outcome("ok", [q.sg EXCEPT !.next_to_prepare = q.last + 1])
                   ELSE Outcome(q.status, q.sg) :
                      q \in PrepareOpsStartingAt(g, o.sg, o.sg.next_to_prepare, o.sg.plan)}
  BY DEF PrepareOpsAndTensors, s1
<1>4. o.status \in {"ok", "error"} /\ o.sg \in Prepared(g, h, s1) /\ (o.status = "error" => Faulty(g, s))
  <2>1. CASE pre
    <3>1. o \in PrepareOpsStartingAt(g, s1, s1.next_to_prepare, s1.pre_plan)
      BY <2>1
    <3>2. /\ \A k \in 1 .. Len(s1.pre_plan) : s1.pre_plan[k] \in 1 .. Len(s1.nodes)
          /\ s1.next_to_prepare \in 1 .. Len(s1.pre_plan) + 1 /\ s1.pre_plan \in Seq(Nat)
      <4>1. Len(s.pre_plan) \in Nat
        BY <1>1, LenProperties
      <4> QED BY <1>1, <1>2, <2>1, <4>1 DEF Preparable, NextFits, SameNodes
    <3>3. /\ o.sg \in Prepared(g, h, s1) /\ o.status \in {"ok", "error"}
          /\ o.status = "error" => \E k \in 1 .. Len(s1.pre_plan) : PrepareMayFail(g, s1.nodes[s1.pre_plan[k]])
      BY <1>2, <3>1, <3>2, PrepareOpsFacts
    <3>4. o.status = "error" => Faulty(g, s)
      BY <1>2, <3>2, <3>3, FaultyNodes DEF SameNodes
    <3> QED BY <3>3, <3>4
  <2>2. CASE ~pre
    <3>1. o = [status |-> "ok", sg |-> s1]
      BY <2>2 DEF Outcome
    <3>2. s1 \in Prepared(g, h, s1)
      BY <1>2 DEF Prepared, OnlyPrepared, SameNodes
    <3> QED BY <3>1, <3>2
  <2> QED BY <2>1, <2>2
<1> HIDE DEF original, pre
<1> DEFINE z == o.sg
<1>5. z \in Subgraphs(g, h) /\ SameNodes(s, z) /\ z.state = s.state /\ z.fresh = s.fresh
      /\ z.planner = PlannerOf(s) /\ z.ready \subseteq s.ready \cup 1 .. Len(s.nodes)
      /\ z.next_to_prepare = s.next_to_prepare
  BY <1>2, <1>4 DEF Prepared, OnlyPrepared, SameNodes
<1> HIDE DEF z
<1>6. CASE o.status # "ok"
  <2>1. r = [status |-> o.status, sg |-> z]
    BY <1>3, <1>6 DEF Outcome, z
  <2>2. r.status = o.status /\ r.sg = z
    BY <2>1
  <2> QED BY <1>1, <1>4, <1>5, <1>6, <2>2
<1>7. CASE o.status = "ok"
  <2>1. PICK q \in PrepareOpsStartingAt(g, z, z.next_to_prepare, z.plan) :
           r = IF q.status = "ok" THEN Outcome("ok", [q.sg EXCEPT !.next_to_prepare = q.last + 1])
                                  ELSE Outcome(q.status, q.sg)
    BY <1>3, <1>7 DEF z
  <2>2. \A k \in 1 .. Len(z.plan) : z.plan[k] \in 1 .. Len(z.nodes)
    BY <1>5 DEF Preparable, SameNodes
  <2>3. z.plan \in Seq(Nat) /\ z.next_to_prepare \in 1 .. Len(z.plan) + 1
    BY <1>1, <1>5 DEF SameNodes
  <2>4. /\ q.sg \in Prepared(g, h, z) /\ q.last \in z.next_to_prepare - 1 .. Len(z.plan)
        /\ q.status \in {"ok", "error"}
        /\ q.status = "error" => \E k \in 1 .. Len(z.plan) : PrepareMayFail(g, z.nodes[z.plan[k]])
    BY <1>5, <2>1, <2>2, <2>3, PrepareOpsFacts
  <2>5. q.status = "error" => Faulty(g, s)
    BY <1>5, <2>2, <2>4, FaultyNodes DEF SameNodes
  <2> DEFINE y == q.sg
  <2>6. y \in Subgraphs(g, h) /\ SameNodes(s, y) /\ y.state = s.state /\ y.fresh = s.fresh
        /\ y.planner = PlannerOf(s) /\ y.ready \subseteq s.ready \cup 1 .. Len(s.nodes)
        /\ y.next_to_prepare = s.next_to_prepare
    BY <1>5, <2>4 DEF Prepared, OnlyPrepared, SameNodes
  <2>7. q.last + 1 \in Nat /\ q.last + 1 \in s.next_to_prepare .. Len(s.plan) + 1
    BY <1>1, <1>5, <2>4 DEF SameNodes
  <2> HIDE DEF y
  <2>8. CASE q.status = "ok"
    <3> DEFINE x == [y EXCEPT !.next_to_prepare = q.last + 1]
    <3>1. r = [status |-> "ok", sg |-> x]
      BY <2>1, <2>8 DEF Outcome, y
    <3>2. x \in Subgraphs(g, h) /\ SameNodes(s, x) /\ x.state = s.state /\ x.fresh = s.fresh
          /\ x.planner = PlannerOf(s) /\ x.ready \subseteq s.ready \cup 1 .. Len(s.nodes)
          /\ x.next_to_prepare = q.last + 1
      BY <2>6, <2>7 DEF Subgraphs, SameNodes
    <3> HIDE DEF x
    <3>3. r.status = "ok" /\ r.sg = x
      BY <3>1
    <3> QED BY <2>7, <3>2, <3>3
  <2>9. CASE q.status = "error"
    <3>1. r = [status |-> "error", sg |-> y]
      BY <2>1, <2>9 DEF Outcome, y
    <3>2. r.status = "error" /\ r.sg = y
      BY <3>1
    <3> QED BY <1>1, <2>5, <2>6, <2>9, <3>2
  <2> QED BY <2>4, <2>8, <2>9
<1> QED BY <1>6, <1>7

-----------------------------------------------------------------------------
(* AllocateTensors of a graph that was not ready.                          *)
LEMMA AllocateFacts ==
    ASSUME NEW g, NEW h, NEW s, Preparable(g, h, s), NEW r \in Allocate(g, s)
    PROVE  /\ r.status \in {"ok", "error"} /\ r.sg \in Subgraphs(g, h)
           /\ SameNodes(s, r.sg)
           /\ r.sg.ready \subseteq s.ready \cup 1 .. Len(s.nodes)
           /\ s.state # "uninvokable" => r.status = "ok" /\ r.sg = s
           /\ s.state = "uninvokable" =>
                /\ r.sg.planner = PlannerOf(s)
                /\ r.sg.next_to_prepare \in 1 .. Len(s.plan) + 1
                /\ r.status = "ok" => r.sg.state = "invokable"
                /\ r.status = "error" => r.sg.state = "uninvokable" /\ Faulty(g, s)
<1>0. s \in Subgraphs(g, h)
  BY DEF Preparable
<1>1. CASE s.state # "uninvokable"
  <2>1. r = [status |-> "ok", sg |-> s]
    BY <1>1 DEF Allocate, Outcome
  <2>2. r.status = "ok" /\ r.sg = s
    BY <2>1
  <2> QED BY <1>0, <1>1, <2>2 DEF SameNodes
<1>2. CASE s.state = "uninvokable"
  <2> DEFINE z == [s EXCEPT !.next_to_prepare = 1, !.fresh = {}]
  <2>1. z \in Subgraphs(g, h) /\ SameNodes(s, z) /\ z.state = "uninvokable" /\ z.planner = s.planner
        /\ z.next_to_prepare = 1 /\ z.ready = s.ready
    <3>1. {} \in TensorSets(g)
      BY DEF TensorSets
    <3> QED BY <1>0, <1>2, <3>1 DEF Subgraphs, SameNodes
  <2>2. PICK q \in PrepareOpsAndTensors(g, z) :
           r = IF q.status = "ok" THEN Outcome("ok", [q.sg EXCEPT !.state = "invokable"]) ELSE q
    BY <1>2 DEF Allocate
  <2> HIDE DEF z
  <2>3. Preparable(g, h, z) /\ PlannerOf(z) = PlannerOf(s) /\ (Faulty(g, z) <=> Faulty(g, s))
    BY <2>1 DEF Preparable, SameNodes, PlannerOf, Faulty
  <2>4. NextFits(z)
    <3>1. Len(z.plan) \in Nat /\ Len(z.pre_plan) \in Nat
      BY <2>1, LenProperties DEF Subgraphs, IndexLists
    <3> QED BY <2>1, <3>1 DEF NextFits
  <2>5. /\ q.status \in {"ok", "error"} /\ q.sg \in Subgraphs(g, h)
        /\ SameNodes(z, q.sg) /\ q.sg.state = z.state
        /\ q.sg.planner = PlannerOf(z)
        /\ q.sg.ready \subseteq z.ready \cup 1 .. Len(z.nodes)
        /\ q.sg.next_to_prepare \in z.next_to_prepare .. Len(z.plan) + 1
        /\ q.status = "error" => Faulty(g, z)
    BY <2>2, <2>3, <2>4, PrepareTensorsFacts
  <2> DEFINE y == q.sg
  <2>6. y \in Subgraphs(g, h) /\ SameNodes(s, y) /\ y.state = "uninvokable" /\ y.planner = PlannerOf(s)
        /\ y.ready \subseteq s.ready \cup 1 .. Len(s.nodes)
        /\ y.next_to_prepare \in 1 .. Len(s.plan) + 1
    BY <2>1, <2>3, <2>5 DEF SameNodes
  <2> HIDE DEF y
  <2>7. CASE q.status = "ok"
    <3> DEFINE x == [y EXCEPT !.state = "invokable"]
    <3>1. x \in Subgraphs(g, h) /\ SameNodes(s, x) /\ x.state = "invokable" /\ x.planner = PlannerOf(s)
          /\ x.ready \subseteq s.ready \cup 1 .. Len(s.nodes)
          /\ x.next_to_prepare \in 1 .. Len(s.plan) + 1
      BY <2>6 DEF Subgraphs, SameNodes, States
    <3>2. r = [status |-> "ok", sg |-> x]
      BY <2>2, <2>7 DEF Outcome, y
    <3> HIDE DEF x
    <3>3. r.status = "ok" /\ r.sg = x
      BY <3>2
    <3> QED BY <1>2, <3>1, <3>3
  <2>8. CASE q.status = "error"
    <3>1. r = q
      BY <2>2, <2>8
    <3> QED BY <1>2, <2>3, <2>5, <2>6, <2>8, <3>1 DEF y
  <2> QED BY <2>5, <2>7, <2>8
<1> QED BY <1>1, <1>2

(* EnsureMemoryAllocations plans the memory of the present plan.           *)
LEMMA EnsureFacts ==
    ASSUME NEW g, NEW h, NEW s, Preparable(g, h, s), s.planner = <<>> => s.state = "uninvokable",
           NEW r \in EnsureMemoryAllocations(g, s)
    PROVE  /\ r.status \in {"ok", "error"} /\ r.sg \in Subgraphs(g, h)
           /\ SameNodes(s, r.sg)
           /\ r.sg.ready \subseteq s.ready \cup 1 .. Len(s.nodes)
           /\ r.sg.planner = <<s.plan>>
           /\ r.sg.next_to_prepare \in 1 .. Len(s.plan) + 1
           /\ r.status = "ok" => r.sg.state = "invokable"
           /\ r.status = "error" => r.sg.state = "uninvokable" /\ Faulty(g, s)
<1> DEFINE z == IF s.planner = <<>> THEN s
                ELSE [s EXCEPT !.state = "uninvokable", !.planner = <<s.plan>>]
<1>0. s \in Subgraphs(g, h)
  BY DEF Preparable
<1>1. z \in Subgraphs(g, h) /\ SameNodes(s, z) /\ z.state = "uninvokable" /\ PlannerOf(z) = <<s.plan>>
      /\ z.ready = s.ready
  <2>1. CASE s.planner = <<>>
    BY <1>0, <2>1 DEF SameNodes, PlannerOf
  <2>2. CASE s.planner # <<>>
    <3>1. <<s.plan>> \in PlannerStates /\ <<s.plan>> # <<>>
      BY <1>0 DEF PlannerStates, Subgraphs
    <3>2. z = [s EXCEPT !.state = "uninvokable", !.planner = <<s.plan>>]
      BY <2>2
    <3> HIDE DEF z
    <3>3. z \in Subgraphs(g, h) /\ SameNodes(s, z) /\ z.state = "uninvokable" /\ z.planner = <<s.plan>>
          /\ z.ready = s.ready
      BY <1>0, <3>1, <3>2 DEF Subgraphs, SameNodes, States
    <3> QED BY <3>1, <3>3 DEF PlannerOf
  <2> QED BY <2>1, <2>2
<1>2. PICK q \in Allocate(g, z) :
         r = IF q.status = "ok" /\ q.sg.state # "invokable" THEN Outcome("error", q.sg) ELSE q
  BY DEF EnsureMemoryAllocations
<1> HIDE DEF z
<1>3. Preparable(g, h, z) /\ (Faulty(g, z) <=> Faulty(g, s))
  BY <1>1 DEF Preparable, SameNodes, Faulty
<1>4. /\ q.status \in {"ok", "error"} /\ q.sg \in Subgraphs(g, h)
      /\ SameNodes(z, q.sg)
      /\ q.sg.ready \subseteq z.ready \cup 1 .. Len(z.nodes)
      /\ q.sg.planner = PlannerOf(z)
      /\ q.sg.next_to_prepare \in 1 .. Len(z.plan) + 1
      /\ q.status = "ok" => q.sg.state = "invokable"
      /\ q.status = "error" => q.sg.state = "uninvokable" /\ Faulty(g, z)
  BY <1>1, <1>2, <1>3, AllocateFacts
<1>5. r = q
  BY <1>2, <1>4
<1> QED BY <1>1, <1>3, <1>4, <1>5 DEF SameNodes

-----------------------------------------------------------------------------
(* A subgraph as it is between two operations.                             *)
AppliedOrder(s) ==
    /\ \A k \in 1 .. Len(s.applied) :
          s.applied[k] \notin AllowsDynamic => k = Len(s.applied) /\ (s.state = "immutable" \/ s.undone)
    /\ s.undone \/ s.state = "immutable" =>
          s.applied # <<>> /\ s.applied[Len(s.applied)] \notin AllowsDynamic
    /\ s.undone => s.state = "uninvokable"

Sound(g, h, s) ==
    /\ s \in Subgraphs(g, h)
    /\ GoodNodes(g, s.nodes) /\ GoodPlan(g, s.nodes, s.plan)
    /\ s.ready \subseteq 1 .. Len(s.nodes)
    /\ s.pre_plan \in {<<>>, Orig(g)}
    /\ s.pre_plan = <<>> => s.nodes = OrigNodes(g) /\ s.plan = Orig(g)
    /\ s.pre_plan # <<>> <=> s.applied # <<>> /\ ~s.undone
    /\ s.planner = <<>> => s.state = "uninvokable"
    /\ s.next_to_prepare \in 1 .. NumOriginal(g) + 1
    /\ s.state # "uninvokable" => s.next_to_prepare <= Len(s.plan) + 1
    /\ AppliedOrder(s)

(* One that all delegates can be removed from.                             *)
Removable(g, h, s) ==
    /\ s \in Subgraphs(g, h)
    /\ GoodNodes(g, s.nodes)
    /\ s.ready \subseteq 1 .. Len(s.nodes)
    /\ s.pre_plan \in {<<>>, Orig(g)}
    /\ s.pre_plan = <<>> => s.nodes = OrigNodes(g) /\ s.plan = Orig(g)
    /\ s.planner = <<>> => s.state = "uninvokable"

(* One without delegates, with its memory planned.                         *)
Restored(g, s) ==
    /\ s.nodes = OrigNodes(g) /\ s.plan = Orig(g) /\ s.pre_plan = <<>>
    /\ s.applied = <<>> /\ ~s.undone /\ s.planner = <<Orig(g)>>
    /\ s.state \in {"invokable", "uninvokable"}

(* UndoAllDelegates brings the plan of the model back.                     *)
PlanIsBack(g, h, s, q) ==
    /\ q \in Subgraphs(g, h)
    /\ q.nodes = OrigNodes(g) /\ q.plan = Orig(g) /\ q.pre_plan = <<>>
    /\ q.ready \subseteq 1 .. NumOriginal(g)
    /\ q.planner = s.planner /\ q.applied = s.applied
    /\ q.next_to_prepare = s.next_to_prepare
    /\ q.planner = <<>> => q.state = "uninvokable"
    /\ s.pre_plan # <<>> => q.undone = TRUE /\ q.state = "uninvokable"
    /\ s.pre_plan = <<>> => q = s

(* UndoAllDelegates brings the plan and the nodes of the model back.       *)
LEMMA UndoFacts ==
    ASSUME NEW g, IsGraph(g), NEW h, NEW s, Removable(g, h, s)
    PROVE  PlanIsBack(g, h, s, UndoAllDelegates(s))
<1> DEFINE q == UndoAllDelegates(s)
           N == NumOriginal(g)
<1> SUFFICES PlanIsBack(g, h, s, q)
  OBVIOUS
<1>1. /\ N \in Nat \ {0} /\ Elements(Orig(g)) = 1 .. N /\ Orig(g) \in Seq(Nat) /\ Orig(g) # <<>>
      /\ OrigNodes(g) \in NodeLists(g) /\ Len(OrigNodes(g)) = N
      /\ \A n \in 1 .. N : OrigNodes(g)[n] = OriginalNode(g, n)
  BY GraphFacts
<1>2. CASE s.pre_plan = <<>>
  <2>1. q = s
    BY <1>2 DEF UndoAllDelegates
  <2> HIDE DEF q
  <2> QED BY <1>1, <1>2, <2>1 DEF Removable, PlanIsBack
<1>3. CASE s.pre_plan # <<>>
  <2> DEFINE lst == CHOOSE n \in 1 .. N : \A m \in 1 .. N : m <= n
             nd == SubSeq(s.nodes, 1, lst)
             rd == s.ready \cap 1 .. lst
  <2>1. s.pre_plan = Orig(g)
    BY <1>3 DEF Removable
  <2>2. q = [s EXCEPT !.plan = Orig(g), !.pre_plan = <<>>, !.nodes = nd, !.ready = rd,
                      !.state = "uninvokable", !.undone = TRUE]
    BY <1>1, <1>3, <2>1 DEF UndoAllDelegates
  <2>3. lst = N
    <3>1. N \in 1 .. N /\ \A m \in 1 .. N : m <= N
      BY <1>1
    <3>2. lst \in 1 .. N /\ \A m \in 1 .. N : m <= lst
      BY <3>1
    <3> QED BY <1>1, <3>1, <3>2
  <2>4. nd = OrigNodes(g)
    <3>1. s.nodes \in NodeLists(g) /\ N <= Len(s.nodes) /\ Len(s.nodes) \in Nat
          /\ \A n \in 1 .. N : s.nodes[n] = OriginalNode(g, n)
      BY LenProperties DEF Removable, GoodNodes, NodeLists
    <3>2. nd \in NodeLists(g) /\ Len(nd) = N /\ \A n \in 1 .. N : nd[n] = s.nodes[n]
      BY <1>1, <2>3, <3>1, SubSeqProperties DEF NodeLists
    <3> HIDE DEF nd
    <3> QED BY <1>1, <3>1, <3>2, SeqEqual DEF NodeLists
  <2>5. rd \in NodeSets /\ rd \subseteq 1 .. N
    <3> HIDE DEF lst
    <3> QED BY <1>1, <2>3 DEF NodeSets
  <2>6. <<>> \in IndexLists /\ Orig(g) \in IndexLists
    BY <1>1 DEF IndexLists
  <2> HIDE DEF nd, rd, q
  <2>7. s \in Subgraphs(g, h)
    BY DEF Removable
  <2>8. q \in Subgraphs(g, h) /\ q.nodes = nd /\ q.plan = Orig(g) /\ q.pre_plan = <<>> /\ q.ready = rd
        /\ q.state = "uninvokable" /\ q.undone = TRUE /\ q.planner = s.planner /\ q.applied = s.applied
        /\ q.next_to_prepare = s.next_to_prepare
    BY <1>1, <2>2, <2>4, <2>5, <2>6, <2>7 DEF Subgraphs, States
  <2> QED BY <1>3, <2>4, <2>5, <2>8 DEF PlanIsBack
<1> QED BY <1>2, <1>3

(* A subgraph without delegates can be prepared.                           *)
LEMMA OrigPreparable ==
    ASSUME NEW g, IsGraph(g), NEW h, NEW s \in Subgraphs(g, h), s.nodes = OrigNodes(g), s.plan = Orig(g),
           s.pre_plan \in {<<>>, Orig(g)}
    PROVE  Preparable(g, h, s)
<1>1. /\ NumOriginal(g) \in Nat /\ Len(Orig(g)) = NumOriginal(g) /\ Len(OrigNodes(g)) = NumOriginal(g)
      /\ \A n \in 1 .. NumOriginal(g) : Orig(g)[n] = n /\ OrigNodes(g)[n] = OriginalNode(g, n)
      /\ Len(<<>>) = 0
  BY GraphFacts
<1>2. \A n \in 1 .. NumOriginal(g) : OrigNodes(g)[n].delegate = NoDelegate
  BY <1>1 DEF OriginalNode
<1> QED BY <1>1, <1>2 DEF Preparable

(* RemoveAllDelegates.                                                     *)
LEMMA RemoveFacts ==
    ASSUME NEW g, IsGraph(g), NEW h, NEW s, Removable(g, h, s), NEW r \in RemoveAllDelegates(g, s)
    PROVE  /\ r.status \in {"ok", "error"} /\ Sound(g, h, r.sg) /\ Restored(g, r.sg)
           /\ r.status = "ok" => r.sg.state = "invokable"
           /\ r.status = "error" => "cpu_prepare" \in g.faults
<1> DEFINE u == UndoAllDelegates(s)
           z == [u EXCEPT !.applied = <<>>, !.undone = FALSE]
<1>1. /\ u \in Subgraphs(g, h)
      /\ u.nodes = OrigNodes(g) /\ u.plan = Orig(g) /\ u.pre_plan = <<>>
      /\ u.ready \subseteq 1 .. NumOriginal(g)
      /\ u.planner = <<>> => u.state = "uninvokable"
  <2>1. PlanIsBack(g, h, s, u)
    BY UndoFacts
  <2> HIDE DEF u, z
  <2> QED BY <2>1 DEF PlanIsBack
<1>2. r \in EnsureMemoryAllocations(g, z)
  BY DEF RemoveAllDelegates
<1> HIDE DEF u
<1>3. /\ z \in Subgraphs(g, h)
      /\ z.nodes = OrigNodes(g) /\ z.plan = Orig(g) /\ z.pre_plan = <<>>
      /\ z.ready \subseteq 1 .. NumOriginal(g)
      /\ z.planner = <<>> => z.state = "uninvokable"
      /\ z.applied = <<>> /\ z.undone = FALSE
  <2>1. <<>> \in DelegateLists
    BY DEF DelegateLists
  <2> QED BY <1>1, <2>1 DEF Subgraphs
<1> HIDE DEF z
<1>4. Preparable(g, h, z)
  BY <1>3, OrigPreparable
<1> DEFINE q == r.sg
<1>5. /\ r.status \in {"ok", "error"} /\ q \in Subgraphs(g, h)
      /\ SameNodes(z, q)
      /\ q.ready \subseteq z.ready \cup 1 .. Len(z.nodes)
      /\ q.planner = <<z.plan>>
      /\ q.next_to_prepare \in 1 .. Len(z.plan) + 1
      /\ r.status = "ok" => q.state = "invokable"
      /\ r.status = "error" => q.state = "uninvokable" /\ Faulty(g, z)
  BY <1>2, <1>3, <1>4, EnsureFacts
<1> HIDE DEF q
<1>6. Restored(g, q)
  BY <1>3, <1>5 DEF Restored, SameNodes
<1>7. Sound(g, h, q)
  <2>1. Len(OrigNodes(g)) = NumOriginal(g) /\ Len(Orig(g)) = NumOriginal(g) /\ NumOriginal(g) \in Nat
        /\ GoodNodes(g, OrigNodes(g)) /\ GoodPlan(g, OrigNodes(g), Orig(g))
    BY GraphFacts, OrigIsGood
  <2>2. Len(<<>>) = 0
    OBVIOUS
  <2>3. q.ready \subseteq 1 .. NumOriginal(g)
    BY <1>3, <1>5, <2>1
  <2>4. q.nodes = OrigNodes(g) /\ q.plan = Orig(g) /\ q.pre_plan = <<>> /\ q.applied = <<>> /\ ~q.undone
        /\ q.planner # <<>> /\ q.state # "immutable"
    BY <1>5, <1>6 DEF Restored
  <2>5. AppliedOrder(q)
    BY <2>2, <2>4 DEF AppliedOrder
  <2> QED BY <1>3, <1>5, <2>1, <2>3, <2>4, <2>5 DEF Sound
<1>8. r.status = "error" => "cpu_prepare" \in g.faults
  BY <1>3, <1>5 DEF Faulty
<1> QED BY <1>5, <1>6, <1>7, <1>8 DEF q

-----------------------------------------------------------------------------
Planned(s) == s.planner = <<>> \/ s.planner = <<s.plan>>

(* A sound subgraph can be prepared, and its delegates can be removed.     *)
LEMMA GoodPreparable ==
    ASSUME NEW g, IsGraph(g), NEW h, NEW s \in Subgraphs(g, h), GoodNodes(g, s.nodes),
           GoodPlan(g, s.nodes, s.plan), s.pre_plan \in {<<>>, Orig(g)},
           s.pre_plan = <<>> => s.nodes = OrigNodes(g)
    PROVE  Preparable(g, h, s)
<1>1. /\ NumOriginal(g) \in Nat /\ Len(Orig(g)) = NumOriginal(g) /\ Len(OrigNodes(g)) = NumOriginal(g)
      /\ \A n \in 1 .. NumOriginal(g) : Orig(g)[n] = n /\ OrigNodes(g)[n] = OriginalNode(g, n)
      /\ Len(<<>>) = 0
  BY GraphFacts
<1>2. \A n \in 1 .. NumOriginal(g) : OrigNodes(g)[n].delegate = NoDelegate
  BY <1>1 DEF OriginalNode
<1>3. NumOriginal(g) <= Len(s.nodes) /\ Len(s.nodes) \in Nat
  BY LenProperties DEF GoodNodes, NodeLists
<1>4. \A k \in 1 .. Len(s.plan) : s.plan[k] \in 1 .. Len(s.nodes)
  BY DEF GoodPlan, WellPlaced
<1>5. \A k \in 1 .. Len(s.pre_plan) : s.pre_plan[k] \in 1 .. Len(s.nodes)
  BY <1>1, <1>3
<1> QED BY <1>1, <1>2, <1>4, <1>5 DEF Preparable

(* What is sound can be prepared and can have its delegates removed.       *)
LEMMA SoundFacts ==
    ASSUME NEW g, IsGraph(g), NEW h, NEW s, Sound(g, h, s)
    PROVE  /\ Preparable(g, h, s) /\ Removable(g, h, s)
           /\ Len(s.plan) \in Nat /\ Len(s.plan) <= NumOriginal(g) /\ NumOriginal(g) \in Nat \ {0}
<1>1. Preparable(g, h, s)
  BY GoodPreparable DEF Sound
<1>2. Removable(g, h, s)
  BY DEF Sound, Removable
<1>3. Len(s.plan) \in Nat /\ Len(s.plan) <= NumOriginal(g)
  BY PlanIsShort DEF Sound, GoodPlan
<1> QED BY <1>1, <1>2, <1>3, GraphFacts

(* What has the same nodes and order of delegates is sound again.          *)
LEMMA StaysSound ==
    ASSUME NEW g, NEW h, NEW s, Sound(g, h, s), NEW q \in Subgraphs(g, h), SameNodes(s, q),
           q.ready \subseteq s.ready \cup 1 .. Len(s.nodes),
           q.planner = <<>> => q.state = "uninvokable",
           q.next_to_prepare \in 1 .. NumOriginal(g) + 1,
           q.state # "uninvokable" => q.next_to_prepare <= Len(s.plan) + 1,
           AppliedOrder(q)
    PROVE  Sound(g, h, q)
<1>1. /\ q.nodes = s.nodes /\ q.plan = s.plan /\ q.pre_plan = s.pre_plan
      /\ q.applied = s.applied /\ q.undone = s.undone
  BY DEF SameNodes
<1>2. /\ GoodNodes(g, s.nodes) /\ GoodPlan(g, s.nodes, s.plan)
      /\ s.ready \subseteq 1 .. Len(s.nodes)
      /\ s.pre_plan \in {<<>>, Orig(g)}
      /\ s.pre_plan = <<>> => s.nodes = OrigNodes(g) /\ s.plan = Orig(g)
      /\ s.pre_plan # <<>> <=> s.applied # <<>> /\ ~s.undone
  BY DEF Sound
<1>3. q.ready \subseteq 1 .. Len(s.nodes)
  BY <1>2
<1> QED BY <1>1, <1>2, <1>3 DEF Sound

(* One delegate more.                                                      *)
LEMMA OneMoreApplied ==
    ASSUME NEW s, AppliedOrder(s), s.applied \in DelegateLists, s.state # "immutable", ~s.undone,
           NEW d \in Delegates, NEW q, q.applied = Append(s.applied, d), ~q.undone,
           q.state = "immutable" <=> d \notin AllowsDynamic
    PROVE  AppliedOrder(q) /\ q.applied # <<>> /\ q.applied \in DelegateLists
<1>1. /\ Len(s.applied) \in Nat /\ q.applied \in DelegateLists
      /\ Len(q.applied) = Len(s.applied) + 1 /\ Len(<<>>) = 0
      /\ \A k \in 1 .. Len(s.applied) : q.applied[k] = s.applied[k]
      /\ q.applied[Len(s.applied) + 1] = d
  BY AppendProperties, LenProperties DEF DelegateLists
<1>2. \A k \in 1 .. Len(s.applied) : s.applied[k] \in AllowsDynamic
  BY DEF AppliedOrder
<1>3. \A k \in 1 .. Len(q.applied) : k \in 1 .. Len(s.applied) \/ k = Len(s.applied) + 1
  BY <1>1
<1>4. q.applied # <<>> /\ q.applied[Len(q.applied)] = d
  <2> DEFINE a == q.applied
             n == Len(s.applied)
  <2>1. n \in Nat /\ Len(a) = n + 1 /\ Len(<<>>) = 0 /\ a[n + 1] = d
    BY <1>1
  <2> HIDE DEF a, n
  <2>2. a # <<>>
    BY <2>1
  <2>3. a[Len(a)] = d
    BY <2>1
  <2> QED BY <2>2, <2>3 DEF a
<1>5. ASSUME NEW k \in 1 .. Len(q.applied), q.applied[k] \notin AllowsDynamic
      PROVE  k = Len(q.applied) /\ q.state = "immutable"
  <2>1. k = Len(s.applied) + 1
    BY <1>1, <1>2, <1>3, <1>5
  <2> QED BY <1>1, <1>5, <2>1
<1> QED BY <1>1, <1>4, <1>5 DEF AppliedOrder

(* The nodes of the model that a delegate is given.                        *)
Claimed(g, s, d) == {n \in g.takes[d] \cap Elements(s.plan) : s.nodes[n].delegate = NoDelegate}

(* The delegate's Prepare.                                                 *)
LEMMA DelegatePrepareFacts ==
    ASSUME NEW g, IsGraph(g), NEW h, NEW s \in Subgraphs(g, h), GoodNodes(g, s.nodes),
           GoodPlan(g, s.nodes, s.plan), NEW d \in Delegates, NEW r \in DelegatePrepare(g, s, d)
    PROVE  /\ r \in Replacing(g, h, s)
           /\ r.status = "ok" => /\ GoodPlan(g, r.sg.nodes, r.sg.plan)
                                 /\ r = ReplaceNodeSubsetsWithDelegateKernels(g, s, d, Claimed(g, s, d))
<1> DEFINE claimed == Claimed(g, s, d)
           replaced == ReplaceNodeSubsetsWithDelegateKernels(g, s, d, claimed)
<1>1. claimed \in SUBSET (1 .. NumOriginal(g))
  <2>1. g.takes \in [Delegates -> SUBSET (1 .. NumOriginal(g))]
    BY DEF IsGraph
  <2> QED BY <2>1 DEF Claimed
<1>2. \/ r = replaced
      \/ r = Outcome("error", s) \/ r = Outcome("error", replaced.sg)
  BY DEF DelegatePrepare, Claimed
<1> HIDE DEF claimed
<1>3. replaced \in Replacing(g, h, s) /\ (replaced.status = "ok" => GoodPlan(g, replaced.sg.nodes, replaced.sg.plan))
  BY <1>1, ReplaceGood
<1> HIDE DEF replaced
<1>4. CASE r = replaced
  BY <1>3, <1>4 DEF replaced, claimed
<1>5. CASE r = Outcome("error", s)
  <2>1. r = [status |-> "error", sg |-> s]
    BY <1>5 DEF Outcome
  <2>2. r.status = "error" /\ r.sg = s /\ r \in [status : {"ok", "error"}, sg : Subgraphs(g, h)]
    BY <2>1
  <2>3. OnlyReplaced(s, s)
    BY DEF OnlyReplaced
  <2>4. Extends(s.nodes, s.nodes)
    <3>1. Len(s.nodes) \in Nat
      BY LenProperties DEF GoodNodes, NodeLists
    <3> QED BY <3>1 DEF Extends
  <2> QED BY <2>2, <2>3, <2>4 DEF Replacing
<1>6. CASE r = Outcome("error", replaced.sg)
  <2>1. r = [status |-> "error", sg |-> replaced.sg]
    BY <1>6 DEF Outcome
  <2>2. r.status = "error" /\ r.sg = replaced.sg /\ r \in [status : {"ok", "error"}, sg : Subgraphs(g, h)]
    BY <1>3, <2>1 DEF Replacing
  <2> QED BY <1>3, <2>2 DEF Replacing
<1> QED BY <1>2, <1>4, <1>5, <1>6

(* reset_delegation_if_not_ok.                                             *)
LEMMA ResetFacts ==
    ASSUME NEW g, IsGraph(g), NEW h, NEW s, Removable(g, h, s), NEW r \in ResetDelegation(g, s)
    PROVE  /\ r.status \in {"delegate_error", "error"} /\ Sound(g, h, r.sg) /\ Restored(g, r.sg)
           /\ r.status = "delegate_error" => r.sg.state = "invokable"
           /\ r.status = "error" => "cpu_prepare" \in g.faults
<1>1. PICK q \in RemoveAllDelegates(g, s) : r = IF q.status = "ok" THEN Outcome("delegate_error", q.sg) ELSE q
  BY DEF ResetDelegation
<1>2. /\ q.status \in {"ok", "error"} /\ Sound(g, h, q.sg) /\ Restored(g, q.sg)
      /\ q.status = "ok" => q.sg.state = "invokable"
      /\ q.status = "error" => "cpu_prepare" \in g.faults
  BY <1>1, RemoveFacts
<1>3. CASE q.status = "ok"
  <2>1. r = [status |-> "delegate_error", sg |-> q.sg]
    BY <1>1, <1>3 DEF Outcome
  <2>2. r.status = "delegate_error" /\ r.sg = q.sg
    BY <2>1
  <2> QED BY <1>2, <1>3, <2>2
<1>4. CASE q.status # "ok"
  BY <1>1, <1>2, <1>4
<1> QED BY <1>3, <1>4

-----------------------------------------------------------------------------
(* q is s with nodes replaced by those of a delegate.                      *)
Delegated(g, h, s, q) ==
    /\ q \in Subgraphs(g, h)
    /\ GoodNodes(g, q.nodes) /\ GoodPlan(g, q.nodes, q.plan)
    /\ q.ready \subseteq 1 .. Len(q.nodes)
    /\ q.pre_plan = Orig(g) /\ q.applied = s.applied /\ ~q.undone
    /\ q.planner = s.planner /\ q.next_to_prepare = s.next_to_prepare
    /\ q.state \in {s.state, "uninvokable"}

(* What becomes of s if its delegate d is in place, or is not.             *)
Finished(g, h, s, d, r) ==
    /\ r.status \in {"ok", "delegate_error", "error"}
    /\ Sound(g, h, r.sg) /\ ~r.sg.undone
    /\ s.planner # <<>> => r.sg.planner # <<>>
    /\ r.status = "ok" =>
          /\ r.sg.applied = Append(s.applied, d)
          /\ r.sg.state = IF d \in AllowsDynamic THEN s.state ELSE "immutable"
          /\ d \notin AllowsDynamic \/ s.state = "invokable" \/ s.planner = <<>> => Planned(r.sg)
          /\ r.sg.state = "uninvokable" => r.sg.planner = s.planner
    /\ r.status # "ok" => Restored(g, r.sg)
    /\ r.status = "delegate_error" => r.sg.state = "invokable"
    /\ r.status = "error" => "cpu_prepare" \in g.faults

(* A delegate's nodes are in place, and memory is planned if it has to be. *)
LEMMA AppliedSound ==
    ASSUME NEW g, IsGraph(g), NEW h, NEW s, Sound(g, h, s), ~s.undone, s.state # "immutable",
           NEW d \in Delegates, NEW x \in Subgraphs(g, h),
           GoodNodes(g, x.nodes), GoodPlan(g, x.nodes, x.plan), x.ready \subseteq 1 .. Len(x.nodes),
           x.pre_plan = Orig(g), x.applied = Append(s.applied, d), ~x.undone,
           x.planner = <<>> => x.state = "uninvokable",
           x.next_to_prepare \in 1 .. NumOriginal(g) + 1,
           x.state # "uninvokable" => x.next_to_prepare <= Len(x.plan) + 1,
           x.state = "immutable" <=> d \notin AllowsDynamic
    PROVE  Sound(g, h, x)
<1>1. s.applied \in DelegateLists /\ AppliedOrder(s)
  BY DEF Sound, Subgraphs
<1>2. AppliedOrder(x) /\ x.applied # <<>>
  BY <1>1, OneMoreApplied
<1>3. Orig(g) # <<>>
  BY GraphFacts
<1> QED BY <1>2, <1>3 DEF Sound

(* A delegation that failed and is taken back ends as a delegation may     *)
(* end.                                                                    *)
LEMMA ResetFinishes ==
    ASSUME NEW g, IsGraph(g), NEW h, NEW s, NEW q, Removable(g, h, q), NEW d, NEW r \in ResetDelegation(g, q)
    PROVE  Finished(g, h, s, d, r)
<1>1. /\ r.status \in {"delegate_error", "error"} /\ Sound(g, h, r.sg) /\ Restored(g, r.sg)
      /\ r.status = "delegate_error" => r.sg.state = "invokable"
      /\ r.status = "error" => "cpu_prepare" \in g.faults
  BY ResetFacts
<1>2. ~r.sg.undone /\ r.sg.planner # <<>>
  BY <1>1 DEF Restored
<1> QED BY <1>1, <1>2 DEF Finished

(* The part that plans memory.                                             *)
AfterEnsured(g, e, st, d, r) ==
    IF e.status = "ok"
    THEN r = Outcome("ok", [[e.sg EXCEPT !.state = st] EXCEPT !.applied = Append(@, d)])
    ELSE r \in ResetDelegation(g, e.sg)

(* The end of a delegation after the memory is planned.                    *)
LEMMA EnsuredFinishes ==
    ASSUME NEW g, IsGraph(g), NEW h, NEW s, Sound(g, h, s), ~s.undone, s.state # "immutable",
           NEW d \in Delegates, NEW q, Delegated(g, h, s, q), q.planner = <<>> => q.state = "uninvokable",
           NEW st \in {"invokable", "immutable"}, st = "immutable" <=> d \notin AllowsDynamic,
           st = "invokable" => s.state = "invokable",
           NEW e \in EnsureMemoryAllocations(g, q), NEW r, AfterEnsured(g, e, st, d, r)
    PROVE  /\ Finished(g, h, s, d, r)
           /\ r.status = "ok" => r.sg.nodes = q.nodes /\ r.sg.plan = q.plan
<1>0. /\ q \in Subgraphs(g, h) /\ GoodNodes(g, q.nodes) /\ GoodPlan(g, q.nodes, q.plan)
      /\ q.ready \subseteq 1 .. Len(q.nodes)
      /\ q.pre_plan = Orig(g) /\ q.applied = s.applied /\ ~q.undone
  BY DEF Delegated
<1>1. Orig(g) # <<>> /\ NumOriginal(g) \in Nat
  BY GraphFacts
<1>2. Preparable(g, h, q)
  BY <1>0, <1>1, GoodPreparable
<1> DEFINE y == e.sg
<1>3. /\ e.status \in {"ok", "error"} /\ y \in Subgraphs(g, h)
      /\ SameNodes(q, y)
      /\ y.ready \subseteq q.ready \cup 1 .. Len(q.nodes)
      /\ y.planner = <<q.plan>>
      /\ y.next_to_prepare \in 1 .. Len(q.plan) + 1
  BY <1>2, EnsureFacts
<1> HIDE DEF y
<1>4. /\ y.nodes = q.nodes /\ y.plan = q.plan /\ y.pre_plan = Orig(g) /\ y.applied = s.applied
      /\ ~y.undone /\ y.ready \subseteq 1 .. Len(y.nodes)
  BY <1>0, <1>3 DEF SameNodes
<1>5. CASE e.status = "ok"
  <2> DEFINE ap == Append(s.applied, d)
             x == [[y EXCEPT !.state = st] EXCEPT !.applied = Append(@, d)]
  <2>1. ap \in DelegateLists
    <3>1. s.applied \in Seq(Delegates)
      BY DEF Sound, Subgraphs, DelegateLists
    <3> QED BY <3>1, AppendProperties DEF DelegateLists
  <2>2. r = [status |-> "ok", sg |-> x]
    BY <1>5 DEF Outcome, y, AfterEnsured
  <2>3. x = [y EXCEPT !.state = st, !.applied = ap]
    <3>1. y.applied = s.applied
      BY <1>4
    <3> QED BY <1>3, <3>1 DEF Subgraphs
  <2> HIDE DEF ap, x
  <2>4. /\ x \in Subgraphs(g, h) /\ x.nodes = q.nodes /\ x.plan = q.plan /\ x.pre_plan = Orig(g)
        /\ x.applied = ap /\ x.state = st /\ ~x.undone /\ x.ready = y.ready
        /\ x.planner = y.planner /\ x.next_to_prepare = y.next_to_prepare
    BY <1>3, <1>4, <2>1, <2>3 DEF Subgraphs, States
  <2>5. x.planner = <<x.plan>> /\ x.planner # <<>> /\ Planned(x)
    BY <1>3, <2>4 DEF Planned
  <2>6. Len(x.plan) \in Nat /\ Len(x.plan) <= NumOriginal(g)
    BY <1>0, <2>4, PlanIsShort DEF GoodPlan
  <2>7. /\ x.next_to_prepare \in 1 .. NumOriginal(g) + 1
        /\ x.next_to_prepare <= Len(x.plan) + 1
    BY <1>1, <1>3, <2>4, <2>6
  <2>8. x.ready \subseteq 1 .. Len(x.nodes)
    BY <1>4, <2>4
  <2>9. Sound(g, h, x)
    BY <1>0, <2>4, <2>5, <2>7, <2>8, AppliedSound DEF ap
  <2>10. r.status = "ok" /\ r.sg = x
    BY <2>2
  <2>11. x.state = IF d \in AllowsDynamic THEN s.state ELSE "immutable"
    BY <2>4
  <2> QED BY <2>4, <2>5, <2>9, <2>10, <2>11 DEF Finished, ap
<1>6. CASE e.status # "ok"
  <2>1. Removable(g, h, y)
    <3>1. GoodNodes(g, y.nodes) /\ y.planner # <<>>
      BY <1>0, <1>3, <1>4
    <3> QED BY <1>1, <1>3, <1>4, <3>1 DEF Removable
  <2>2. r \in ResetDelegation(g, y)
    BY <1>6 DEF y, AfterEnsured
  <2>3. r.status # "ok"
    BY <2>1, <2>2, ResetFacts
  <2> QED BY <2>1, <2>2, <2>3, ResetFinishes
<1> QED BY <1>5, <1>6

(* The end of a delegation, whether it worked or not.                      *)
LEMMA FinishFacts ==
    ASSUME NEW g, IsGraph(g), NEW h, NEW s, Sound(g, h, s), ~s.undone, s.state # "immutable",
           NEW d \in Delegates, NEW q, Delegated(g, h, s, q),
           NEW r \in FinishDelegation(g, q, d, s.state = "invokable")
    PROVE  /\ Finished(g, h, s, d, r)
           /\ r.status = "ok" => r.sg.nodes = q.nodes /\ r.sg.plan = q.plan
<1>0. /\ q \in Subgraphs(g, h) /\ GoodNodes(g, q.nodes) /\ GoodPlan(g, q.nodes, q.plan)
      /\ q.ready \subseteq 1 .. Len(q.nodes)
      /\ q.pre_plan = Orig(g) /\ q.applied = s.applied /\ ~q.undone
      /\ q.planner = s.planner /\ q.next_to_prepare = s.next_to_prepare
      /\ q.state \in {s.state, "uninvokable"}
      /\ s.planner = <<>> => s.state = "uninvokable"
      /\ s.next_to_prepare \in 1 .. NumOriginal(g) + 1
      /\ s.state \in States
  BY DEF Delegated, Sound, Subgraphs
<1>1. CASE d \notin AllowsDynamic
  <2> DEFINE z == [q EXCEPT !.state = "uninvokable"]
  <2>1. z.state = "uninvokable" /\ Delegated(g, h, s, z) /\ z.nodes = q.nodes /\ z.plan = q.plan
    BY <1>0 DEF Delegated, Subgraphs, States
  <2> HIDE DEF z
  <2>2. PICK e \in EnsureMemoryAllocations(g, z) :
           AfterEnsured(g, e, "immutable", d, r)
    BY <1>1 DEF FinishDelegation, AfterEnsured, z
  <2>3. "immutable" \in {"invokable", "immutable"} /\ "immutable" # "invokable"
    OBVIOUS
  <2>4. z.planner = <<>> => z.state = "uninvokable"
    BY <2>1
  <2> QED BY <2>3, <2>4, <1>1, <2>1, <2>2, EnsuredFinishes
<1>2. CASE d \in AllowsDynamic /\ s.state = "invokable"
  <2>1. PICK e \in EnsureMemoryAllocations(g, q) :
           AfterEnsured(g, e, "invokable", d, r)
    BY <1>2 DEF FinishDelegation, AfterEnsured
  <2>2. q.planner = <<>> => q.state = "uninvokable"
    BY <1>0
  <2>3. "invokable" \in {"invokable", "immutable"} /\ "immutable" # "invokable"
    OBVIOUS
  <2> QED BY <2>3, <1>2, <2>1, <2>2, EnsuredFinishes
<1>3. CASE d \in AllowsDynamic /\ s.state # "invokable"
  <2> DEFINE ap == Append(s.applied, d)
             x == [q EXCEPT !.applied = ap]
  <2>1. ap \in DelegateLists
    <3>1. s.applied \in Seq(Delegates)
      BY DEF Sound, Subgraphs, DelegateLists
    <3> QED BY <3>1, AppendProperties DEF DelegateLists
  <2>2. r = [status |-> "ok", sg |-> x]
    BY <1>0, <1>3 DEF FinishDelegation, Outcome
  <2>3. s.state = "uninvokable" /\ q.state = "uninvokable"
    BY <1>0, <1>3 DEF States
  <2> HIDE DEF ap
  <2>4. /\ x \in Subgraphs(g, h) /\ x.nodes = q.nodes /\ x.plan = q.plan /\ x.pre_plan = Orig(g)
        /\ x.applied = ap /\ x.state = "uninvokable" /\ ~x.undone /\ x.ready = q.ready
        /\ x.planner = s.planner /\ x.next_to_prepare = s.next_to_prepare
    BY <1>0, <2>1, <2>3 DEF Subgraphs, States
  <2> HIDE DEF x
  <2>5. Sound(g, h, x)
    BY <1>0, <1>3, <2>4, AppliedSound DEF ap
  <2>6. s.planner = <<>> => Planned(x)
    BY <2>4 DEF Planned
  <2>7. r.status = "ok" /\ r.sg = x
    BY <2>2
  <2> QED BY <1>3, <2>3, <2>4, <2>5, <2>6, <2>7 DEF Finished, ap
<1> QED BY <1>1, <1>2, <1>3

-----------------------------------------------------------------------------
(* From these nodes and this plan, the nodes that d takes lead to those.   *)
TakesTo(g, h, nodes, plan, d, nodes1, plan1) ==
    \E s \in Subgraphs(g, h) :
        /\ s.nodes = nodes /\ s.plan = plan
        /\ LET r == ReplaceNodeSubsetsWithDelegateKernels(g, s, d, Claimed(g, s, d))
           IN  r.status = "ok" /\ r.sg.nodes = nodes1 /\ r.sg.plan = plan1

(* ApplyDelegate on a subgraph that is not delegated all the way yet.      *)
LEMMA ApplyPreparedFacts ==
    ASSUME NEW g, IsGraph(g), NEW h, NEW s, Sound(g, h, s), ~s.undone, s.state # "immutable",
           NEW d \in Delegates, NEW r \in ApplyPrepared(g, s, d)
    PROVE  /\ Finished(g, h, s, d, r)
           /\ r.status = "ok" => TakesTo(g, h, s.nodes, s.plan, d, r.sg.nodes, r.sg.plan)
<1> DEFINE z == IF s.applied = <<>> THEN [s EXCEPT !.pre_plan = s.plan] ELSE s
<1>0. /\ s \in Subgraphs(g, h) /\ GoodNodes(g, s.nodes) /\ GoodPlan(g, s.nodes, s.plan)
      /\ s.ready \subseteq 1 .. Len(s.nodes)
      /\ s.pre_plan \in {<<>>, Orig(g)}
      /\ s.pre_plan = <<>> => s.plan = Orig(g)
      /\ s.pre_plan # <<>> <=> s.applied # <<>>
      /\ s.planner = <<>> => s.state = "uninvokable"
  BY DEF Sound
<1>1. Orig(g) # <<>> /\ Orig(g) \in IndexLists
  BY GraphFacts DEF IndexLists
<1>2. /\ z \in Subgraphs(g, h) /\ z.nodes = s.nodes /\ z.plan = s.plan /\ z.pre_plan = Orig(g)
      /\ z.applied = s.applied /\ z.undone = s.undone /\ z.planner = s.planner
      /\ z.next_to_prepare = s.next_to_prepare /\ z.ready = s.ready /\ z.state = s.state
  <2>1. CASE s.applied = <<>>
    <3>1. z = [s EXCEPT !.pre_plan = Orig(g)]
      BY <1>0, <2>1
    <3> HIDE DEF z
    <3> QED BY <1>0, <1>1, <3>1 DEF Subgraphs
  <2>2. CASE s.applied # <<>>
    BY <1>0, <2>2
  <2> QED BY <2>1, <2>2
<1>3. PICK q \in DelegatePrepare(g, z, d) :
         r \in IF q.status = "ok" THEN FinishDelegation(g, q.sg, d, s.state = "invokable")
                                  ELSE ResetDelegation(g, q.sg)
  BY DEF ApplyPrepared
<1> HIDE DEF z
<1>4. GoodNodes(g, z.nodes) /\ GoodPlan(g, z.nodes, z.plan)
  BY <1>0, <1>2
<1>5. /\ q \in Replacing(g, h, z)
      /\ q.status = "ok" => /\ GoodPlan(g, q.sg.nodes, q.sg.plan)
                            /\ q = ReplaceNodeSubsetsWithDelegateKernels(g, z, d, Claimed(g, z, d))
  BY <1>2, <1>3, <1>4, DelegatePrepareFacts
<1>6. /\ q.sg \in Subgraphs(g, h) /\ OnlyReplaced(z, q.sg) /\ q.sg.state \in {z.state, "uninvokable"}
      /\ GoodNodes(g, q.sg.nodes) /\ Extends(z.nodes, q.sg.nodes)
  BY <1>5 DEF Replacing
<1>7. /\ q.sg.pre_plan = Orig(g) /\ q.sg.applied = s.applied /\ ~q.sg.undone
      /\ q.sg.planner = s.planner /\ q.sg.next_to_prepare = s.next_to_prepare
      /\ q.sg.ready \subseteq 1 .. Len(q.sg.nodes)
  <2>1. 1 .. Len(z.nodes) \subseteq 1 .. Len(q.sg.nodes)
    BY <1>6 DEF Extends
  <2> QED BY <1>0, <1>2, <1>6, <2>1 DEF OnlyReplaced
<1>8. CASE q.status = "ok"
  <2> DEFINE y == q.sg
  <2>1. Delegated(g, h, s, y)
    BY <1>2, <1>5, <1>6, <1>7, <1>8 DEF Delegated
  <2>2. r \in FinishDelegation(g, y, d, s.state = "invokable")
    BY <1>3, <1>8
  <2>3. TakesTo(g, h, s.nodes, s.plan, d, y.nodes, y.plan)
    BY <1>2, <1>5, <1>8 DEF TakesTo
  <2> HIDE DEF y
  <2> QED BY <2>1, <2>2, <2>3, FinishFacts
<1>9. CASE q.status # "ok"
  <2> DEFINE y == q.sg
  <2>1. r \in ResetDelegation(g, y)
    BY <1>3, <1>9
  <2>2. Removable(g, h, y)
    BY <1>0, <1>1, <1>2, <1>6, <1>7 DEF Removable
  <2> HIDE DEF y
  <2>3. r.status # "ok"
    BY <2>1, <2>2, ResetFacts
  <2> QED BY <2>1, <2>2, <2>3, ResetFinishes
<1> QED BY <1>8, <1>9

-----------------------------------------------------------------------------
(* No node of the plan has dynamic outputs.                                *)
PlanIsStatic(g, s) == \A k \in 1 .. Len(s.plan) : ~HasDynamicOutputs(g, s, s.plan[k])

(* What ModifyGraphWithDelegate gives.                                     *)
Applies(g, h, s, d, r) ==
    /\ r.status \in {"ok", "delegate_error", "application_error", "error"}
    /\ Sound(g, h, r.sg) /\ ~r.sg.undone
    /\ s.planner # <<>> => r.sg.planner # <<>>
    /\ r.status = "ok" =>
          /\ s.state # "immutable"
          /\ r.sg.applied = Append(s.applied, d)
          /\ r.sg.state = IF d \in AllowsDynamic THEN s.state ELSE "immutable"
          /\ d \notin AllowsDynamic \/ s.state = "invokable" \/ s.planner = <<>> => Planned(r.sg)
          /\ r.sg.state = "uninvokable" => r.sg.planner = s.planner
          /\ d \notin AllowsDynamic => PlanIsStatic(g, s)
          /\ TakesTo(g, h, s.nodes, s.plan, d, r.sg.nodes, r.sg.plan)
    /\ r.status = "delegate_error" => Restored(g, r.sg) /\ r.sg.state = "invokable"
    /\ r.status = "application_error" =>
          \/ s.state = "immutable" /\ r.sg = s
          \/ /\ d \notin AllowsDynamic /\ ~PlanIsStatic(g, s)
             /\ SameNodes(s, r.sg) /\ r.sg.state = "invokable" /\ Planned(r.sg)
    /\ r.status = "error" => /\ Faulty(g, s) /\ s.state # "immutable" /\ r.sg.state # "immutable"
                             /\ Restored(g, r.sg) \/ SameNodes(s, r.sg)

(* A delegate that is neither waiting for others to be redone nor too late.*)
LEMMA FinishedApplies ==
    ASSUME NEW g, NEW h, NEW s, s.state # "immutable", NEW d, NEW r, Finished(g, h, s, d, r),
           d \notin AllowsDynamic => PlanIsStatic(g, s),
           r.status = "ok" => TakesTo(g, h, s.nodes, s.plan, d, r.sg.nodes, r.sg.plan)
    PROVE  Applies(g, h, s, d, r)
  BY DEF Finished, Applies, Faulty, Restored

(* The nodes are prepared for a delegate that refuses dynamic tensors.     *)
LEMMA PreparedSound ==
    ASSUME NEW g, IsGraph(g), NEW h, NEW s, Sound(g, h, s), NEW q \in Prepared(g, h, s)
    PROVE  /\ Sound(g, h, q) /\ SameNodes(s, q) /\ q.state = s.state /\ q.planner = s.planner
           /\ q \in Subgraphs(g, h)
<1>1. /\ q \in Subgraphs(g, h) /\ SameNodes(s, q) /\ q.state = s.state /\ q.planner = s.planner
      /\ q.next_to_prepare = s.next_to_prepare
      /\ q.ready \subseteq s.ready \cup 1 .. Len(s.nodes)
  BY DEF Prepared, OnlyPrepared
<1>2. AppliedOrder(q)
  <2>1. AppliedOrder(s) /\ q.applied = s.applied /\ q.undone = s.undone
    BY <1>1 DEF Sound, SameNodes
  <2> QED BY <1>1, <2>1 DEF AppliedOrder
<1>3. /\ q.planner = <<>> => q.state = "uninvokable"
      /\ q.next_to_prepare \in 1 .. NumOriginal(g) + 1
      /\ q.state # "uninvokable" => q.next_to_prepare <= Len(s.plan) + 1
  BY <1>1 DEF Sound
<1> QED BY <1>1, <1>2, <1>3, StaysSound

-----------------------------------------------------------------------------
(* Planning the memory of a subgraph keeps it sound.                       *)
LEMMA EnsuredSound ==
    ASSUME NEW g, IsGraph(g), NEW h, NEW s, Sound(g, h, s), ~s.undone, s.state # "immutable",
           NEW r \in EnsureMemoryAllocations(g, s)
    PROVE  /\ r.status \in {"ok", "error"} /\ Sound(g, h, r.sg) /\ SameNodes(s, r.sg)
           /\ r.sg.planner = <<s.plan>>
           /\ r.status = "ok" => r.sg.state = "invokable"
           /\ r.status = "error" => r.sg.state = "uninvokable" /\ Faulty(g, s)
<1> DEFINE y == r.sg
<1>1. Preparable(g, h, s) /\ (s.planner = <<>> => s.state = "uninvokable")
      /\ Len(s.plan) \in Nat /\ Len(s.plan) <= NumOriginal(g) /\ NumOriginal(g) \in Nat
  BY SoundFacts DEF Sound
<1>2. /\ r.status \in {"ok", "error"} /\ y \in Subgraphs(g, h)
      /\ SameNodes(s, y)
      /\ y.ready \subseteq s.ready \cup 1 .. Len(s.nodes)
      /\ y.planner = <<s.plan>>
      /\ y.next_to_prepare \in 1 .. Len(s.plan) + 1
      /\ r.status = "ok" => y.state = "invokable"
      /\ r.status = "error" => y.state = "uninvokable" /\ Faulty(g, s)
  BY <1>1, EnsureFacts
<1> HIDE DEF y
<1>3. AppliedOrder(y)
  <2>1. AppliedOrder(s) /\ y.applied = s.applied /\ y.undone = s.undone
    BY <1>2 DEF Sound, SameNodes
  <2>2. y.state \in {"invokable", "uninvokable"}
    BY <1>2
  <2> QED BY <2>1, <2>2 DEF AppliedOrder
<1>4. y.planner # <<>> /\ y.next_to_prepare \in 1 .. NumOriginal(g) + 1
      /\ y.next_to_prepare <= Len(s.plan) + 1
  BY <1>1, <1>2
<1>5. Sound(g, h, y)
  BY <1>2, <1>3, <1>4, StaysSound
<1> QED BY <1>2, <1>5 DEF y

(* ModifyGraphWithDelegate behind RedoAllDelegates.                        *)
LEMMA ApplyFacts ==
    ASSUME NEW g, IsGraph(g), NEW h, NEW s, Sound(g, h, s), ~s.undone,
           NEW d \in Delegates, NEW r \in ApplyDelegate(g, s, d)
    PROVE  Applies(g, h, s, d, r)
<1>1. CASE s.state = "immutable"
  <2>1. r = [status |-> "application_error", sg |-> s]
    BY <1>1 DEF ApplyDelegate, Outcome
  <2>2. r.status = "application_error" /\ r.sg = s
    BY <2>1
  <2> QED BY <1>1, <2>2 DEF Applies
<1>2. CASE s.state # "immutable" /\ d \in AllowsDynamic
  <2>1. r \in ApplyPrepared(g, s, d)
    BY <1>2 DEF ApplyDelegate
  <2>2. /\ Finished(g, h, s, d, r)
        /\ r.status = "ok" => TakesTo(g, h, s.nodes, s.plan, d, r.sg.nodes, r.sg.plan)
    BY <1>2, <2>1, ApplyPreparedFacts
  <2> QED BY <1>2, <2>2, FinishedApplies
<1>3. CASE s.state # "immutable" /\ d \notin AllowsDynamic
  <2>1. PICK p \in PrepareOpsStartingAt(g, s, 1, s.plan) :
           IF p.status = "ok"
           THEN IF p.sg.has_dynamic
                THEN \E e \in EnsureMemoryAllocations(g, p.sg) :
                        r = IF e.status = "ok" THEN Outcome("application_error", e.sg) ELSE e
                ELSE r \in ApplyPrepared(g, p.sg, d)
           ELSE r = Outcome(p.status, p.sg)
    BY <1>3 DEF ApplyDelegate, Then
  <2>2. /\ s \in Subgraphs(g, h) /\ s.plan \in Seq(Nat) /\ 1 \in 1 .. Len(s.plan) + 1
        /\ \A k \in 1 .. Len(s.plan) : s.plan[k] \in 1 .. Len(s.nodes)
        /\ Preparable(g, h, s)
    <3>1. Preparable(g, h, s) /\ Len(s.plan) \in Nat
      BY SoundFacts
    <3>2. s \in Subgraphs(g, h) /\ \A k \in 1 .. Len(s.plan) : s.plan[k] \in 1 .. Len(s.nodes)
      BY <3>1 DEF Preparable
    <3>3. s.plan \in Seq(Nat)
      BY <3>2 DEF Subgraphs, IndexLists
    <3> QED BY <3>1, <3>2, <3>3
  <2> DEFINE q == p.sg
  <2>3. /\ q \in Prepared(g, h, s) /\ p.status \in {"ok", "error"}
        /\ p.status = "error" => \E k \in 1 .. Len(s.plan) : PrepareMayFail(g, s.nodes[s.plan[k]])
        /\ p.status = "ok" =>
              (q.has_dynamic <=> \E k \in 1 .. Len(s.plan) : HasDynamicOutputs(g, s, s.plan[k]))
    BY <2>1, <2>2, PrepareOpsFacts
  <2>4. Sound(g, h, q) /\ SameNodes(s, q) /\ q.state = s.state /\ q.planner = s.planner
    BY <2>3, PreparedSound
  <2>5. /\ q.nodes = s.nodes /\ q.plan = s.plan /\ q.pre_plan = s.pre_plan /\ q.applied = s.applied
        /\ ~q.undone
    BY <2>4 DEF SameNodes
  <2>6. CASE p.status # "ok"
    <3>1. r = [status |-> "error", sg |-> q]
      BY <2>1, <2>3, <2>6 DEF Outcome
    <3> HIDE DEF q
    <3>2. r.status = "error" /\ r.sg = q
      BY <3>1
    <3>3. Faulty(g, s)
      BY <2>2, <2>3, <2>6, FaultyNodes
    <3> QED BY <1>3, <2>4, <2>5, <3>2, <3>3 DEF Applies
  <2>7. CASE p.status = "ok" /\ q.has_dynamic
    <3>1. PICK e \in EnsureMemoryAllocations(g, q) :
             r = IF e.status = "ok" THEN Outcome("application_error", e.sg) ELSE e
      BY <2>1, <2>7
    <3> HIDE DEF q
    <3> DEFINE y == e.sg
    <3>2. /\ e.status \in {"ok", "error"} /\ Sound(g, h, y) /\ SameNodes(q, y)
          /\ y.planner = <<q.plan>>
          /\ e.status = "ok" => y.state = "invokable"
          /\ e.status = "error" => y.state = "uninvokable" /\ Faulty(g, q)
      BY <1>3, <2>4, <2>5, <3>1, EnsuredSound
    <3>3. r.status = (IF e.status = "ok" THEN "application_error" ELSE "error") /\ r.sg = y
      <4>1. CASE e.status = "ok"
        <5>1. r = [status |-> "application_error", sg |-> y]
          BY <3>1, <4>1 DEF Outcome
        <5> QED BY <4>1, <5>1
      <4>2. CASE e.status # "ok"
        BY <3>1, <3>2, <4>2
      <4> QED BY <4>1, <4>2
    <3> HIDE DEF y
    <3>4. ~PlanIsStatic(g, s)
      BY <2>3, <2>7 DEF PlanIsStatic
    <3>5. SameNodes(s, y) /\ ~y.undone /\ Planned(y) /\ y.planner # <<>>
      BY <2>4, <2>5, <3>2 DEF SameNodes, Planned
    <3>6. Faulty(g, q) => Faulty(g, s)
      BY <2>5 DEF Faulty
    <3> QED BY <1>3, <3>2, <3>3, <3>4, <3>5, <3>6 DEF Applies
  <2>8. CASE p.status = "ok" /\ ~q.has_dynamic
    <3>1. r \in ApplyPrepared(g, q, d)
      BY <2>1, <2>8
    <3>2. PlanIsStatic(g, s)
      BY <2>3, <2>8 DEF PlanIsStatic
    <3> HIDE DEF q
    <3>3. /\ Finished(g, h, q, d, r)
          /\ r.status = "ok" => TakesTo(g, h, q.nodes, q.plan, d, r.sg.nodes, r.sg.plan)
      BY <1>3, <2>4, <2>5, <3>1, ApplyPreparedFacts
    <3>4. Finished(g, h, s, d, r)
      BY <2>4, <2>5, <3>3 DEF Finished
    <3>5. r.status = "ok" => TakesTo(g, h, s.nodes, s.plan, d, r.sg.nodes, r.sg.plan)
      BY <2>5, <3>3
    <3> QED BY <1>3, <3>2, <3>4, <3>5, FinishedApplies
  <2> QED BY <2>6, <2>7, <2>8
<1> QED BY <1>1, <1>2, <1>3

-----------------------------------------------------------------------------
(* A node that has its outputs sized by its kernel, or has them sized.     *)
Sizable(g, s, n) == SizesOutputs(s.nodes[n]) \/ s.nodes[n].outputs \ g.dynamic \subseteq s.shaped

(* A node that is prepared for the shapes of now, and whose outputs have   *)
(* theirs as far as they can have one before it runs.                      *)
PreparedNode(g, s, n) == n \in s.ready /\ s.nodes[n].outputs \ g.dynamic \subseteq s.shaped

Grows(s, q) == s.shaped \subseteq q.shaped /\ s.ready \subseteq q.ready

(* Inputs of the graph keep their shapes, and a node that finds right      *)
(* shapes makes right ones.                                                *)
LEMMA NodeFits ==
    ASSUME NEW g, NEW h, NEW s \in Subgraphs(g, h), NEW n \in 1 .. Len(s.nodes)
    PROVE  LET q == PrepareNode(g, s, n)
           IN  /\ g.in \subseteq s.shaped /\ g.in \cap s.nodes[n].outputs = {} => g.in \subseteq q.shaped
               /\ s.nodes[n].inputs \subseteq s.shaped /\ Sizable(g, s, n)
                    => Grows(s, q) /\ PreparedNode(g, q, n)
<1> DEFINE q == PrepareNode(g, s, n)
           sized == s.nodes[n].outputs \ g.dynamic
           right == s.nodes[n].inputs \subseteq s.shaped
<1>1. q.nodes = s.nodes
  BY PrepareNodeFrame DEF Prepared, OnlyPrepared, SameNodes
<1>2. /\ SizesOutputs(s.nodes[n]) => /\ q.shaped = IF right THEN s.shaped \cup sized ELSE s.shaped \ sized
                                     /\ q.ready = IF right THEN s.ready \cup {n} ELSE s.ready \ {n}
      /\ ~SizesOutputs(s.nodes[n]) =>
            /\ q.shaped = s.shaped
            /\ right /\ sized \subseteq s.shaped => q.ready = s.ready \cup {n}
  BY DEF PrepareNode, Subgraphs
<1> HIDE DEF q
<1>3. g.in \subseteq s.shaped /\ g.in \cap s.nodes[n].outputs = {} => g.in \subseteq q.shaped
  BY <1>2
<1>4. right /\ Sizable(g, s, n) => Grows(s, q) /\ PreparedNode(g, q, n)
  BY <1>1, <1>2 DEF Sizable, Grows, PreparedNode
<1> QED BY <1>3, <1>4 DEF q

(* No node of a plan writes an input of the graph.                         *)
LEMMA InputsUnwritten ==
    ASSUME NEW g, IsGraph(g), NEW nodes, NEW n, GoodNode(g, nodes[n])
    PROVE  g.in \cap nodes[n].outputs = {} /\ nodes[n].outputs \subseteq WritesOf(g.writes, 1 .. NumOriginal(g))
<1> DEFINE ns == Elements(nodes[n].runs)
<1>1. ns \subseteq 1 .. NumOriginal(g) /\ nodes[n].outputs \subseteq WritesOf(g.writes, ns)
  BY DEF GoodNode
<1> HIDE DEF ns
<1>2. WritesOf(g.writes, ns) \cap g.in = {}
  <2>1. ns \in SUBSET (1 .. NumOriginal(g)) /\ {} \in SUBSET (1 .. NumOriginal(g)) /\ ns \cap {} = {}
    BY <1>1
  <2> QED BY <2>1, OneWriter
<1>3. WritesOf(g.writes, ns) \subseteq WritesOf(g.writes, 1 .. NumOriginal(g))
  BY <1>1 DEF WritesOf
<1> QED BY <1>1, <1>2, <1>3

-----------------------------------------------------------------------------
(* Every node that PrepareOpsStartingAt comes to can have its outputs      *)
(* sized: it does not come behind one with dynamic outputs.                *)
SizableFrom(g, s, first, plan) ==
    \A k \in first .. Len(plan) :
        Sizable(g, s, plan[k]) \/ \E j \in first .. k - 1 : HasDynamicOutputs(g, s, plan[j])

FitsUpTo(g, s, plan, first, k, q) ==
    Grows(s, q) /\ \A j \in first .. k : PreparedNode(g, q, plan[j])

(* The states that the loop goes through.                                  *)
LEMMA RunFits ==
    ASSUME NEW g, IsGraph(g), NEW h, NEW s \in Subgraphs(g, h), NEW plan, WellPlaced(g, s.nodes, plan),
           g.in \subseteq s.shaped, NEW first \in 1 .. Len(plan) + 1,
           NEW f, NEW stop, IsPrepareRun(f, g, h, s, first, plan, stop),
           NEW k \in first - 1 .. stop
    PROVE  /\ g.in \subseteq f[k].shaped
           /\ OutputsBefore(s.nodes, plan, first) \subseteq s.shaped /\ SizableFrom(g, s, first, plan)
                => FitsUpTo(g, s, plan, first, k, f[k])
<1>1. Len(plan) \in Nat /\ first \in Nat /\ stop \in Int /\ stop \in first - 1 .. Len(plan)
  BY LenProperties DEF WellPlaced, IsPrepareRun
<1> DEFINE Able == OutputsBefore(s.nodes, plan, first) \subseteq s.shaped /\ SizableFrom(g, s, first, plan)
           n == stop - first + 1
           T == {i \in 0 .. n : /\ g.in \subseteq f[first - 1 + i].shaped
                                /\ Able => FitsUpTo(g, s, plan, first, first - 1 + i, f[first - 1 + i])}
<1>2. n \in Nat
  BY <1>1
<1>3. 0 \in T
  <2>1. f[first - 1].shaped = s.shaped /\ f[first - 1].ready = s.ready
    BY DEF IsPrepareRun, PrepareStart, Subgraphs
  <2>2. first - 1 + 0 = first - 1 /\ \A j \in first .. first - 1 : FALSE
    BY <1>1
  <2> HIDE DEF Able
  <2> QED BY <1>2, <2>1, <2>2 DEF FitsUpTo, Grows
<1>4. \A j \in first .. stop - 1 : ~HasDynamicOutputs(g, s, plan[j])
  <2> TAKE j \in first .. stop - 1
  <2>1. j \in first .. Len(plan) /\ ~(stop <= j)
    BY <1>1
  <2> QED BY <2>1 DEF IsPrepareRun, IsStop, StopsOf
<1>5. ASSUME NEW i \in 1 .. n, i - 1 \in T PROVE i \in T
  <2> DEFINE m == first - 1 + i
             a == f[m - 1]
             x == s.nodes[plan[m]]
  <2>1. m \in first .. stop /\ m \in 1 .. Len(plan) /\ m - 1 \in first - 1 .. stop
        /\ first - 1 + (i - 1) = m - 1
    BY <1>1
  <2>2. f[m] = PrepareNode(g, a, plan[m]) /\ a \in Prepared(g, h, s)
    BY <2>1 DEF IsPrepareRun
  <2>3. a \in Subgraphs(g, h) /\ a.nodes = s.nodes
    BY <2>2 DEF Prepared, OnlyPrepared, SameNodes
  <2>4. plan[m] \in 1 .. Len(a.nodes) /\ GoodNode(g, x)
        /\ x.inputs \subseteq g.in \cup OutputsBefore(s.nodes, plan, m)
    BY <2>1, <2>3 DEF WellPlaced
  <2>5. g.in \subseteq a.shaped /\ (Able => FitsUpTo(g, s, plan, first, m - 1, a))
    BY <1>5, <2>1
  <2> HIDE DEF m, a
  <2>6. g.in \cap x.outputs = {}
    BY <2>4, InputsUnwritten
  <2>7. g.in \subseteq f[m].shaped
    BY <2>2, <2>3, <2>4, <2>5, <2>6, NodeFits
  <2>8. ASSUME Able PROVE FitsUpTo(g, s, plan, first, m, f[m])
    <3>1. Grows(s, a) /\ \A j \in first .. m - 1 : PreparedNode(g, a, plan[j])
      BY <2>5, <2>8 DEF FitsUpTo
    <3>2. \A j \in first .. m - 1 : s.nodes[plan[j]].outputs \subseteq a.shaped
      <4> TAKE j \in first .. m - 1
      <4>1. j \in first .. stop - 1
        BY <1>1, <2>1
      <4>2. s.nodes[plan[j]].outputs \cap g.dynamic = {}
        BY <1>4, <4>1 DEF HasDynamicOutputs
      <4> QED BY <2>3, <3>1, <4>2 DEF PreparedNode
    <3>3. OutputsBefore(s.nodes, plan, m) \subseteq a.shaped
      <4>1. \A j \in 1 .. m - 1 : j \in 1 .. first - 1 \/ j \in first .. m - 1
        BY <1>1, <2>1
      <4>2. \A j \in 1 .. first - 1 : s.nodes[plan[j]].outputs \subseteq a.shaped
        BY <2>8, <3>1 DEF OutputsBefore, Grows
      <4> QED BY <3>2, <4>1, <4>2 DEF OutputsBefore
    <3>4. Sizable(g, s, plan[m])
      <4>1. m \in first .. Len(plan) /\ \A j \in first .. m - 1 : j \in first .. stop - 1
        BY <1>1, <2>1
      <4> QED BY <1>4, <2>8, <4>1 DEF SizableFrom
    <3>5. Sizable(g, a, plan[m]) /\ a.nodes[plan[m]].inputs \subseteq a.shaped
      BY <2>3, <2>4, <2>5, <3>1, <3>3, <3>4 DEF Sizable, Grows
    <3>6. Grows(a, f[m]) /\ PreparedNode(g, f[m], plan[m])
      BY <2>2, <2>3, <2>4, <3>5, NodeFits
    <3>7. f[m].nodes = a.nodes
      BY <2>2, <2>3, <2>4, PrepareNodeFrame DEF Prepared, OnlyPrepared, SameNodes
    <3>8. \A j \in first .. m : j \in first .. m - 1 \/ j = m
      BY <1>1, <2>1
    <3> QED BY <3>1, <3>6, <3>7, <3>8 DEF FitsUpTo, Grows, PreparedNode
  <2> HIDE DEF Able
  <2>9. g.in \subseteq f[m].shaped /\ (Able => FitsUpTo(g, s, plan, first, m, f[m]))
    BY <2>7, <2>8
  <2> QED BY <1>2, <2>9 DEF m
<1>6. \A i \in 0 .. n : i \in T
  <2> HIDE DEF T, n
  <2> QED BY <1>2, <1>3, <1>5, UpTo
<1>7. k - first + 1 \in 0 .. n /\ first - 1 + (k - first + 1) = k
  BY <1>1
<1> HIDE DEF Able
<1>8. g.in \subseteq f[k].shaped /\ (Able => FitsUpTo(g, s, plan, first, k, f[k]))
  <2> HIDE DEF n
  <2> QED BY <1>6, <1>7
<1> QED BY <1>8 DEF Able

(* What comes out of it.                                                   *)
LEMMA OpsFit ==
    ASSUME NEW g, IsGraph(g), NEW h, NEW s \in Subgraphs(g, h), NEW plan, WellPlaced(g, s.nodes, plan),
           g.in \subseteq s.shaped, NEW first \in 1 .. Len(plan) + 1,
           NEW r \in PrepareOpsStartingAt(g, s, first, plan)
    PROVE  /\ g.in \subseteq r.sg.shaped
           /\ OutputsBefore(s.nodes, plan, first) \subseteq s.shaped /\ SizableFrom(g, s, first, plan)
                => FitsUpTo(g, s, plan, first, r.last, r.sg)
           /\ r.status = "ok" => \/ r.last = Len(plan)
                                 \/ r.last \in first .. Len(plan) /\ HasDynamicOutputs(g, s, plan[r.last])
<1>1. plan \in Seq(Nat) /\ \A k \in 1 .. Len(plan) : plan[k] \in 1 .. Len(s.nodes)
  BY DEF WellPlaced
<1>2. PICK f, stop : /\ IsPrepareRun(f, g, h, s, first, plan, stop)
                     /\ PrepareOutcome(r, f, g, s, first, plan, stop)
  BY <1>1, PrepareRuns
<1>3. Len(plan) \in Nat /\ first \in Nat /\ stop \in Int /\ stop \in first - 1 .. Len(plan)
  BY <1>1, <1>2, LenProperties DEF IsPrepareRun
<1>4. PICK k \in first - 1 .. stop : r.last = k /\ r.sg.shaped = f[k].shaped /\ r.sg.ready = f[k].ready
                                     /\ r.sg.nodes = f[k].nodes
  <2>1. CASE r.status = "ok"
    <3>1. /\ r.last = stop /\ stop \in first - 1 .. stop
          /\ r.sg = f[stop] \/ r.sg = [f[stop] EXCEPT !.has_dynamic = TRUE]
      BY <1>2, <1>3, <2>1 DEF PrepareOutcome
    <3>2. f[stop] \in Subgraphs(g, h)
      BY <1>2, <3>1 DEF IsPrepareRun, Prepared
    <3>3. r.sg.shaped = f[stop].shaped /\ r.sg.ready = f[stop].ready /\ r.sg.nodes = f[stop].nodes
      BY <3>1, <3>2 DEF Subgraphs
    <3> QED BY <3>1, <3>3
  <2>2. CASE r.status # "ok"
    <3>1. PICK k \in first .. stop : r.sg = f[k - 1] /\ r.last = k - 1
      BY <1>2, <2>2 DEF PrepareOutcome
    <3>2. k - 1 \in first - 1 .. stop
      BY <1>3
    <3> QED BY <3>1, <3>2
  <2> QED BY <2>1, <2>2
<1>5. /\ g.in \subseteq f[k].shaped
      /\ OutputsBefore(s.nodes, plan, first) \subseteq s.shaped /\ SizableFrom(g, s, first, plan)
              => FitsUpTo(g, s, plan, first, k, f[k])
  BY <1>2, RunFits
<1>6. FitsUpTo(g, s, plan, first, k, f[k]) => FitsUpTo(g, s, plan, first, r.last, r.sg)
  BY <1>4 DEF FitsUpTo, Grows, PreparedNode
<1>7. r.status = "ok" => \/ r.last = Len(plan)
                         \/ r.last \in first .. Len(plan) /\ HasDynamicOutputs(g, s, plan[r.last])
  BY <1>2 DEF PrepareOutcome, IsPrepareRun, IsStop, StopsOf
<1> QED BY <1>4, <1>5, <1>6, <1>7

-----------------------------------------------------------------------------
(* The plan is prepared up to its k-th node, or as far as can be before    *)
(* dynamic outputs have their sizes.                                       *)
PreparedTo(g, s, k) == \A j \in 1 .. k - 1 : PreparedNode(g, s, s.plan[j])

PreparedFar(g, s) ==
    /\ PreparedTo(g, s, s.next_to_prepare)
    /\ \/ s.next_to_prepare = Len(s.plan) + 1
       \/ \E j \in 1 .. s.next_to_prepare - 1 : HasDynamicOutputs(g, s, s.plan[j])

(* Whether the original plan is prepared first, and why all shapes are     *)
(* right behind it.                                                        *)
WantsOriginal(s) == s.pre_plan # <<>> /\ \E d \in Elements(s.applied) : d \in WantsShapes

Coverable(g, s) ==
    IF WantsOriginal(s) THEN s.pre_plan = Orig(g) /\ g.dynamic = {}
    ELSE \A k \in 1 .. Len(s.plan) : Sizable(g, s, s.plan[k])

(* A subgraph whose nodes can be prepared from its inputs on.              *)
Fittable(g, h, s) ==
    /\ Preparable(g, h, s) /\ GoodNodes(g, s.nodes) /\ WellPlaced(g, s.nodes, s.plan)
    /\ g.in \subseteq s.shaped /\ Coverable(g, s)

(* The plan of the model, with the nodes of delegates behind it.           *)
LEMMA OrigPlaced ==
    ASSUME NEW g, IsGraph(g), NEW nodes, GoodNodes(g, nodes)
    PROVE  WellPlaced(g, nodes, Orig(g))
<1> DEFINE os == OrigNodes(g)
<1>1. WellPlaced(g, os, Orig(g)) /\ Len(os) = NumOriginal(g) /\ Len(Orig(g)) = NumOriginal(g)
      /\ NumOriginal(g) \in Nat /\ Len(nodes) \in Nat /\ NumOriginal(g) <= Len(nodes)
      /\ \A n \in 1 .. NumOriginal(g) : os[n] = nodes[n] /\ Orig(g)[n] = n
  BY OrigIsGood, GraphFacts, LenProperties DEF GoodPlan, GoodNodes, NodeLists
<1> HIDE DEF os
<1>2. \A k \in 1 .. Len(Orig(g)) : os[Orig(g)[k]] = nodes[Orig(g)[k]] /\ Orig(g)[k] \in 1 .. Len(nodes)
  BY <1>1
<1>3. ASSUME NEW k \in 1 .. Len(Orig(g)) PROVE OutputsBefore(os, Orig(g), k) = OutputsBefore(nodes, Orig(g), k)
  <2>1. \A j \in 1 .. k - 1 : j \in 1 .. Len(Orig(g))
    BY <1>1
  <2> QED BY <1>2, <2>1 DEF OutputsBefore
<1> QED BY <1>1, <1>2, <1>3 DEF WellPlaced, RunsOf

(* Preparing the original plan first gives all tensors their shapes.       *)
LEMMA OriginalFits ==
    ASSUME NEW g, IsGraph(g), NEW h, NEW s \in Subgraphs(g, h), GoodNodes(g, s.nodes), g.dynamic = {},
           g.in \subseteq s.shaped, NEW r \in PrepareOpsStartingAt(g, s, 1, Orig(g))
    PROVE  /\ Grows(s, r.sg)
           /\ r.status = "ok" => WritesOf(g.writes, 1 .. NumOriginal(g)) \subseteq r.sg.shaped
<1>1. WellPlaced(g, s.nodes, Orig(g)) /\ Len(Orig(g)) = NumOriginal(g) /\ NumOriginal(g) \in Nat \ {0}
      /\ 1 \in 1 .. Len(Orig(g)) + 1
      /\ \A n \in 1 .. NumOriginal(g) : Orig(g)[n] = n /\ s.nodes[n] = OriginalNode(g, n)
  BY OrigPlaced, GraphFacts DEF GoodNodes
<1>2. OutputsBefore(s.nodes, Orig(g), 1) \subseteq s.shaped
  BY DEF OutputsBefore
<1>7. \A k \in 1 .. Len(Orig(g)) : /\ Orig(g)[k] = k /\ s.nodes[Orig(g)[k]].delegate = NoDelegate
                                   /\ s.nodes[k].outputs = g.writes[k]
  <2> TAKE k \in 1 .. Len(Orig(g))
  <2>1. Orig(g)[k] = k /\ s.nodes[k] = OriginalNode(g, k)
    BY <1>1
  <2>2. OriginalNode(g, k).delegate = NoDelegate /\ OriginalNode(g, k).outputs = g.writes[k]
    BY DEF OriginalNode
  <2> QED BY <2>1, <2>2
<1>3. SizableFrom(g, s, 1, Orig(g))
  BY <1>7 DEF SizableFrom, Sizable, SizesOutputs
<1>4. /\ FitsUpTo(g, s, Orig(g), 1, r.last, r.sg)
      /\ r.status = "ok" => \/ r.last = Len(Orig(g))
                            \/ r.last \in 1 .. Len(Orig(g)) /\ HasDynamicOutputs(g, s, Orig(g)[r.last])
  BY <1>1, <1>2, <1>3, OpsFit
<1>5. \A k \in 1 .. Len(Orig(g)) : Orig(g)[k] \in 1 .. Len(s.nodes)
  BY <1>1 DEF WellPlaced
<1>6. r.sg.nodes = s.nodes
  BY <1>1, <1>5, GraphFacts, PrepareOpsFacts DEF Prepared, OnlyPrepared, SameNodes
<1>8. ASSUME r.status = "ok", NEW n \in 1 .. NumOriginal(g) PROVE g.writes[n] \subseteq r.sg.shaped
  <2>1. r.last = NumOriginal(g)
    BY <1>1, <1>4, <1>8 DEF HasDynamicOutputs
  <2>2. PreparedNode(g, r.sg, Orig(g)[n])
    BY <1>1, <1>4, <2>1 DEF FitsUpTo
  <2>3. n \in 1 .. Len(Orig(g))
    BY <1>1
  <2> QED BY <1>7, <1>6, <2>2, <2>3 DEF PreparedNode
<1> QED BY <1>4, <1>8 DEF FitsUpTo, WritesOf

(* PrepareOpsAndTensors: what is prepared stays so, and the plan is        *)
(* prepared as far as it can be.                                           *)
LEMMA TensorsFit ==
    ASSUME NEW g, IsGraph(g), NEW h, NEW s, Fittable(g, h, s), NextFits(s),
           OutputsBefore(s.nodes, s.plan, s.next_to_prepare) \subseteq s.shaped,
           PreparedTo(g, s, s.next_to_prepare), WantsOriginal(s) => s.next_to_prepare = 1,
           NEW r \in PrepareOpsAndTensors(g, s)
    PROVE  /\ Grows(s, r.sg)
           /\ r.status # "ok" => r.sg.next_to_prepare = s.next_to_prepare
           /\ r.status = "ok" =>
                /\ PreparedFar(g, r.sg)
                /\ s.next_to_prepare <= Len(s.plan) => s.next_to_prepare < r.sg.next_to_prepare
<1> DEFINE s1 == [s EXCEPT !.planner = IF @ = <<>> THEN <<s.plan>> ELSE @]
           original == IF WantsOriginal(s) THEN PrepareOpsStartingAt(g, s1, s1.next_to_prepare, s1.pre_plan)
                       ELSE {Outcome("ok", s1)}
           first == s.next_to_prepare
<1>1. s \in Subgraphs(g, h) /\ s.plan \in Seq(Nat) /\ Len(s.plan) \in Nat
      /\ first \in Nat /\ first \in 1 .. Len(s.plan) + 1
      /\ \A k \in 1 .. Len(s.plan) : s.plan[k] \in 1 .. Len(s.nodes)
  BY LenProperties DEF Fittable, Preparable, NextFits, Subgraphs, IndexLists
<1>2. s1 \in Subgraphs(g, h) /\ SameNodes(s, s1) /\ s1.ready = s.ready /\ s1.shaped = s.shaped
      /\ s1.next_to_prepare = first
  <2>1. PlannerOf(s) \in PlannerStates
    <3>1. <<s.plan>> \in PlannerStates
      BY <1>1 DEF PlannerStates, IndexLists
    <3> QED BY <1>1, <3>1 DEF PlannerOf, Subgraphs
  <2>2. s1 = [s EXCEPT !.planner = PlannerOf(s)]
    BY DEF PlannerOf
  <2> HIDE DEF s1
  <2> QED BY <1>1, <2>1, <2>2 DEF Subgraphs, SameNodes
<1> HIDE DEF s1
<1>3. PICK o \in original : r \in
             IF o.status # "ok" THEN {Outcome(o.status, o.sg)}
             ELSE {IF q.status = "ok"
                   THEN Outcome("ok", [q.sg EXCEPT !.next_to_prepare = q.last + 1])
                   ELSE Outcome(q.status, q.sg) :
                      q \in PrepareOpsStartingAt(g, o.sg, o.sg.next_to_prepare, o.sg.plan)}
  BY DEF PrepareOpsAndTensors, s1, WantsOriginal
<1> DEFINE z == o.sg
<1>4. /\ z \in Subgraphs(g, h) /\ z.nodes = s.nodes /\ z.plan = s.plan /\ z.next_to_prepare = first
      /\ Grows(s, z)
      /\ o.status = "ok" => \A k \in 1 .. Len(s.plan) : Sizable(g, z, s.plan[k])
  <2>1. CASE WantsOriginal(s)
    <3>1. o \in PrepareOpsStartingAt(g, s1, 1, Orig(g)) /\ g.dynamic = {}
      BY <1>2, <2>1 DEF Fittable, Coverable, SameNodes
    <3>2. GoodNodes(g, s1.nodes) /\ g.in \subseteq s1.shaped
      BY <1>2 DEF Fittable, SameNodes
    <3>3. /\ Grows(s1, z)
          /\ o.status = "ok" => WritesOf(g.writes, 1 .. NumOriginal(g)) \subseteq z.shaped
      BY <1>2, <3>1, <3>2, OriginalFits
    <3>4. z \in Prepared(g, h, s1)
      <4>1. /\ Orig(g) \in Seq(Nat) /\ 1 \in 1 .. Len(Orig(g)) + 1
            /\ \A k \in 1 .. Len(Orig(g)) : Orig(g)[k] \in 1 .. Len(s1.nodes)
        BY <3>2, OrigPlaced, GraphFacts DEF WellPlaced
      <4> QED BY <1>2, <3>1, <4>1, PrepareOpsFacts
    <3>5. z \in Subgraphs(g, h) /\ z.nodes = s.nodes /\ z.plan = s.plan /\ z.next_to_prepare = first
      BY <1>2, <3>4 DEF Prepared, OnlyPrepared, SameNodes
    <3>6. ASSUME o.status = "ok", NEW k \in 1 .. Len(s.plan) PROVE Sizable(g, z, s.plan[k])
      <4>1. GoodNode(g, s.nodes[s.plan[k]])
        BY DEF Fittable, WellPlaced
      <4>2. s.nodes[s.plan[k]].outputs \subseteq z.shaped
        BY <3>3, <3>6, <4>1, InputsUnwritten
      <4> QED BY <3>5, <4>2 DEF Sizable
    <3> QED BY <1>2, <3>3, <3>5, <3>6 DEF Grows
  <2>2. CASE ~WantsOriginal(s)
    <3>1. o = [status |-> "ok", sg |-> s1]
      BY <2>2 DEF Outcome
    <3>2. z = s1
      BY <3>1
    <3>3. \A k \in 1 .. Len(s.plan) : Sizable(g, s, s.plan[k])
      BY <2>2 DEF Fittable, Coverable
    <3> QED BY <1>2, <3>2, <3>3 DEF Grows, SameNodes, Sizable
  <2> QED BY <2>1, <2>2
<1> HIDE DEF original, z
<1>5. CASE o.status # "ok"
  <2>1. r = [status |-> o.status, sg |-> z]
    BY <1>3, <1>5 DEF Outcome, z
  <2>2. r.status = o.status /\ r.sg = z
    BY <2>1
  <2> QED BY <1>4, <1>5, <2>2
<1>6. CASE o.status = "ok"
  <2>1. PICK q \in PrepareOpsStartingAt(g, z, first, s.plan) :
           r = IF q.status = "ok" THEN Outcome("ok", [q.sg EXCEPT !.next_to_prepare = q.last + 1])
                                  ELSE Outcome(q.status, q.sg)
    BY <1>3, <1>4, <1>6 DEF z
  <2> DEFINE y == q.sg
  <2>2. WellPlaced(g, z.nodes, s.plan) /\ g.in \subseteq z.shaped
        /\ OutputsBefore(z.nodes, s.plan, first) \subseteq z.shaped
        /\ SizableFrom(g, z, first, s.plan)
    <3>1. \A k \in first .. Len(s.plan) : k \in 1 .. Len(s.plan)
      BY <1>1
    <3> QED BY <1>4, <1>6, <3>1 DEF Fittable, Grows, SizableFrom
  <2>3. /\ FitsUpTo(g, z, s.plan, first, q.last, y)
        /\ q.status = "ok" => \/ q.last = Len(s.plan)
                              \/ q.last \in first .. Len(s.plan) /\ HasDynamicOutputs(g, z, s.plan[q.last])
    BY <1>1, <1>4, <2>1, <2>2, OpsFit
  <2>4. y \in Prepared(g, h, z) /\ q.last \in first - 1 .. Len(s.plan)
    <3>1. \A k \in 1 .. Len(s.plan) : s.plan[k] \in 1 .. Len(z.nodes)
      BY <1>1, <1>4
    <3> HIDE DEF first
    <3> QED BY <1>1, <1>4, <2>1, <3>1, PrepareOpsFacts
  <2>5. y \in Subgraphs(g, h) /\ y.nodes = s.nodes /\ y.plan = s.plan /\ Grows(s, y)
        /\ y.next_to_prepare = first
    BY <1>4, <2>3, <2>4 DEF Prepared, OnlyPrepared, SameNodes, FitsUpTo, Grows
  <2> HIDE DEF y
  <2>6. CASE q.status # "ok"
    <3>1. r = [status |-> q.status, sg |-> y]
      BY <2>1, <2>6 DEF Outcome, y
    <3>2. r.status = q.status /\ r.sg = y
      BY <3>1
    <3> QED BY <2>5, <2>6, <3>2
  <2>7. CASE q.status = "ok"
    <3> DEFINE x == [y EXCEPT !.next_to_prepare = q.last + 1]
    <3>1. r = [status |-> "ok", sg |-> x]
      BY <2>1, <2>7 DEF Outcome, y
    <3>2. x.nodes = s.nodes /\ x.plan = s.plan /\ x.shaped = y.shaped /\ x.ready = y.ready
          /\ x.next_to_prepare = q.last + 1
      BY <2>5 DEF Subgraphs
    <3> HIDE DEF x
    <3>3. r.status = "ok" /\ r.sg = x
      BY <3>1
    <3>4. PreparedTo(g, x, q.last + 1)
      <4>1. SUFFICES ASSUME NEW j \in 1 .. (q.last + 1) - 1 PROVE PreparedNode(g, x, s.plan[j])
        BY <3>2 DEF PreparedTo
      <4>2. j \in 1 .. first - 1 \/ j \in first .. q.last
        BY <1>1, <2>4
      <4>3. j \in 1 .. first - 1 => PreparedNode(g, s, s.plan[j])
        BY DEF PreparedTo
      <4>4. j \in first .. q.last => PreparedNode(g, y, s.plan[j])
        BY <2>3 DEF FitsUpTo
      <4> QED BY <2>5, <3>2, <4>2, <4>3, <4>4 DEF PreparedNode, Grows
    <3>5. x.next_to_prepare = Len(x.plan) + 1
          \/ \E j \in 1 .. x.next_to_prepare - 1 : HasDynamicOutputs(g, x, x.plan[j])
      <4>1. CASE q.last = Len(s.plan)
        BY <3>2, <4>1
      <4>2. CASE q.last \in first .. Len(s.plan) /\ HasDynamicOutputs(g, z, s.plan[q.last])
        <5>1. q.last \in 1 .. (q.last + 1) - 1
          BY <1>1, <4>2
        <5>2. HasDynamicOutputs(g, x, x.plan[q.last])
          BY <1>4, <3>2, <4>2 DEF HasDynamicOutputs
        <5> QED BY <3>2, <5>1, <5>2
      <4> QED BY <2>3, <2>7, <4>1, <4>2
    <3>6. first <= Len(s.plan) => first < q.last + 1
      BY <1>1, <2>3, <2>4, <2>7
    <3> QED BY <2>5, <3>2, <3>3, <3>4, <3>5, <3>6 DEF PreparedFar, Grows
  <2> QED BY <2>6, <2>7
<1> QED BY <1>5, <1>6

(* AllocateTensors of a graph that is not ready.                           *)
LEMMA AllocateFits ==
    ASSUME NEW g, IsGraph(g), NEW h, NEW s, Fittable(g, h, s), s.state = "uninvokable",
           NEW r \in Allocate(g, s)
    PROVE  Grows(s, r.sg) /\ (r.status = "ok" => PreparedFar(g, r.sg))
<1> DEFINE z == [s EXCEPT !.next_to_prepare = 1, !.fresh = {}]
<1>1. z \in Subgraphs(g, h) /\ SameNodes(s, z) /\ z.next_to_prepare = 1 /\ z.ready = s.ready
      /\ z.shaped = s.shaped
  <2>1. {} \in TensorSets(g)
    BY DEF TensorSets
  <2> QED BY <2>1 DEF Fittable, Preparable, Subgraphs, SameNodes
<1>2. PICK q \in PrepareOpsAndTensors(g, z) :
         r = IF q.status = "ok" THEN Outcome("ok", [q.sg EXCEPT !.state = "invokable"]) ELSE q
  BY DEF Allocate
<1> HIDE DEF z
<1>3. Fittable(g, h, z)
  BY <1>1 DEF Fittable, Preparable, SameNodes, Coverable, WantsOriginal, Sizable
<1>4. NextFits(z)
  <2>1. Len(z.plan) \in Nat /\ Len(z.pre_plan) \in Nat
    BY <1>1, LenProperties DEF Subgraphs, IndexLists
  <2> QED BY <1>1, <2>1 DEF NextFits
<1>5. OutputsBefore(z.nodes, z.plan, z.next_to_prepare) \subseteq z.shaped /\ PreparedTo(g, z, z.next_to_prepare)
  BY <1>1 DEF OutputsBefore, PreparedTo
<1> DEFINE y == q.sg
<1>6. Grows(z, y) /\ (q.status = "ok" => PreparedFar(g, y)) /\ y \in Subgraphs(g, h)
      /\ q.status \in {"ok", "error"}
  BY <1>1, <1>2, <1>3, <1>4, <1>5, TensorsFit, PrepareTensorsFacts DEF Fittable
<1> HIDE DEF y
<1>7. CASE q.status = "ok"
  <2> DEFINE x == [y EXCEPT !.state = "invokable"]
  <2>1. r = [status |-> "ok", sg |-> x]
    BY <1>2, <1>7 DEF Outcome, y
  <2>2. x.nodes = y.nodes /\ x.plan = y.plan /\ x.shaped = y.shaped /\ x.ready = y.ready
        /\ x.next_to_prepare = y.next_to_prepare
    BY <1>6 DEF Subgraphs
  <2> HIDE DEF x
  <2>3. r.sg = x
    BY <2>1
  <2>4. PreparedFar(g, x)
    BY <1>6, <1>7, <2>2 DEF PreparedFar, PreparedTo, PreparedNode, HasDynamicOutputs
  <2> QED BY <1>1, <1>6, <2>2, <2>3, <2>4 DEF Grows
<1>8. CASE q.status # "ok"
  BY <1>1, <1>2, <1>6, <1>8 DEF Grows, y
<1> QED BY <1>7, <1>8

(* EnsureMemoryAllocations prepares the plan again.                        *)
LEMMA EnsureFits ==
    ASSUME NEW g, IsGraph(g), NEW h, NEW s, Fittable(g, h, s), s.planner = <<>> => s.state = "uninvokable",
           NEW r \in EnsureMemoryAllocations(g, s)
    PROVE  Grows(s, r.sg) /\ (r.status = "ok" => PreparedFar(g, r.sg))
<1> DEFINE z == IF s.planner = <<>> THEN s
                ELSE [s EXCEPT !.state = "uninvokable", !.planner = <<s.plan>>]
<1>0. s \in Subgraphs(g, h)
  BY DEF Fittable, Preparable
<1>1. z \in Subgraphs(g, h) /\ SameNodes(s, z) /\ z.state = "uninvokable"
      /\ z.ready = s.ready /\ z.shaped = s.shaped
  <2>1. CASE s.planner = <<>>
    BY <1>0, <2>1 DEF SameNodes
  <2>2. CASE s.planner # <<>>
    <3>1. <<s.plan>> \in PlannerStates
      BY <1>0 DEF PlannerStates, Subgraphs
    <3>2. z = [s EXCEPT !.state = "uninvokable", !.planner = <<s.plan>>]
      BY <2>2
    <3> HIDE DEF z
    <3> QED BY <1>0, <3>1, <3>2 DEF Subgraphs, SameNodes, States
  <2> QED BY <2>1, <2>2
<1>2. PICK q \in Allocate(g, z) :
         r = IF q.status = "ok" /\ q.sg.state # "invokable" THEN Outcome("error", q.sg) ELSE q
  BY DEF EnsureMemoryAllocations
<1> HIDE DEF z
<1>3. Fittable(g, h, z)
  BY <1>1 DEF Fittable, Preparable, SameNodes, Coverable, WantsOriginal, Sizable
<1>4. Grows(z, q.sg) /\ (q.status = "ok" => PreparedFar(g, q.sg) /\ q.sg.state = "invokable")
  BY <1>1, <1>2, <1>3, AllocateFits, AllocateFacts DEF Fittable
<1>5. r = q
  BY <1>2, <1>4
<1> QED BY <1>1, <1>4, <1>5 DEF Grows

-----------------------------------------------------------------------------
(* Dynamic tensors together with delegates that require propagated shapes  *)
(* are left out: PrepareOpsAndTensors (subgraph.cc:943) then prepares the  *)
(* original plan from an index into the plan of the delegates.             *)
Regular(g) == WantsShapes = {} \/ g.dynamic = {}

NodesKnown(s, ds) == \A k \in 1 .. Len(s.plan) : s.nodes[s.plan[k]].delegate \in {NoDelegate} \cup Elements(ds)

(* What a subgraph and its shapes are for each other between operations.   *)
Fit(g, s) ==
    /\ g.in \subseteq s.shaped
    /\ NodesKnown(s, s.applied)
    /\ s.state = "immutable" => PlanIsStatic(g, s)
    /\ s.state # "uninvokable" => PreparedFar(g, s)

PlanShaped(g, s) == \A k \in 1 .. Len(s.plan) : s.nodes[s.plan[k]].outputs \ g.dynamic \subseteq s.shaped

(* A plan without dynamic outputs that is prepared has its shapes.         *)
LEMMA StaticShaped ==
    ASSUME NEW g, NEW s, Len(s.plan) \in Nat, PreparedFar(g, s), PlanIsStatic(g, s),
           s.next_to_prepare \in 1 .. Len(s.plan) + 1
    PROVE  PlanShaped(g, s)
<1>1. s.next_to_prepare = Len(s.plan) + 1
  <2>1. \A j \in 1 .. s.next_to_prepare - 1 : j \in 1 .. Len(s.plan)
    OBVIOUS
  <2> QED BY <2>1 DEF PreparedFar, PlanIsStatic
<1>2. \A k \in 1 .. Len(s.plan) : k \in 1 .. s.next_to_prepare - 1
  BY <1>1
<1> QED BY <1>2 DEF PreparedFar, PreparedTo, PreparedNode, PlanShaped

(* A graph that is not immutable has delegates of dynamic tensors only.    *)
LEMMA AppliedDynamic ==
    ASSUME NEW g, NEW h, NEW s, Sound(g, h, s), ~s.undone, s.state # "immutable"
    PROVE  Elements(s.applied) \subseteq AllowsDynamic
  BY DEF Sound, AppliedOrder, Elements

(* It can be prepared from its inputs on.                                  *)
LEMMA SoundFittable ==
    ASSUME NEW g, IsGraph(g), NEW h, NEW s, Sound(g, h, s), ~s.undone, s.state # "immutable",
           Fit(g, s), Regular(g)
    PROVE  Fittable(g, h, s)
<1>1. Preparable(g, h, s) /\ GoodNodes(g, s.nodes) /\ WellPlaced(g, s.nodes, s.plan)
      /\ Elements(s.applied) \subseteq AllowsDynamic /\ s.pre_plan \in {<<>>, Orig(g)}
      /\ (s.pre_plan # <<>> <=> s.applied # <<>>)
  BY SoundFacts, AppliedDynamic DEF Sound, GoodPlan
<1>2. CASE WantsOriginal(s)
  BY <1>1, <1>2 DEF Fittable, Coverable, Fit, Regular, WantsOriginal
<1>3. CASE ~WantsOriginal(s)
  <2>1. Elements(s.applied) \cap WantsShapes = {}
    <3>1. Elements(<<>>) = {}
      BY DEF Elements
    <3> QED BY <1>1, <1>3, <3>1 DEF WantsOriginal
  <2>2. \A k \in 1 .. Len(s.plan) : Sizable(g, s, s.plan[k])
    BY <1>1, <2>1 DEF Fit, NodesKnown, Sizable, SizesOutputs
  <2> QED BY <1>1, <1>3, <2>2 DEF Fittable, Coverable, Fit
<1> QED BY <1>2, <1>3

(* What differs in the parts that shapes do not depend on.                 *)
LEMMA SameFar ==
    ASSUME NEW g, NEW s, NEW q, q.nodes = s.nodes, q.plan = s.plan, q.next_to_prepare = s.next_to_prepare,
           Grows(s, q), PreparedFar(g, s)
    PROVE  PreparedFar(g, q)
  BY DEF PreparedFar, PreparedTo, PreparedNode, HasDynamicOutputs, Grows

-----------------------------------------------------------------------------
(* The nodes of the model are not those of a delegate.                     *)
LEMMA OrigUnowned ==
    ASSUME NEW g, IsGraph(g)
    PROVE  \A k \in 1 .. Len(Orig(g)) : OrigNodes(g)[Orig(g)[k]].delegate = NoDelegate
<1> TAKE k \in 1 .. Len(Orig(g))
<1>1. OrigNodes(g)[Orig(g)[k]] = OriginalNode(g, k)
  BY GraphFacts
<1> QED BY <1>1 DEF OriginalNode

(* Without delegates every kernel sizes its outputs.                       *)
LEMMA RemoveFits ==
    ASSUME NEW g, IsGraph(g), NEW h, NEW s, Removable(g, h, s), g.in \subseteq s.shaped,
           NEW r \in RemoveAllDelegates(g, s)
    PROVE  Fit(g, r.sg)
<1> DEFINE u == UndoAllDelegates(s)
           z == [u EXCEPT !.applied = <<>>, !.undone = FALSE]
<1>1. PlanIsBack(g, h, s, u)
  BY UndoFacts
<1>2. u.shaped = s.shaped
  BY DEF UndoAllDelegates, Removable, Subgraphs
<1>3. r \in EnsureMemoryAllocations(g, z)
  BY DEF RemoveAllDelegates
<1> HIDE DEF u
<1>4. /\ z \in Subgraphs(g, h) /\ z.nodes = OrigNodes(g) /\ z.plan = Orig(g) /\ z.pre_plan = <<>>
      /\ z.planner = <<>> => z.state = "uninvokable"
      /\ z.shaped = s.shaped
  <2>1. <<>> \in DelegateLists
    BY DEF DelegateLists
  <2> QED BY <1>1, <1>2, <2>1 DEF Subgraphs, PlanIsBack
<1> HIDE DEF z
<1>5. \A k \in 1 .. Len(Orig(g)) : OrigNodes(g)[Orig(g)[k]].delegate = NoDelegate
  BY OrigUnowned
<1>6. Fittable(g, h, z)
  <2>1. \A k \in 1 .. Len(z.plan) : Sizable(g, z, z.plan[k])
    BY <1>4, <1>5 DEF Sizable, SizesOutputs
  <2>2. GoodNodes(g, z.nodes) /\ WellPlaced(g, z.nodes, z.plan) /\ Preparable(g, h, z)
    BY <1>4, GraphFacts, OrigIsGood, OrigPreparable DEF GoodPlan
  <2> QED BY <1>4, <2>1, <2>2 DEF Fittable, Coverable, WantsOriginal
<1>7. Grows(z, r.sg) /\ (r.status = "ok" => PreparedFar(g, r.sg))
  BY <1>3, <1>4, <1>6, EnsureFits
<1>8. Restored(g, r.sg) /\ (r.status # "ok" => r.sg.state = "uninvokable")
  BY <1>3, <1>4, <1>6, RemoveFacts, EnsureFacts DEF Fittable
<1>9. NodesKnown(r.sg, r.sg.applied)
  BY <1>5, <1>8 DEF NodesKnown, Restored
<1> QED BY <1>4, <1>7, <1>8, <1>9 DEF Fit, Grows, Restored

(* The same for ResetDelegation.                                           *)
LEMMA ResetFits ==
    ASSUME NEW g, IsGraph(g), NEW h, NEW s, Removable(g, h, s), g.in \subseteq s.shaped,
           NEW r \in ResetDelegation(g, s)
    PROVE  Fit(g, r.sg)
<1>1. PICK q \in RemoveAllDelegates(g, s) : r = IF q.status = "ok" THEN Outcome("delegate_error", q.sg) ELSE q
  BY DEF ResetDelegation
<1>2. r.sg = q.sg
  BY <1>1 DEF Outcome
<1> QED BY <1>1, <1>2, RemoveFits

-----------------------------------------------------------------------------
(* Nodes of a plan that a delegate d made of another: they were there      *)
(* before, or are those of d, with outputs that the plan had.              *)
IsMade(nodes, plan, d, node) ==
    \/ \E j \in 1 .. Len(plan) : node = nodes[plan[j]]
    \/ node.delegate = d /\ node.outputs \subseteq OutputsBefore(nodes, plan, Len(plan) + 1)

Made(nodes, plan, d, nodes1, plan1) ==
    \A k \in 1 .. Len(plan1) : plan1[k] \in 1 .. Len(nodes1) /\ IsMade(nodes, plan, d, nodes1[plan1[k]])

(* A plan that goes on with further nodes of d.                            *)
LEMMA MadeFurther ==
    ASSUME NEW nodes, NEW plan, NEW d, NEW nodes1, NEW plan1 \in Seq(Nat), Made(nodes, plan, d, nodes1, plan1),
           NEW nodes2, Extends(nodes1, nodes2), NEW xs \in Seq(Nat),
           \A i \in 1 .. Len(xs) : xs[i] \in 1 .. Len(nodes2) /\ IsMade(nodes, plan, d, nodes2[xs[i]])
    PROVE  Made(nodes, plan, d, nodes2, plan1 \o xs)
<1> DEFINE ys == plan1 \o xs
<1>1. Len(plan1) \in Nat /\ Len(xs) \in Nat /\ Len(ys) = Len(plan1) + Len(xs)
      /\ \A k \in 1 .. Len(ys) : ys[k] = IF k <= Len(plan1) THEN plan1[k] ELSE xs[k - Len(plan1)]
  BY LenProperties, ConcatProperties
<1> HIDE DEF ys
<1>2. ASSUME NEW k \in 1 .. Len(ys) PROVE ys[k] \in 1 .. Len(nodes2) /\ IsMade(nodes, plan, d, nodes2[ys[k]])
  <2>1. CASE k <= Len(plan1)
    <3>1. k \in 1 .. Len(plan1) /\ ys[k] = plan1[k]
      BY <1>1, <2>1
    <3>2. plan1[k] \in 1 .. Len(nodes1) /\ IsMade(nodes, plan, d, nodes1[plan1[k]])
      BY <3>1 DEF Made
    <3>3. plan1[k] \in 1 .. Len(nodes2) /\ nodes2[plan1[k]] = nodes1[plan1[k]]
      BY <3>2 DEF Extends
    <3> QED BY <3>1, <3>2, <3>3
  <2>2. CASE ~(k <= Len(plan1))
    <3>1. k - Len(plan1) \in 1 .. Len(xs) /\ ys[k] = xs[k - Len(plan1)]
      BY <1>1, <2>2
    <3> QED BY <3>1
  <2> QED BY <2>1, <2>2
<1> QED BY <1>2 DEF Made, ys

(* What replacing the parts gives.                                         *)
LEMMA ReplacedMade ==
    ASSUME NEW g, IsGraph(g), NEW h, NEW s \in Subgraphs(g, h), GoodNodes(g, s.nodes),
           GoodPlan(g, s.nodes, s.plan), NEW d \in Delegates, NEW claimed,
           ReplaceNodeSubsetsWithDelegateKernels(g, s, d, claimed).status = "ok"
    PROVE  LET r == ReplaceNodeSubsetsWithDelegateKernels(g, s, d, claimed)
           IN  Made(s.nodes, s.plan, d, r.sg.nodes, r.sg.plan)
<1> DEFINE nodes == s.nodes
           plan == s.plan
           p == Parts(g, nodes, plan, claimed)
           r == ReplaceNodeSubsetsWithDelegateKernels(g, s, d, claimed)
<1>0. WellPlaced(g, nodes, plan) /\ nodes \in NodeLists(g) /\ Len(plan) \in Nat /\ Len(nodes) \in Nat
      /\ \A k \in 1 .. Len(plan) : plan[k] \in 1 .. Len(nodes)
  BY LenProperties DEF GoodPlan, GoodNodes, WellPlaced, NodeLists
<1>1. CASE claimed = {}
  <2>1. r = [status |-> "ok", sg |-> s]
    BY <1>1 DEF ReplaceNodeSubsetsWithDelegateKernels, Outcome
  <2> HIDE DEF r
  <2> QED BY <1>0, <2>1 DEF Made, IsMade, r
<1>2. CASE claimed # {}
  <2>1. r = ReplaceAll(s, d, p)
    BY <1>2 DEF ReplaceNodeSubsetsWithDelegateKernels, ReplaceAll, Parts, InsOf, OutsOf, ReplaceStart
  <2>2. PICK ss : IsCutOf(g, nodes, plan, claimed, ss)
    BY <1>0, PlanParts
  <2>3. Len(p) = Len(ss) /\ Len(ss) \in Nat
    BY <2>2 DEF IsCutOf
  <2>4. r.status = "ok"
    OBVIOUS
  <2> HIDE DEF r, p, nodes, plan
  <2>5. \A k \in 1 .. Len(p) : IsPart(g, p[k]) /\ Elements(ss[k]) \subseteq Elements(plan)
    BY <1>0, <2>2, <2>3, PartsTyped DEF p
  <2>6. PICK f : IsReplaceRun(f, g, h, s, d, p)
    BY <2>3, <2>5, ReplaceRuns
  <2>7. r = f[Len(p)]
    BY <2>1, <2>6 DEF IsReplaceRun
  <2> DEFINE T == {k \in 0 .. Len(p) : f[k].status = "ok" => Made(nodes, plan, d, f[k].sg.nodes, f[k].sg.plan)}
  <2>8. 0 \in T
    <3>1. f[0].sg.plan = <<>>
      BY <2>6, ReplaceStarts DEF IsReplaceRun
    <3> QED BY <2>3, <3>1 DEF Made
  <2>9. ASSUME NEW k \in 1 .. Len(p), k - 1 \in T PROVE k \in T
    <3>1. SUFFICES ASSUME f[k].status = "ok" PROVE Made(nodes, plan, d, f[k].sg.nodes, f[k].sg.plan)
      BY <2>3
    <3> DEFINE a == f[k - 1].sg
               b == f[k].sg
    <3>2. ReplacedBy(f[k - 1], p[k], d, f[k]) /\ f[k - 1] \in Replacing(g, h, s) /\ f[k] \in Replacing(g, h, s)
      BY <2>3, <2>6 DEF IsReplaceRun
    <3>3. /\ f[k - 1].status \in {"ok", "error"} /\ Extends(nodes, a.nodes) /\ a.plan \in Seq(Nat)
          /\ a.nodes \in NodeLists(g) /\ Len(a.nodes) \in Nat
      BY <3>2, LenProperties DEF Replacing, nodes, Subgraphs, IndexLists, NodeLists
    <3>4. f[k - 1].status = "ok"
      BY <3>1, <3>2, <3>3 DEF ReplacedBy
    <3>5. Made(nodes, plan, d, a.nodes, a.plan)
      BY <2>9, <3>4
    <3>6. /\ p[k].nodes = ss[k] /\ p[k].nodes \in Seq(Nat) /\ p[k].type \in {"partition", "non_partition"}
          /\ p[k].output_tensors \subseteq WritesOf(OutsOf(nodes), Elements(ss[k]))
      <4>1. p[k] = PartFrom(plan, InsOf(nodes), OutsOf(nodes), g.out, claimed, ss[k])
        BY <2>2, <2>3 DEF IsCutOf, p
      <4>2. p[k].nodes = ss[k] /\ p[k].output_tensors \subseteq WritesOf(OutsOf(nodes), Elements(ss[k]))
        BY <4>1 DEF PartFrom
      <4> QED BY <2>5, <4>2 DEF IsPart
    <3> HIDE DEF a, b
    <3>7. CASE p[k].type = "non_partition"
      <4>1. b.nodes = a.nodes /\ b.plan = a.plan \o p[k].nodes
        BY <3>2, <3>4, <3>7 DEF ReplacedBy, a, b
      <4>2. ASSUME NEW i \in 1 .. Len(ss[k])
            PROVE  ss[k][i] \in 1 .. Len(a.nodes) /\ IsMade(nodes, plan, d, a.nodes[ss[k][i]])
        <5>1. PICK j \in 1 .. Len(plan) : ss[k][i] = plan[j]
          BY <2>5 DEF Elements
        <5>2. plan[j] \in 1 .. Len(nodes) /\ a.nodes[plan[j]] = nodes[plan[j]] /\ plan[j] \in 1 .. Len(a.nodes)
          BY <1>0, <3>3 DEF Extends
        <5> QED BY <5>1, <5>2 DEF IsMade
      <4>3. Extends(a.nodes, a.nodes)
        BY <3>3 DEF Extends
      <4>4. Made(nodes, plan, d, a.nodes, a.plan \o p[k].nodes)
        BY <3>3, <3>5, <3>6, <4>2, <4>3, MadeFurther
      <4> QED BY <4>1, <4>4 DEF b
    <3>8. CASE p[k].type = "partition"
      <4> DEFINE n == Len(b.nodes)
      <4>1. /\ Extends(a.nodes, b.nodes) /\ n = Len(a.nodes) + 1 /\ b.plan = a.plan \o <<n>>
            /\ b.nodes[n] = NodeFor(p[k], d)
        BY <3>1, <3>2, <3>4, <3>8 DEF ReplacedBy, a, b
      <4>2. b.nodes[n].delegate = d /\ b.nodes[n].outputs = p[k].output_tensors
        BY <4>1 DEF NodeFor
      <4>3. WritesOf(OutsOf(nodes), Elements(ss[k])) \subseteq OutputsBefore(nodes, plan, Len(plan) + 1)
        <5>1. \A m \in Elements(ss[k]) : \E j \in 1 .. Len(plan) : m = plan[j]
          BY <2>5 DEF Elements
        <5>2. \A j \in 1 .. Len(plan) : j \in 1 .. (Len(plan) + 1) - 1 /\ OutsOf(nodes)[plan[j]] = nodes[plan[j]].outputs
          BY <1>0 DEF OutsOf, NodeLists
        <5> QED BY <5>1, <5>2 DEF WritesOf, OutputsBefore
      <4>4. n \in Nat /\ <<n>> \in Seq(Nat) /\ Len(<<n>>) = 1 /\ <<n>>[1] = n /\ n \in 1 .. n
        BY <3>3, <4>1
      <4>5. IsMade(nodes, plan, d, b.nodes[n])
        BY <3>6, <4>2, <4>3 DEF IsMade
      <4> HIDE DEF n
      <4>6. \A i \in 1 .. Len(<<n>>) : <<n>>[i] \in 1 .. Len(b.nodes) /\ IsMade(nodes, plan, d, b.nodes[<<n>>[i]])
        BY <4>4, <4>5 DEF n
      <4>7. Made(nodes, plan, d, b.nodes, a.plan \o <<n>>)
        BY <3>3, <3>5, <4>1, <4>4, <4>6, MadeFurther
      <4> QED BY <4>1, <4>7 DEF b
    <3> QED BY <3>6, <3>7, <3>8
  <2>10. Len(p) \in T
    <3> HIDE DEF T
    <3>1. \A k \in 0 .. Len(p) : k \in T
      BY <2>3, <2>8, <2>9, UpTo
    <3> QED BY <2>3, <3>1
  <2> QED BY <2>4, <2>7, <2>10 DEF r, nodes, plan
<1> QED BY <1>1, <1>2

-----------------------------------------------------------------------------
(* What a plan that d made has of the plan before.                         *)
LEMMA MadeFacts ==
    ASSUME NEW g, NEW s, NEW q, NEW d \in Delegates, Len(s.plan) \in Nat, s.applied \in Seq(Delegates),
           Made(s.nodes, s.plan, d, q.nodes, q.plan)
    PROVE  /\ NodesKnown(s, s.applied) => NodesKnown(q, Append(s.applied, d))
           /\ PlanIsStatic(g, s) => PlanIsStatic(g, q)
           /\ PlanShaped(g, s) /\ q.shaped = s.shaped => PlanShaped(g, q)
<1>1. \A j \in 1 .. (Len(s.plan) + 1) - 1 : j \in 1 .. Len(s.plan)
  OBVIOUS
<1>2. ASSUME NEW k \in 1 .. Len(q.plan)
      PROVE  /\ \/ \E j \in 1 .. Len(s.plan) : q.nodes[q.plan[k]] = s.nodes[s.plan[j]]
                \/ q.nodes[q.plan[k]].delegate = d
             /\ \A t \in q.nodes[q.plan[k]].outputs : \E j \in 1 .. Len(s.plan) : t \in s.nodes[s.plan[j]].outputs
  BY <1>1 DEF Made, IsMade, OutputsBefore
<1>3. Elements(Append(s.applied, d)) = Elements(s.applied) \cup {d}
  BY ElementsAppend
<1>4. NodesKnown(s, s.applied) => NodesKnown(q, Append(s.applied, d))
  BY <1>2, <1>3 DEF NodesKnown
<1>5. PlanIsStatic(g, s) => PlanIsStatic(g, q)
  BY <1>2 DEF PlanIsStatic, HasDynamicOutputs
<1>6. PlanShaped(g, s) /\ q.shaped = s.shaped => PlanShaped(g, q)
  BY <1>2 DEF PlanShaped
<1> QED BY <1>4, <1>5, <1>6

(* The end of a delegation that plans memory.                              *)
LEMMA EnsuredFits ==
    ASSUME NEW g, IsGraph(g), NEW h, NEW s, NEW d, NEW q, Delegated(g, h, s, q), Fittable(g, h, q),
           q.planner = <<>> => q.state = "uninvokable", NodesKnown(q, Append(s.applied, d)),
           NEW st \in {"invokable", "immutable"}, st = "immutable" => PlanIsStatic(g, q),
           NEW e \in EnsureMemoryAllocations(g, q), NEW r, AfterEnsured(g, e, st, d, r)
    PROVE  Fit(g, r.sg)
<1> DEFINE y == e.sg
<1>1. /\ y \in Subgraphs(g, h) /\ SameNodes(q, y) /\ y.planner = <<q.plan>>
      /\ y.ready \subseteq q.ready \cup 1 .. Len(q.nodes) /\ Grows(q, y)
      /\ e.status = "ok" => PreparedFar(g, y)
  BY EnsureFacts, EnsureFits DEF Fittable
<1>2. /\ y.nodes = q.nodes /\ y.plan = q.plan /\ y.pre_plan = Orig(g) /\ y.applied = s.applied
      /\ y.ready \subseteq 1 .. Len(y.nodes) /\ GoodNodes(g, y.nodes) /\ y.planner # <<>>
      /\ g.in \subseteq y.shaped
  BY <1>1 DEF Delegated, SameNodes, Fittable, Grows
<1> HIDE DEF y
<1>3. CASE e.status = "ok"
  <2> DEFINE x == [[y EXCEPT !.state = st] EXCEPT !.applied = Append(@, d)]
  <2>1. r = [status |-> "ok", sg |-> x]
    BY <1>3 DEF Outcome, y, AfterEnsured
  <2>2. /\ x.nodes = q.nodes /\ x.plan = q.plan /\ x.applied = Append(s.applied, d) /\ x.state = st
        /\ x.shaped = y.shaped /\ x.ready = y.ready /\ x.next_to_prepare = y.next_to_prepare
    BY <1>1, <1>2 DEF Subgraphs
  <2> HIDE DEF x
  <2>3. r.sg = x
    BY <2>1
  <2>4. PreparedFar(g, x)
    BY <1>1, <1>2, <1>3, <2>2, SameFar DEF Grows
  <2> QED BY <1>2, <2>2, <2>3, <2>4 DEF Fit, NodesKnown, PlanIsStatic, HasDynamicOutputs
<1>4. CASE e.status # "ok"
  <2>1. Removable(g, h, y)
    BY <1>1, <1>2, GraphFacts DEF Removable
  <2>2. r \in ResetDelegation(g, y)
    BY <1>4 DEF y, AfterEnsured
  <2> QED BY <1>2, <2>1, <2>2, ResetFits
<1> QED BY <1>3, <1>4

(* A delegate that refuses dynamic tensors finds the plan without them,    *)
(* and its shapes right now or as soon as the original plan is prepared.   *)
StaticFits(g, s, d) ==
    d \notin AllowsDynamic =>
        PlanIsStatic(g, s) /\ (PlanShaped(g, s) \/ Elements(s.applied) \cap WantsShapes # {})

(* The end of a delegation.                                                *)
LEMMA FinishFits ==
    ASSUME NEW g, IsGraph(g), Regular(g), NEW h, NEW s, Sound(g, h, s), ~s.undone, s.state # "immutable",
           Fit(g, s), NEW d \in Delegates, StaticFits(g, s, d), NEW q, Delegated(g, h, s, q),
           q.shaped = s.shaped, Made(s.nodes, s.plan, d, q.nodes, q.plan),
           NEW r \in FinishDelegation(g, q, d, s.state = "invokable")
    PROVE  Fit(g, r.sg)
<1>0. /\ q \in Subgraphs(g, h) /\ GoodNodes(g, q.nodes) /\ GoodPlan(g, q.nodes, q.plan)
      /\ q.pre_plan = Orig(g) /\ q.applied = s.applied /\ ~q.undone
      /\ q.planner = s.planner /\ q.state \in {s.state, "uninvokable"}
      /\ s.planner = <<>> => s.state = "uninvokable"
      /\ s.state \in States /\ s.applied \in Seq(Delegates)
  BY DEF Delegated, Sound, Subgraphs, DelegateLists
<1>1. Len(s.plan) \in Nat /\ Orig(g) # <<>> /\ Elements(s.applied) \subseteq AllowsDynamic
  BY SoundFacts, GraphFacts, AppliedDynamic
<1>2. /\ NodesKnown(q, Append(s.applied, d))
      /\ PlanIsStatic(g, s) => PlanIsStatic(g, q)
      /\ PlanShaped(g, s) => PlanShaped(g, q)
  BY <1>0, <1>1, MadeFacts DEF Fit
<1>3. ASSUME PlanShaped(g, s) \/ (d \in AllowsDynamic /\ WantsShapes = {})
             \/ Elements(s.applied) \cap WantsShapes # {}
      PROVE  Fittable(g, h, q)
  <2>1. Preparable(g, h, q) /\ WellPlaced(g, q.nodes, q.plan)
    BY <1>0, <1>1, GoodPreparable DEF GoodPlan
  <2>2. Coverable(g, q)
    <3>1. CASE Elements(s.applied) \cap WantsShapes # {}
      BY <1>0, <1>1, <3>1 DEF Coverable, WantsOriginal, Regular
    <3>2. CASE Elements(s.applied) \cap WantsShapes = {}
      <4>1. CASE PlanShaped(g, s)
        BY <1>0, <1>2, <3>2, <4>1 DEF Coverable, WantsOriginal, PlanShaped, Sizable
      <4>2. CASE d \in AllowsDynamic /\ WantsShapes = {}
        <5>1. Elements(Append(s.applied, d)) = Elements(s.applied) \cup {d}
          BY <1>0, ElementsAppend
        <5>2. \A k \in 1 .. Len(q.plan) : SizesOutputs(q.nodes[q.plan[k]])
          BY <1>1, <1>2, <4>2, <5>1 DEF NodesKnown, SizesOutputs
        <5> QED BY <1>0, <3>2, <5>2 DEF Coverable, WantsOriginal, Sizable
      <4> QED BY <1>3, <3>2, <4>1, <4>2
    <3> QED BY <3>1, <3>2
  <2> QED BY <1>0, <2>1, <2>2 DEF Fittable, Fit
<1>4. CASE d \notin AllowsDynamic
  <2> DEFINE z == [q EXCEPT !.state = "uninvokable"]
  <2>1. z.state = "uninvokable" /\ Delegated(g, h, s, z) /\ z.nodes = q.nodes /\ z.plan = q.plan
        /\ z \in Subgraphs(g, h) /\ SameNodes(q, z) /\ z.shaped = q.shaped
    BY <1>0 DEF Delegated, Subgraphs, States, SameNodes
  <2>2. PICK e \in EnsureMemoryAllocations(g, z) : AfterEnsured(g, e, "immutable", d, r)
    BY <1>4 DEF FinishDelegation, AfterEnsured
  <2> HIDE DEF z
  <2>3. Fittable(g, h, q) /\ PlanIsStatic(g, q)
    BY <1>2, <1>3, <1>4 DEF StaticFits
  <2>4. Fittable(g, h, z) /\ PlanIsStatic(g, z) /\ NodesKnown(z, Append(s.applied, d))
    BY <1>2, <2>1, <2>3
    DEF Fittable, Preparable, SameNodes, Coverable, WantsOriginal, Sizable, PlanIsStatic, HasDynamicOutputs, NodesKnown
  <2>5. "immutable" \in {"invokable", "immutable"}
    OBVIOUS
  <2> QED BY <2>1, <2>2, <2>4, <2>5, EnsuredFits
<1>5. CASE d \in AllowsDynamic /\ s.state = "invokable"
  <2>1. PICK e \in EnsureMemoryAllocations(g, q) : AfterEnsured(g, e, "invokable", d, r)
    BY <1>5 DEF FinishDelegation, AfterEnsured
  <2>2. WantsShapes # {} => PlanShaped(g, s)
    <3>1. PreparedFar(g, s) /\ s.next_to_prepare \in 1 .. Len(s.plan) + 1
      BY <1>1, <1>5 DEF Fit, Sound
    <3>2. g.dynamic = {} => PlanIsStatic(g, s)
      BY DEF PlanIsStatic, HasDynamicOutputs
    <3> QED BY <1>1, <3>1, <3>2, StaticShaped DEF Regular
  <2>3. Fittable(g, h, q)
    BY <1>3, <1>5, <2>2
  <2>4. "invokable" \in {"invokable", "immutable"} /\ "immutable" # "invokable"
    OBVIOUS
  <2>5. q.planner = <<>> => q.state = "uninvokable"
    BY <1>0
  <2> QED BY <1>2, <2>1, <2>3, <2>4, <2>5, EnsuredFits
<1>6. CASE d \in AllowsDynamic /\ s.state # "invokable"
  <2> DEFINE x == [q EXCEPT !.applied = Append(@, d)]
  <2>1. r = [status |-> "ok", sg |-> x]
    BY <1>6 DEF FinishDelegation, Outcome
  <2>2. x.nodes = q.nodes /\ x.plan = q.plan /\ x.applied = Append(s.applied, d)
        /\ x.state = "uninvokable" /\ x.shaped = s.shaped
    BY <1>0, <1>6 DEF Subgraphs, States
  <2> HIDE DEF x
  <2>3. r.sg = x
    BY <2>1
  <2> QED BY <1>2, <2>2, <2>3 DEF Fit, NodesKnown
<1> QED BY <1>4, <1>5, <1>6

(* ApplyDelegate on a subgraph that is not delegated all the way yet.      *)
LEMMA ApplyPreparedFits ==
    ASSUME NEW g, IsGraph(g), Regular(g), NEW h, NEW s, Sound(g, h, s), ~s.undone, s.state # "immutable",
           Fit(g, s), NEW d \in Delegates, StaticFits(g, s, d), NEW r \in ApplyPrepared(g, s, d)
    PROVE  Fit(g, r.sg)
<1> DEFINE z == IF s.applied = <<>> THEN [s EXCEPT !.pre_plan = s.plan] ELSE s
<1>0. /\ s \in Subgraphs(g, h) /\ GoodNodes(g, s.nodes) /\ GoodPlan(g, s.nodes, s.plan)
      /\ s.ready \subseteq 1 .. Len(s.nodes)
      /\ s.pre_plan \in {<<>>, Orig(g)}
      /\ s.pre_plan = <<>> => s.plan = Orig(g)
      /\ s.pre_plan # <<>> <=> s.applied # <<>>
      /\ s.planner = <<>> => s.state = "uninvokable"
  BY DEF Sound
<1>1. Orig(g) # <<>> /\ Orig(g) \in IndexLists
  BY GraphFacts DEF IndexLists
<1>2. /\ z \in Subgraphs(g, h) /\ z.nodes = s.nodes /\ z.plan = s.plan /\ z.pre_plan = Orig(g)
      /\ z.applied = s.applied /\ z.undone = s.undone /\ z.planner = s.planner
      /\ z.next_to_prepare = s.next_to_prepare /\ z.ready = s.ready /\ z.state = s.state
      /\ z.shaped = s.shaped
  <2>1. CASE s.applied = <<>>
    <3>1. z = [s EXCEPT !.pre_plan = Orig(g)]
      BY <1>0, <2>1
    <3> HIDE DEF z
    <3> QED BY <1>0, <1>1, <3>1 DEF Subgraphs
  <2>2. CASE s.applied # <<>>
    BY <1>0, <2>2
  <2> QED BY <2>1, <2>2
<1>3. PICK q \in DelegatePrepare(g, z, d) :
         r \in IF q.status = "ok" THEN FinishDelegation(g, q.sg, d, s.state = "invokable")
                                  ELSE ResetDelegation(g, q.sg)
  BY DEF ApplyPrepared
<1> HIDE DEF z
<1>4. /\ q \in Replacing(g, h, z)
      /\ q.status = "ok" => /\ GoodPlan(g, q.sg.nodes, q.sg.plan)
                            /\ q = ReplaceNodeSubsetsWithDelegateKernels(g, z, d, Claimed(g, z, d))
  BY <1>0, <1>2, <1>3, DelegatePrepareFacts
<1> DEFINE y == q.sg
<1>5. /\ y \in Subgraphs(g, h) /\ OnlyReplaced(z, y) /\ y.state \in {z.state, "uninvokable"}
      /\ GoodNodes(g, y.nodes) /\ Extends(z.nodes, y.nodes)
  BY <1>4 DEF Replacing
<1>6. /\ y.pre_plan = Orig(g) /\ y.applied = s.applied /\ ~y.undone
      /\ y.planner = s.planner /\ y.next_to_prepare = s.next_to_prepare
      /\ y.ready \subseteq 1 .. Len(y.nodes) /\ y.shaped = s.shaped
  <2>1. 1 .. Len(z.nodes) \subseteq 1 .. Len(y.nodes)
    BY <1>5 DEF Extends
  <2> QED BY <1>0, <1>2, <1>5, <2>1 DEF OnlyReplaced
<1>7. CASE q.status = "ok"
  <2>1. Delegated(g, h, s, y)
    BY <1>2, <1>4, <1>5, <1>6, <1>7 DEF Delegated
  <2>2. r \in FinishDelegation(g, y, d, s.state = "invokable")
    BY <1>3, <1>7
  <2>3. Made(s.nodes, s.plan, d, y.nodes, y.plan)
    BY <1>0, <1>2, <1>4, <1>7, ReplacedMade
  <2> HIDE DEF y
  <2> QED BY <1>6, <2>1, <2>2, <2>3, FinishFits
<1>8. CASE q.status # "ok"
  <2>1. r \in ResetDelegation(g, y)
    BY <1>3, <1>8
  <2>2. Removable(g, h, y)
    BY <1>0, <1>1, <1>2, <1>5, <1>6 DEF Removable
  <2> HIDE DEF y
  <2> QED BY <1>6, <2>1, <2>2, ResetFits DEF Fit
<1> QED BY <1>7, <1>8

-----------------------------------------------------------------------------
(* ModifyGraphWithDelegate behind RedoAllDelegates.                        *)
LEMMA ApplyFits ==
    ASSUME NEW g, IsGraph(g), Regular(g), NEW h, NEW s, Sound(g, h, s), ~s.undone, Fit(g, s),
           NEW d \in Delegates, NEW r \in ApplyDelegate(g, s, d)
    PROVE  Fit(g, r.sg)
<1>1. CASE s.state = "immutable"
  <2>1. r = [status |-> "application_error", sg |-> s]
    BY <1>1 DEF ApplyDelegate, Outcome
  <2>2. r.sg = s
    BY <2>1
  <2> QED BY <2>2
<1>2. CASE s.state # "immutable" /\ d \in AllowsDynamic
  BY <1>2, ApplyPreparedFits DEF ApplyDelegate, StaticFits
<1>3. CASE s.state # "immutable" /\ d \notin AllowsDynamic
  <2>1. PICK p \in PrepareOpsStartingAt(g, s, 1, s.plan) :
           IF p.status = "ok"
           THEN IF p.sg.has_dynamic
                THEN \E e \in EnsureMemoryAllocations(g, p.sg) :
                        r = IF e.status = "ok" THEN Outcome("application_error", e.sg) ELSE e
                ELSE r \in ApplyPrepared(g, p.sg, d)
           ELSE r = Outcome(p.status, p.sg)
    BY <1>3 DEF ApplyDelegate, Then
  <2>2. /\ s \in Subgraphs(g, h) /\ s.plan \in Seq(Nat) /\ Len(s.plan) \in Nat /\ 1 \in 1 .. Len(s.plan) + 1
        /\ \A k \in 1 .. Len(s.plan) : s.plan[k] \in 1 .. Len(s.nodes)
        /\ WellPlaced(g, s.nodes, s.plan) /\ g.in \subseteq s.shaped
        /\ s.state # "uninvokable" => s.next_to_prepare \in 1 .. Len(s.plan) + 1
    <3>1. s.state # "uninvokable" => s.next_to_prepare \in 1 .. Len(s.plan) + 1
      BY SoundFacts DEF Sound
    <3>2. Preparable(g, h, s) /\ Len(s.plan) \in Nat
      BY SoundFacts
    <3>3. s \in Subgraphs(g, h) /\ \A k \in 1 .. Len(s.plan) : s.plan[k] \in 1 .. Len(s.nodes)
      BY <3>2 DEF Preparable
    <3>4. s.plan \in Seq(Nat)
      BY <3>3 DEF Subgraphs, IndexLists
    <3>5. WellPlaced(g, s.nodes, s.plan)
      BY DEF Sound, GoodPlan
    <3> QED BY <3>1, <3>2, <3>3, <3>4, <3>5 DEF Fit
  <2> DEFINE q == p.sg
  <2>3. /\ q \in Prepared(g, h, s) /\ p.status \in {"ok", "error"}
        /\ p.status = "ok" =>
              (q.has_dynamic <=> \E k \in 1 .. Len(s.plan) : HasDynamicOutputs(g, s, s.plan[k]))
    BY <2>1, <2>2, PrepareOpsFacts
  <2>4. /\ g.in \subseteq q.shaped
        /\ SizableFrom(g, s, 1, s.plan) => FitsUpTo(g, s, s.plan, 1, p.last, q)
        /\ p.status = "ok" => \/ p.last = Len(s.plan)
                              \/ p.last \in 1 .. Len(s.plan) /\ HasDynamicOutputs(g, s, s.plan[p.last])
    <3>1. OutputsBefore(s.nodes, s.plan, 1) \subseteq s.shaped
      BY DEF OutputsBefore
    <3> QED BY <2>1, <2>2, <3>1, OpsFit
  <2>5. /\ Sound(g, h, q) /\ SameNodes(s, q) /\ q.state = s.state /\ q.planner = s.planner
        /\ q.nodes = s.nodes /\ q.plan = s.plan /\ q.applied = s.applied /\ ~q.undone
        /\ q.next_to_prepare = s.next_to_prepare
    BY <2>3, PreparedSound DEF SameNodes, Prepared, OnlyPrepared
  <2> HIDE DEF q
  <2>6. Elements(s.applied) \cap WantsShapes = {} \/ s.state # "uninvokable" => SizableFrom(g, s, 1, s.plan)
    <3>1. ASSUME s.state # "uninvokable" PROVE SizableFrom(g, s, 1, s.plan)
      <4>1. \A k \in 1 .. Len(s.plan) : k \in 1 .. s.next_to_prepare - 1
                                        \/ \A j \in 1 .. s.next_to_prepare - 1 : j \in 1 .. k - 1
        BY <2>2, <3>1
      <4>2. PreparedFar(g, s)
        BY <3>1 DEF Fit
      <4>3. \A k \in 1 .. s.next_to_prepare - 1 : Sizable(g, s, s.plan[k])
        BY <4>2 DEF PreparedFar, PreparedTo, PreparedNode, Sizable
      <4>4. s.next_to_prepare = Len(s.plan) + 1 => \A k \in 1 .. Len(s.plan) : k \in 1 .. s.next_to_prepare - 1
        BY <2>2
      <4> QED BY <4>1, <4>2, <4>3, <4>4 DEF SizableFrom, PreparedFar
    <3>2. ASSUME Elements(s.applied) \cap WantsShapes = {} PROVE SizableFrom(g, s, 1, s.plan)
      <4>1. Elements(s.applied) \subseteq AllowsDynamic
        BY <1>3, AppliedDynamic
      <4> QED BY <3>2, <4>1 DEF Fit, NodesKnown, SizableFrom, Sizable, SizesOutputs
    <3> QED BY <3>1, <3>2
  <2>7. Fit(g, q)
    <3>1. s.state # "uninvokable" => PreparedFar(g, q)
      BY <2>4, <2>5, <2>6, SameFar DEF Fit, FitsUpTo
    <3> QED BY <1>3, <2>4, <2>5, <3>1 DEF Fit, NodesKnown
  <2>8. CASE p.status # "ok"
    <3>1. r.sg = q
      BY <2>1, <2>8 DEF Outcome, q
    <3> QED BY <2>7, <3>1
  <2>9. CASE p.status = "ok" /\ q.has_dynamic
    <3>1. PICK e \in EnsureMemoryAllocations(g, q) :
             r = IF e.status = "ok" THEN Outcome("application_error", e.sg) ELSE e
      BY <2>1, <2>9 DEF q
    <3>2. r.sg = e.sg
      BY <3>1 DEF Outcome
    <3>3. Fittable(g, h, q) /\ (q.planner = <<>> => q.state = "uninvokable")
      BY <1>3, <2>5, <2>7, SoundFittable DEF Sound
    <3>4. /\ Grows(q, e.sg) /\ (e.status = "ok" => PreparedFar(g, e.sg)) /\ SameNodes(q, e.sg)
          /\ e.sg.state # "immutable" /\ (e.status # "ok" => e.sg.state = "uninvokable")
      BY <3>1, <3>3, EnsureFits, EnsureFacts DEF Fittable
    <3> QED BY <2>7, <3>2, <3>4 DEF Fit, Grows, SameNodes, NodesKnown
  <2>10. CASE p.status = "ok" /\ ~q.has_dynamic
    <3>1. r \in ApplyPrepared(g, q, d)
      BY <2>1, <2>10 DEF q
    <3>2. PlanIsStatic(g, s) /\ PlanIsStatic(g, q) /\ p.last = Len(s.plan)
      BY <2>3, <2>4, <2>5, <2>10 DEF PlanIsStatic, HasDynamicOutputs
    <3>3. Elements(s.applied) \cap WantsShapes = {} => PlanShaped(g, q)
      BY <2>4, <2>5, <2>6, <3>2 DEF FitsUpTo, PreparedNode, PlanShaped
    <3>4. StaticFits(g, q, d)
      BY <2>5, <3>2, <3>3 DEF StaticFits
    <3> QED BY <1>3, <2>5, <2>7, <3>1, <3>4, ApplyPreparedFits
  <2> QED BY <2>3, <2>8, <2>9, <2>10
<1> QED BY <1>1, <1>2, <1>3

-----------------------------------------------------------------------------
(* Two such replacements, with the same result until one of them fails.    *)
SameResult(r, q) == r.status = "ok" /\ q.status = "ok" => r.sg.nodes = q.sg.nodes /\ r.sg.plan = q.sg.plan

(* What the partition makes of the nodes does not depend on the rest of    *)
(* the subgraph.                                                           *)
LEMMA ReplaceOneWay ==
    ASSUME NEW g, IsGraph(g), NEW h, NEW s \in Subgraphs(g, h), NEW z \in Subgraphs(g, h),
           z.nodes = s.nodes, z.plan = s.plan, GoodNodes(g, s.nodes), GoodPlan(g, s.nodes, s.plan),
           NEW d \in Delegates, NEW claimed
    PROVE  SameResult(ReplaceNodeSubsetsWithDelegateKernels(g, s, d, claimed),
                      ReplaceNodeSubsetsWithDelegateKernels(g, z, d, claimed))
<1> DEFINE nodes == s.nodes
           plan == s.plan
           p == Parts(g, nodes, plan, claimed)
           r == ReplaceNodeSubsetsWithDelegateKernels(g, s, d, claimed)
           q == ReplaceNodeSubsetsWithDelegateKernels(g, z, d, claimed)
<1>1. CASE claimed = {}
  <2>1. r = [status |-> "ok", sg |-> s] /\ q = [status |-> "ok", sg |-> z]
    BY <1>1 DEF ReplaceNodeSubsetsWithDelegateKernels, Outcome
  <2> HIDE DEF r, q
  <2>2. SameResult(r, q)
    BY <2>1 DEF SameResult
  <2> QED BY <2>2 DEF r, q
<1>2. CASE claimed # {}
  <2>1. r = ReplaceAll(s, d, p) /\ q = ReplaceAll(z, d, p)
    <3>1. r = ReplaceAll(s, d, p)
      BY <1>2 DEF ReplaceNodeSubsetsWithDelegateKernels, ReplaceAll, Parts, InsOf, OutsOf, ReplaceStart
    <3>2. q = ReplaceAll(z, d, p)
      BY <1>2 DEF ReplaceNodeSubsetsWithDelegateKernels, ReplaceAll, Parts, InsOf, OutsOf, ReplaceStart
    <3> QED BY <3>1, <3>2
  <2>2. WellPlaced(g, nodes, plan) /\ nodes \in NodeLists(g)
    BY DEF GoodPlan, GoodNodes
  <2>3. PICK ss : IsCutOf(g, nodes, plan, claimed, ss)
    BY <2>2, PlanParts
  <2>4. Len(p) = Len(ss) /\ Len(ss) \in Nat
    BY <2>3 DEF IsCutOf
  <2> HIDE DEF r, q, p, nodes, plan
  <2>5. \A k \in 1 .. Len(p) : IsPart(g, p[k])
    BY <2>2, <2>3, <2>4, PartsTyped DEF p
  <2>6. PICK f : IsReplaceRun(f, g, h, s, d, p)
    BY <2>4, <2>5, ReplaceRuns
  <2>7. PICK e : IsReplaceRun(e, g, h, z, d, p)
    BY <2>4, <2>5, ReplaceRuns
  <2> DEFINE T == {k \in 0 .. Len(p) : SameResult(f[k], e[k])}
  <2>8. 0 \in T
    <3>1. /\ f[0].sg.plan = <<>> /\ f[0].sg.nodes = s.nodes
          /\ e[0].sg.plan = <<>> /\ e[0].sg.nodes = z.nodes
      BY <2>6, <2>7, ReplaceStarts DEF IsReplaceRun
    <3>2. 0 \in 0 .. Len(p)
      BY <2>4
    <3> QED BY <3>1, <3>2 DEF SameResult
  <2>9. ASSUME NEW k \in 1 .. Len(p), k - 1 \in T PROVE k \in T
    <3> DEFINE a == f[k - 1]
               b == e[k - 1]
               x == f[k]
               y == e[k]
    <3>1. /\ ReplacedBy(a, p[k], d, x) /\ a \in Replacing(g, h, s)
          /\ ReplacedBy(b, p[k], d, y) /\ b \in Replacing(g, h, z)
      BY <2>4, <2>6, <2>7 DEF IsReplaceRun
    <3>2. SameResult(a, b)
      BY <2>9
    <3> HIDE DEF a, b, x, y
    <3>3. SUFFICES ASSUME x.status = "ok", y.status = "ok" PROVE x.sg.nodes = y.sg.nodes /\ x.sg.plan = y.sg.plan
      BY <2>4 DEF SameResult, x, y
    <3>4. a.status \in {"ok", "error"} /\ b.status \in {"ok", "error"}
      BY <3>1 DEF Replacing
    <3>5. a.status = "ok" /\ b.status = "ok"
      BY <3>1, <3>3, <3>4 DEF ReplacedBy
    <3>6. a.sg.nodes = b.sg.nodes /\ a.sg.plan = b.sg.plan
      BY <3>2, <3>5 DEF SameResult
    <3>7. CASE p[k].type = "non_partition"
      BY <3>1, <3>3, <3>5, <3>6, <3>7 DEF ReplacedBy
    <3>8. CASE p[k].type = "partition"
      <4>1. /\ x.sg.nodes = Append(a.sg.nodes, NodeFor(p[k], d)) /\ x.sg.plan = a.sg.plan \o <<Len(x.sg.nodes)>>
            /\ y.sg.nodes = Append(b.sg.nodes, NodeFor(p[k], d)) /\ y.sg.plan = b.sg.plan \o <<Len(y.sg.nodes)>>
        BY <3>1, <3>3, <3>5, <3>8 DEF ReplacedBy
      <4>2. x.sg.nodes = y.sg.nodes
        BY <3>6, <4>1
      <4> QED BY <3>6, <4>1, <4>2
    <3> QED BY <2>5, <3>7, <3>8 DEF IsPart
  <2>10. Len(p) \in T
    <3> HIDE DEF T
    <3>1. \A k \in 0 .. Len(p) : k \in T
      BY <2>4, <2>8, <2>9, UpTo
    <3> QED BY <2>4, <3>1
  <2>11. r = f[Len(p)] /\ q = e[Len(p)]
    BY <2>1, <2>6, <2>7 DEF IsReplaceRun
  <2>12. SameResult(r, q)
    BY <2>10, <2>11
  <2> QED BY <2>12 DEF r, q
<1> QED BY <1>1, <1>2

(* A delegate leads to the same nodes and plan again.                      *)
LEMMA TakesOneWay ==
    ASSUME NEW g, IsGraph(g), NEW h, NEW nodes, NEW plan, GoodNodes(g, nodes), GoodPlan(g, nodes, plan),
           NEW d \in Delegates, NEW n1, NEW p1, NEW n2, NEW p2,
           TakesTo(g, h, nodes, plan, d, n1, p1), TakesTo(g, h, nodes, plan, d, n2, p2)
    PROVE  n1 = n2 /\ p1 = p2
<1> DEFINE R(x) == ReplaceNodeSubsetsWithDelegateKernels(g, x, d, Claimed(g, x, d))
<1>1. PICK s \in Subgraphs(g, h) : /\ s.nodes = nodes /\ s.plan = plan
                                   /\ R(s).status = "ok" /\ R(s).sg.nodes = n1 /\ R(s).sg.plan = p1
  BY DEF TakesTo
<1>2. PICK z \in Subgraphs(g, h) : /\ z.nodes = nodes /\ z.plan = plan
                                   /\ R(z).status = "ok" /\ R(z).sg.nodes = n2 /\ R(z).sg.plan = p2
  BY DEF TakesTo
<1>3. Claimed(g, s, d) = Claimed(g, z, d)
  BY <1>1, <1>2 DEF Claimed
<1>4. SameResult(R(s), R(z))
  BY <1>1, <1>2, <1>3, ReplaceOneWay
<1> HIDE DEF R
<1> QED BY <1>1, <1>2, <1>4 DEF SameResult

-----------------------------------------------------------------------------
(* How the delegates ds came to the nodes and the plan of hist[Len(ds)].   *)
StaticPlan(g, nodes, plan) == \A k \in 1 .. Len(plan) : nodes[plan[k]].outputs \cap g.dynamic = {}

IsHistory(g, h, ds, hist) ==
    /\ DOMAIN hist = 0 .. Len(ds)
    /\ hist[0].nodes = OrigNodes(g) /\ hist[0].plan = Orig(g)
    /\ \A k \in 0 .. Len(ds) : GoodNodes(g, hist[k].nodes) /\ GoodPlan(g, hist[k].nodes, hist[k].plan)
    /\ \A k \in 1 .. Len(ds) :
          TakesTo(g, h, hist[k - 1].nodes, hist[k - 1].plan, ds[k], hist[k].nodes, hist[k].plan)

(* The history of a subgraph, also of one whose delegates are undone: no   *)
(* node had dynamic outputs when the last, a static one, came.             *)
RecordedBy(g, h, s, hist) ==
    /\ IsHistory(g, h, s.applied, hist)
    /\ ~s.undone => hist[Len(s.applied)].nodes = s.nodes /\ hist[Len(s.applied)].plan = s.plan
    /\ s.undone \/ s.state = "immutable" =>
          StaticPlan(g, hist[Len(s.applied) - 1].nodes, hist[Len(s.applied) - 1].plan)

Recorded(g, h, s) == \E hist : RecordedBy(g, h, s, hist)

(* A subgraph without delegates has a history of length zero.              *)
LEMMA RestoredRecorded ==
    ASSUME NEW g, IsGraph(g), NEW h, NEW s, s.nodes = OrigNodes(g), s.plan = Orig(g), s.applied = <<>>,
           ~s.undone, s.state # "immutable"
    PROVE  Recorded(g, h, s)
<1> DEFINE o == [nodes |-> OrigNodes(g), plan |-> Orig(g)]
           hist == [k \in 0 .. 0 |-> o]
<1>1. GoodNodes(g, OrigNodes(g)) /\ GoodPlan(g, OrigNodes(g), Orig(g))
  BY GraphFacts, OrigIsGood
<1>2. Len(<<>>) = 0 /\ 0 \in 0 .. 0 /\ \A k \in 0 .. 0 : k = 0
  OBVIOUS
<1>3. DOMAIN hist = 0 .. 0 /\ hist[0].nodes = OrigNodes(g) /\ hist[0].plan = Orig(g)
  BY <1>2
<1> HIDE DEF hist
<1>4. IsHistory(g, h, s.applied, hist)
  BY <1>1, <1>2, <1>3 DEF IsHistory
<1>5. RecordedBy(g, h, s, hist)
  BY <1>2, <1>3, <1>4 DEF RecordedBy
<1> QED BY <1>5 DEF Recorded

(* The history is about the nodes, the plan and the delegates only.        *)
LEMMA SameRecorded ==
    ASSUME NEW g, NEW h, NEW s, Recorded(g, h, s), NEW q, SameNodes(s, q),
           q.state = "immutable" => s.state = "immutable"
    PROVE  Recorded(g, h, q)
<1>1. PICK hist : RecordedBy(g, h, s, hist)
  BY DEF Recorded
<1>2. q.nodes = s.nodes /\ q.plan = s.plan /\ q.applied = s.applied /\ q.undone = s.undone
  BY DEF SameNodes
<1>3. RecordedBy(g, h, q, hist)
  BY <1>1, <1>2 DEF RecordedBy
<1> QED BY <1>3 DEF Recorded

(* A delegate that is applied has its place in the history.                *)
LEMMA AppliedRecorded ==
    ASSUME NEW g, IsGraph(g), NEW h, NEW s, Sound(g, h, s), Recorded(g, h, s), ~s.undone,
           NEW d \in Delegates, NEW q, Sound(g, h, q), ~q.undone, q.applied = Append(s.applied, d),
           q.state = "immutable" => PlanIsStatic(g, s),
           TakesTo(g, h, s.nodes, s.plan, d, q.nodes, q.plan)
    PROVE  Recorded(g, h, q)
<1> DEFINE n == Len(s.applied)
           e == [nodes |-> q.nodes, plan |-> q.plan]
<1>1. PICK hist : RecordedBy(g, h, s, hist)
  BY DEF Recorded
<1>2. IsHistory(g, h, s.applied, hist) /\ hist[n].nodes = s.nodes /\ hist[n].plan = s.plan
  BY <1>1 DEF RecordedBy
<1>3. n \in Nat /\ Len(q.applied) = n + 1 /\ q.applied[n + 1] = d
      /\ \A k \in 1 .. n : q.applied[k] = s.applied[k]
  BY AppendProperties, LenProperties DEF Sound, Subgraphs, DelegateLists
<1> DEFINE next == [k \in 0 .. n + 1 |-> IF k = n + 1 THEN e ELSE hist[k]]
<1>4. DOMAIN next = 0 .. n + 1 /\ next[n + 1] = e /\ \A k \in 0 .. n : next[k] = hist[k]
  BY <1>3
<1>5. e.nodes = q.nodes /\ e.plan = q.plan
  OBVIOUS
<1> HIDE DEF next, e, n
<1>6. IsHistory(g, h, q.applied, next)
  <2>1. GoodNodes(g, q.nodes) /\ GoodPlan(g, q.nodes, q.plan)
    BY DEF Sound
  <2>2. /\ DOMAIN hist = 0 .. n
        /\ hist[0].nodes = OrigNodes(g) /\ hist[0].plan = Orig(g)
        /\ \A k \in 0 .. n : GoodNodes(g, hist[k].nodes) /\ GoodPlan(g, hist[k].nodes, hist[k].plan)
        /\ \A k \in 1 .. n :
              TakesTo(g, h, hist[k - 1].nodes, hist[k - 1].plan, s.applied[k], hist[k].nodes, hist[k].plan)
    BY <1>2 DEF IsHistory, n
  <2>3. \A k \in 0 .. n + 1 : k \in 0 .. n \/ k = n + 1
    BY <1>3
  <2>4. \A k \in 0 .. n + 1 : GoodNodes(g, next[k].nodes) /\ GoodPlan(g, next[k].nodes, next[k].plan)
    BY <1>4, <1>5, <2>1, <2>2, <2>3
  <2>5. ASSUME NEW k \in 1 .. n + 1
        PROVE  TakesTo(g, h, next[k - 1].nodes, next[k - 1].plan, q.applied[k], next[k].nodes, next[k].plan)
    <3>1. CASE k \in 1 .. n
      <4>1. k - 1 \in 0 .. n /\ k \in 0 .. n
        BY <1>3, <3>1
      <4> QED BY <1>3, <1>4, <2>2, <3>1, <4>1
    <3>2. CASE k = n + 1
      <4>1. k - 1 = n /\ n \in 0 .. n
        BY <1>3, <3>2
      <4> QED BY <1>2, <1>3, <1>4, <1>5, <3>2, <4>1
    <3> QED BY <1>3, <3>1, <3>2
  <2>6. next[0] = hist[0]
    BY <1>3, <1>4
  <2> QED BY <1>3, <1>4, <2>2, <2>4, <2>5, <2>6 DEF IsHistory
<1>7. RecordedBy(g, h, q, next)
  <2>1. next[Len(q.applied)].nodes = q.nodes /\ next[Len(q.applied)].plan = q.plan
    BY <1>3, <1>4, <1>5
  <2>2. PlanIsStatic(g, s) => StaticPlan(g, s.nodes, s.plan)
    BY DEF PlanIsStatic, StaticPlan, HasDynamicOutputs
  <2>3. next[Len(q.applied) - 1] = hist[n]
    BY <1>3, <1>4
  <2> QED BY <1>2, <1>6, <2>1, <2>2, <2>3 DEF RecordedBy
<1> QED BY <1>7 DEF Recorded

(* What is known of a subgraph between two operations.                     *)
Known(g, h, s) == Sound(g, h, s) /\ Recorded(g, h, s) /\ (Regular(g) => Fit(g, s))

(* A subgraph whose delegates are removed is known.                        *)
LEMMA RestoredKnown ==
    ASSUME NEW g, IsGraph(g), NEW h, NEW s, Sound(g, h, s), Restored(g, s), Regular(g) => Fit(g, s)
    PROVE  Known(g, h, s)
<1>1. Recorded(g, h, s)
  BY RestoredRecorded DEF Restored
<1> QED BY <1>1 DEF Known

(* However an application ends, the subgraph is known again.               *)
LEMMA AppliesKnown ==
    ASSUME NEW g, IsGraph(g), NEW h, NEW s, Known(g, h, s), ~s.undone, NEW d \in Delegates,
           NEW r, Applies(g, h, s, d, r), Regular(g) => Fit(g, r.sg)
    PROVE  Known(g, h, r.sg)
<1>1. Sound(g, h, r.sg) /\ ~r.sg.undone
      /\ r.status \in {"ok", "delegate_error", "application_error", "error"}
  BY DEF Applies
<1>2. CASE r.status = "ok"
  <2>1. /\ r.sg.applied = Append(s.applied, d)
        /\ r.sg.state = IF d \in AllowsDynamic THEN s.state ELSE "immutable"
        /\ s.state # "immutable" /\ (d \notin AllowsDynamic => PlanIsStatic(g, s))
        /\ TakesTo(g, h, s.nodes, s.plan, d, r.sg.nodes, r.sg.plan)
    BY <1>2 DEF Applies
  <2>2. Recorded(g, h, r.sg)
    BY <1>1, <2>1, AppliedRecorded DEF Known
  <2> QED BY <1>1, <2>2 DEF Known
<1>3. CASE r.status = "delegate_error"
  BY <1>1, <1>3, RestoredKnown DEF Applies
<1>4. CASE r.status = "application_error"
  <2>1. r.sg = s \/ (SameNodes(s, r.sg) /\ r.sg.state # "immutable")
    BY <1>4 DEF Applies
  <2>2. \/ SameNodes(s, r.sg) /\ (r.sg.state = "immutable" => s.state = "immutable")
        \/ r.sg = s
    BY <2>1
  <2> QED BY <1>1, <2>2, SameRecorded DEF Known
<1>5. CASE r.status = "error"
  <2>1. Restored(g, r.sg) \/ (SameNodes(s, r.sg) /\ r.sg.state # "immutable")
    BY <1>5 DEF Applies
  <2> QED BY <1>1, <2>1, RestoredKnown, SameRecorded DEF Known
<1> QED BY <1>1, <1>2, <1>3, <1>4, <1>5

-----------------------------------------------------------------------------
(* When re-applying the delegates of s may fail for a node.                *)
Brittle(g, s) ==
    "cpu_prepare" \in g.faults
    \/ ("kernel_prepare" \in g.faults /\ \E d \in Elements(s.applied) : d \in AllowsDynamic)

(* What RedoAllDelegates gives.                                            *)
Redone(g, h, s, r) ==
    /\ r.status \in {"ok", "delegate_error", "error"}
    /\ Known(g, h, r.sg) /\ ~r.sg.undone
    /\ s.planner # <<>> => r.sg.planner # <<>>
    /\ ~s.undone => r.status = "ok" /\ r.sg = s
    /\ s.undone /\ r.status = "ok" =>
          r.sg.applied = s.applied /\ r.sg.state = "immutable" /\ Planned(r.sg)
    /\ r.status = "delegate_error" => Restored(g, r.sg) /\ r.sg.state = "invokable"
    /\ r.status = "error" => Brittle(g, s) /\ r.sg.state # "immutable"

(* The loop of RedoAllDelegates, after k delegates.                        *)
RedoStart(s) == [s EXCEPT !.undone = FALSE, !.applied = <<>>]

RedoOutcome(g, h, s, hist, k, r) ==
    /\ r.status \in {"ok", "delegate_error", "error"}
    /\ Known(g, h, r.sg) /\ ~r.sg.undone
    /\ s.planner # <<>> => r.sg.planner # <<>>
    /\ r.status = "ok" =>
          /\ Len(r.sg.applied) = k /\ \A j \in 1 .. k : r.sg.applied[j] = s.applied[j]
          /\ r.sg.nodes = hist[k].nodes /\ r.sg.plan = hist[k].plan
          /\ k < Len(s.applied) => r.sg.state = "uninvokable"
          /\ k = Len(s.applied) => r.sg.state = "immutable" /\ Planned(r.sg)
    /\ r.status = "delegate_error" => Restored(g, r.sg) /\ r.sg.state = "invokable"
    /\ r.status = "error" => Brittle(g, s) /\ r.sg.state # "immutable"

(* It begins with the plan of the model.                                   *)
LEMMA RedoStarts ==
    ASSUME NEW g, IsGraph(g), NEW h, NEW s, Known(g, h, s), s.undone, NEW hist, RecordedBy(g, h, s, hist)
    PROVE  RedoOutcome(g, h, s, hist, 0, Outcome("ok", RedoStart(s)))
<1> DEFINE z == RedoStart(s)
           r == Outcome("ok", z)
<1>0. /\ s \in Subgraphs(g, h) /\ s.pre_plan = <<>> /\ s.state = "uninvokable" /\ s.applied # <<>>
      /\ s.nodes = OrigNodes(g) /\ s.plan = Orig(g) /\ Sound(g, h, s)
  BY DEF Known, Sound, AppliedOrder
<1>1. /\ z \in Subgraphs(g, h) /\ z.nodes = s.nodes /\ z.plan = s.plan /\ z.pre_plan = <<>>
      /\ z.applied = <<>> /\ z.undone = FALSE /\ z.state = "uninvokable" /\ z.planner = s.planner
      /\ z.ready = s.ready /\ z.next_to_prepare = s.next_to_prepare /\ z.shaped = s.shaped
  <2>1. <<>> \in DelegateLists
    BY DEF DelegateLists
  <2> QED BY <1>0, <2>1 DEF RedoStart, Subgraphs
<1>2. r.status = "ok" /\ r.sg = z
  <2>1. r = [status |-> "ok", sg |-> z]
    BY DEF Outcome
  <2> QED BY <2>1
<1> HIDE DEF z, r
<1>3. Len(<<>>) = 0
  OBVIOUS
<1>4. AppliedOrder(z)
  BY <1>1, <1>3 DEF AppliedOrder
<1>5. Sound(g, h, z)
  BY <1>0, <1>1, <1>4 DEF Sound
<1>6. Recorded(g, h, z)
  BY <1>0, <1>1, RestoredRecorded
<1>7. 0 < Len(s.applied)
  <2>1. s.applied \in Seq(Delegates)
    BY <1>0 DEF Subgraphs, DelegateLists
  <2> QED BY <1>0, <2>1, EmptySeq, LenProperties
<1>8. hist[0].nodes = s.nodes /\ hist[0].plan = s.plan
  BY <1>0 DEF RecordedBy, IsHistory
<1>9. Regular(g) => Fit(g, z)
  <2>1. \A k \in 1 .. Len(Orig(g)) : OrigNodes(g)[Orig(g)[k]].delegate = NoDelegate
    BY OrigUnowned
  <2> QED BY <1>0, <1>1, <2>1 DEF Known, Fit, NodesKnown
<1>10. RedoOutcome(g, h, s, hist, 0, r)
  BY <1>1, <1>2, <1>3, <1>5, <1>6, <1>7, <1>8, <1>9 DEF RedoOutcome, Known
<1> QED BY <1>10 DEF r, z

(* One delegate is applied again.                                          *)
LEMMA RedoGoesOn ==
    ASSUME NEW g, IsGraph(g), NEW h, NEW s, Sound(g, h, s), s.undone, NEW hist, RecordedBy(g, h, s, hist),
           NEW k \in 1 .. Len(s.applied), NEW r, RedoOutcome(g, h, s, hist, k - 1, r), r.status = "ok",
           NEW o \in ApplyDelegate(g, r.sg, s.applied[k])
    PROVE  RedoOutcome(g, h, s, hist, k, o)
<1> DEFINE d == s.applied[k]
           q == r.sg
           n == Len(s.applied)
<1>1. s.applied \in DelegateLists /\ n \in Nat /\ d \in Delegates /\ k \in 1 .. n
  <2>1. s.applied \in Seq(Delegates)
    BY DEF Sound, Subgraphs, DelegateLists
  <2> QED BY <2>1, LenProperties, ElementOfSeq DEF DelegateLists
<1>2. /\ Known(g, h, q) /\ ~q.undone /\ (s.planner # <<>> => q.planner # <<>>)
      /\ Len(q.applied) = k - 1 /\ \A j \in 1 .. k - 1 : q.applied[j] = s.applied[j]
      /\ q.nodes = hist[k - 1].nodes /\ q.plan = hist[k - 1].plan
      /\ q.state = "uninvokable"
  BY <1>1 DEF RedoOutcome
<1>3. /\ \A j \in 1 .. n : s.applied[j] \notin AllowsDynamic => j = n
      /\ s.applied[n] \notin AllowsDynamic
  BY DEF Sound, AppliedOrder
<1> HIDE DEF q, d, n
<1>4. Applies(g, h, q, d, o)
  BY <1>1, <1>2, ApplyFacts DEF q, d, Known
<1>5. Known(g, h, o.sg) /\ ~o.sg.undone /\ (s.planner # <<>> => o.sg.planner # <<>>)
  <2>1. Regular(g) => Fit(g, o.sg)
    BY <1>1, <1>2, ApplyFits DEF q, d, Known
  <2>2. Known(g, h, o.sg)
    BY <1>1, <1>2, <1>4, <2>1, AppliesKnown
  <2> QED BY <1>2, <1>4, <2>2 DEF Applies
<1>6. CASE o.status = "ok"
  <2>1. /\ o.sg.applied = Append(q.applied, d)
        /\ o.sg.state = IF d \in AllowsDynamic THEN q.state ELSE "immutable"
        /\ d \notin AllowsDynamic => Planned(o.sg)
        /\ TakesTo(g, h, q.nodes, q.plan, d, o.sg.nodes, o.sg.plan)
    BY <1>4, <1>6 DEF Applies
  <2>2. /\ TakesTo(g, h, hist[k - 1].nodes, hist[k - 1].plan, d, hist[k].nodes, hist[k].plan)
        /\ GoodNodes(g, hist[k - 1].nodes) /\ GoodPlan(g, hist[k - 1].nodes, hist[k - 1].plan)
    <3>1. k \in 1 .. Len(s.applied) /\ k - 1 \in 0 .. Len(s.applied)
      BY <1>1 DEF n
    <3> QED BY <3>1 DEF RecordedBy, IsHistory, d
  <2>3. o.sg.nodes = hist[k].nodes /\ o.sg.plan = hist[k].plan
    BY <1>1, <1>2, <2>1, <2>2, TakesOneWay
  <2>4. Len(o.sg.applied) = k /\ \A j \in 1 .. k : o.sg.applied[j] = s.applied[j]
    <3>1. q.applied \in Seq(Delegates)
      BY <1>2 DEF Known, Sound, Subgraphs, DelegateLists
    <3>2. /\ Len(o.sg.applied) = k /\ o.sg.applied[k] = d
          /\ \A j \in 1 .. k - 1 : o.sg.applied[j] = q.applied[j]
      BY <1>1, <1>2, <2>1, <3>1, AppendProperties
    <3>3. \A j \in 1 .. k : j \in 1 .. k - 1 \/ j = k
      BY <1>1
    <3> QED BY <1>2, <3>2, <3>3 DEF d
  <2>5. k < n => d \in AllowsDynamic
    BY <1>1, <1>3 DEF d
  <2>6. k = n => d \notin AllowsDynamic
    BY <1>3 DEF d
  <2>7. k < n => o.sg.state = "uninvokable"
    BY <1>2, <2>1, <2>5
  <2>8. k = n => o.sg.state = "immutable" /\ Planned(o.sg)
    BY <2>1, <2>6
  <2> QED BY <1>5, <1>6, <2>3, <2>4, <2>7, <2>8 DEF RedoOutcome, n
<1>7. CASE o.status = "delegate_error"
  BY <1>4, <1>5, <1>7 DEF RedoOutcome, Applies
<1>8. o.status # "application_error"
  <2> SUFFICES ASSUME o.status = "application_error" PROVE FALSE
    OBVIOUS
  <2>1. d \notin AllowsDynamic /\ ~PlanIsStatic(g, q)
    BY <1>2, <1>4 DEF Applies
  <2>2. k = n
    BY <1>1, <1>3, <2>1 DEF d
  <2>3. StaticPlan(g, hist[k - 1].nodes, hist[k - 1].plan)
    BY <2>2 DEF RecordedBy, n
  <2> QED BY <1>2, <2>1, <2>3 DEF StaticPlan, PlanIsStatic, HasDynamicOutputs
<1>9. CASE o.status = "error"
  <2>1. Faulty(g, q)
    BY <1>4, <1>9 DEF Applies
  <2>2. Brittle(g, s)
    <3>1. CASE "cpu_prepare" \in g.faults
      BY <3>1 DEF Brittle
    <3>2. CASE "kernel_prepare" \in g.faults /\ q.pre_plan # <<>>
      <4>1. q.applied # <<>> /\ q.applied \in Seq(Delegates)
        BY <1>2, <3>2 DEF Known, Sound, Subgraphs, DelegateLists
      <4>2. k - 1 > 0
        BY <1>1, <1>2, <4>1, EmptySeq, LenProperties
      <4>3. 1 \in 1 .. n /\ 1 # n
        BY <1>1, <4>2
      <4>4. s.applied[1] \in AllowsDynamic /\ s.applied[1] \in Elements(s.applied)
        BY <1>3, <4>3 DEF Elements, n
      <4> QED BY <3>2, <4>4 DEF Brittle
    <3> QED BY <2>1, <3>1, <3>2 DEF Faulty
  <2>3. o.sg.state # "immutable"
    BY <1>4, <1>9 DEF Applies
  <2> QED BY <1>5, <1>9, <2>2, <2>3 DEF RedoOutcome
<1> QED BY <1>4, <1>6, <1>7, <1>8, <1>9 DEF Applies

(* RedoAllDelegates.                                                       *)
LEMMA RedoFacts ==
    ASSUME NEW g, IsGraph(g), NEW h, NEW s, Known(g, h, s), NEW r \in RedoAllDelegates(g, s)
    PROVE  Redone(g, h, s, r)
<1>1. CASE ~s.undone
  <2>1. r = [status |-> "ok", sg |-> s]
    BY <1>1 DEF RedoAllDelegates, Outcome
  <2>2. r.status = "ok" /\ r.sg = s
    BY <2>1
  <2> QED BY <1>1, <2>2 DEF Redone
<1>2. CASE s.undone
  <2> DEFINE n == Len(s.applied)
             base == {Outcome("ok", RedoStart(s))}
             Go(rs, k) == Then(rs, LAMBDA q : ApplyDelegate(g, q, s.applied[k]))
             After(f, m) == [k \in 0 .. m |-> IF k = 0 THEN base ELSE Go(f[k - 1], k)]
             run == CHOOSE f : f = After(f, n)
  <2>1. PICK hist : RecordedBy(g, h, s, hist)
    BY DEF Known, Recorded
  <2>2. RedoAllDelegates(g, s) = run[n]
    BY <1>2 DEF RedoAllDelegates, Fold, RedoStart
  <2>3. ASSUME NEW rs, NEW k, NEW o \in Go(rs, k)
        PROVE  \E x \in rs : IF x.status = "ok" THEN o \in ApplyDelegate(g, x.sg, s.applied[k])
                                               ELSE o = Outcome(x.status, x.sg)
    BY <2>3 DEF Then
  <2>4. n \in Nat
    <3>1. s.applied \in Seq(Delegates)
      BY DEF Known, Sound, Subgraphs, DelegateLists
    <3> QED BY <3>1, LenProperties
  <2>5. ASSUME NEW f, NEW m \in Nat, NEW k \in 0 .. m
        PROVE  After(f, m)[k] = IF k = 0 THEN base ELSE Go(f[k - 1], k)
    OBVIOUS
  <2>6. ASSUME NEW f, NEW m PROVE After(f, m) = [k \in 0 .. m |-> After(f, m)[k]]
    OBVIOUS
  <2>7. Outcome("ok", RedoStart(s)) \in base /\ \A x \in base : x = Outcome("ok", RedoStart(s))
    OBVIOUS
  <2> HIDE DEF n, base, Go, After
  <2>8. run = After(run, n)
    <3> DEFINE T == {m \in 0 .. n : \E f : f = After(f, m)}
    <3>1. 0 \in T
      <4> DEFINE f == [k \in 0 .. 0 |-> base]
      <4>1. \A k \in 0 .. 0 : f[k] = After(f, 0)[k]
        BY <2>5
      <4>2. f = [k \in 0 .. 0 |-> f[k]]
        OBVIOUS
      <4> HIDE DEF f
      <4>3. f = After(f, 0)
        BY <2>6, <4>1, <4>2
      <4> QED BY <2>4, <4>3
    <3>2. ASSUME NEW m \in 1 .. n, m - 1 \in T PROVE m \in T
      <4>1. PICK e : e = After(e, m - 1)
        BY <3>2
      <4> DEFINE f == [k \in 0 .. m |-> IF k = m THEN Go(e[m - 1], m) ELSE e[k]]
      <4>2. m \in Nat /\ m - 1 \in Nat /\ m # 0 /\ \A k \in 0 .. m : k = m \/ k \in 0 .. m - 1
        BY <2>4
      <4>3. f[m] = Go(e[m - 1], m) /\ \A k \in 0 .. m - 1 : f[k] = e[k]
        BY <4>2
      <4>4. f = [k \in 0 .. m |-> f[k]]
        OBVIOUS
      <4> HIDE DEF f
      <4>5. ASSUME NEW k \in 0 .. m PROVE f[k] = After(f, m)[k]
        <5>1. CASE k = 0
          BY <2>5, <4>1, <4>2, <4>3, <5>1
        <5>2. CASE k \in 1 .. m - 1
          <6>1. k \in 0 .. m - 1 /\ k - 1 \in 0 .. m - 1 /\ k # 0
            BY <4>2, <5>2
          <6>2. e[k] = Go(e[k - 1], k)
            BY <2>5, <4>1, <4>2, <6>1
          <6> QED BY <2>5, <4>2, <4>3, <6>1, <6>2
        <5>3. CASE k = m
          <6>1. m - 1 \in 0 .. m - 1
            BY <4>2
          <6> QED BY <2>5, <4>2, <4>3, <5>3, <6>1
        <5> QED BY <4>2, <5>1, <5>2, <5>3
      <4>6. f = After(f, m)
        BY <2>6, <4>4, <4>5
      <4> QED BY <4>6
    <3>3. n \in T
      <4> HIDE DEF T
      <4>1. \A m \in 0 .. n : m \in T
        BY <2>4, <3>1, <3>2, UpTo
      <4> QED BY <2>4, <4>1
    <3> QED BY <3>3
  <2> HIDE DEF run
  <2> DEFINE T == {k \in 0 .. n : \A x \in run[k] : RedoOutcome(g, h, s, hist, k, x)}
  <2>9. 0 \in T
    <3>1. run[0] = base /\ 0 \in 0 .. n
      BY <2>4, <2>5, <2>8
    <3>2. \A x \in run[0] : RedoOutcome(g, h, s, hist, 0, x)
      BY <1>2, <2>1, <2>7, <3>1, RedoStarts
    <3> QED BY <3>1, <3>2
  <2>10. ASSUME NEW k \in 1 .. n, k - 1 \in T PROVE k \in T
    <3>1. run[k] = Go(run[k - 1], k) /\ k \in 0 .. n
      BY <2>4, <2>5, <2>8
    <3>2. ASSUME NEW o \in run[k] PROVE RedoOutcome(g, h, s, hist, k, o)
      <4>1. PICK x \in run[k - 1] : IF x.status = "ok" THEN o \in ApplyDelegate(g, x.sg, s.applied[k])
                                                    ELSE o = Outcome(x.status, x.sg)
        BY <2>3, <3>1, <3>2
      <4>2. RedoOutcome(g, h, s, hist, k - 1, x)
        BY <2>10
      <4>3. CASE x.status = "ok"
        BY <1>2, <2>1, <4>1, <4>2, <4>3, RedoGoesOn DEF Known, n
      <4>4. CASE x.status # "ok"
        <5>1. o = [status |-> x.status, sg |-> x.sg]
          BY <4>1, <4>4 DEF Outcome
        <5>2. o.status = x.status /\ o.sg = x.sg
          BY <5>1
        <5> QED BY <4>2, <4>4, <5>2 DEF RedoOutcome
      <4> QED BY <4>3, <4>4
    <3> QED BY <3>1, <3>2
  <2>11. RedoOutcome(g, h, s, hist, n, r)
    <3> HIDE DEF T
    <3>1. \A k \in 0 .. n : k \in T
      BY <2>4, <2>9, <2>10, UpTo
    <3>2. n \in T
      BY <2>4, <3>1
    <3> QED BY <2>2, <3>2 DEF T
  <2>12. r.status = "ok" => r.sg.applied = s.applied
    <3> SUFFICES ASSUME r.status = "ok" PROVE r.sg.applied = s.applied
      OBVIOUS
    <3>1. Len(r.sg.applied) = n /\ \A j \in 1 .. n : r.sg.applied[j] = s.applied[j]
      BY <2>11 DEF RedoOutcome
    <3>2. r.sg.applied \in Seq(Delegates) /\ s.applied \in Seq(Delegates)
      BY <2>11 DEF RedoOutcome, Known, Sound, Subgraphs, DelegateLists
    <3> QED BY <3>1, <3>2, SeqEqual DEF n
  <2> QED BY <1>2, <2>11, <2>12 DEF RedoOutcome, Redone, n
<1> QED BY <1>1, <1>2

-----------------------------------------------------------------------------
(* What ModifyGraphWithDelegate of a subgraph gives.                       *)
Modified(g, h, s, d, r) ==
    /\ r.status \in {"ok", "delegate_error", "application_error", "error"}
    /\ Known(g, h, r.sg) /\ ~r.sg.undone
    /\ s.planner # <<>> => r.sg.planner # <<>>
    /\ r.status = "ok" =>
          /\ ~s.undone /\ r.sg.applied = Append(s.applied, d)
          /\ r.sg.state = IF d \in AllowsDynamic THEN s.state ELSE "immutable"
          /\ r.sg.state = "uninvokable" => r.sg.planner = s.planner
    /\ r.status = "delegate_error" => Restored(g, r.sg) /\ r.sg.state = "invokable"
    /\ r.status = "application_error" =>
          /\ r.sg.state # "uninvokable" /\ r.sg.applied = s.applied
          /\ s.undone \/ s.state = "immutable" \/ d \notin AllowsDynamic
    /\ r.status = "error" => Brittle(g, s) /\ r.sg.state # "immutable"
    /\ (Planned(s) \/ s.undone) /\ r.status # "error"
       /\ (d \notin AllowsDynamic \/ s.planner = <<>> \/ s.state # "uninvokable") => Planned(r.sg)

(* A subgraph whose delegates are removed has its memory planned.          *)
LEMMA RestoredPlanned ==
    ASSUME NEW g, NEW s, Restored(g, s)
    PROVE  Planned(s) /\ s.planner # <<>> /\ ~s.undone /\ s.applied = <<>>
  BY DEF Restored, Planned

(* A node of a delegate is there only with a delegate of dynamic tensors,  *)
(* as long as the graph is not immutable.                                  *)
LEMMA FaultyIsBrittle ==
    ASSUME NEW g, NEW h, NEW s, Sound(g, h, s), s.state # "immutable", ~s.undone, Faulty(g, s)
    PROVE  Brittle(g, s)
<1>1. CASE "cpu_prepare" \in g.faults
  BY <1>1 DEF Brittle
<1>2. CASE "kernel_prepare" \in g.faults /\ s.pre_plan # <<>>
  <2>1. s.applied # <<>> /\ s.applied \in Seq(Delegates)
    BY <1>2 DEF Sound, Subgraphs, DelegateLists
  <2>2. 1 \in 1 .. Len(s.applied)
    BY <2>1, EmptySeq, LenProperties
  <2>3. s.applied[1] \in AllowsDynamic /\ s.applied[1] \in Elements(s.applied)
    BY <2>2 DEF Sound, AppliedOrder, Elements
  <2> QED BY <1>2, <2>3 DEF Brittle
<1> QED BY <1>1, <1>2 DEF Faulty

(* ModifyGraphWithDelegate of one subgraph.                                *)
LEMMA ModifyFacts ==
    ASSUME NEW g, IsGraph(g), NEW h, NEW s, Known(g, h, s), NEW d \in Delegates,
           NEW r \in ModifyGraphWithDelegate(g, s, d)
    PROVE  Modified(g, h, s, d, r)
<1>1. PICK x \in RedoAllDelegates(g, s) : IF x.status = "ok" THEN r \in ApplyDelegate(g, x.sg, d)
                                                             ELSE r = Outcome(x.status, x.sg)
  BY DEF ModifyGraphWithDelegate, Then
<1>2. Redone(g, h, s, x)
  BY <1>1, RedoFacts
<1>3. CASE x.status = "ok"
  <2> DEFINE q == x.sg
  <2>1. Known(g, h, q) /\ ~q.undone /\ (s.planner # <<>> => q.planner # <<>>)
    BY <1>2 DEF Redone
  <2>2. (q = s /\ ~s.undone) \/ (s.undone /\ q.applied = s.applied /\ q.state = "immutable" /\ Planned(q))
    <3>1. CASE s.undone
      BY <1>2, <1>3, <3>1 DEF Redone
    <3>2. CASE ~s.undone
      BY <1>2, <3>2 DEF Redone
    <3> QED BY <3>1, <3>2
  <2> HIDE DEF q
  <2>3. Applies(g, h, q, d, r)
    BY <1>1, <1>3, <2>1, ApplyFacts DEF q, Known
  <2>4. Known(g, h, r.sg) /\ ~r.sg.undone /\ (s.planner # <<>> => r.sg.planner # <<>>)
        /\ r.status \in {"ok", "delegate_error", "application_error", "error"}
    <3>1. Regular(g) => Fit(g, r.sg)
      BY <1>1, <1>3, <2>1, ApplyFits DEF q, Known
    <3>2. Known(g, h, r.sg)
      BY <2>1, <2>3, <3>1, AppliesKnown
    <3> QED BY <2>1, <2>3, <3>2 DEF Applies
  <2>5. CASE r.status = "ok"
    <3>1. /\ q.state # "immutable" /\ r.sg.applied = Append(q.applied, d)
          /\ r.sg.state = IF d \in AllowsDynamic THEN q.state ELSE "immutable"
          /\ d \notin AllowsDynamic \/ q.state = "invokable" \/ q.planner = <<>> => Planned(r.sg)
          /\ r.sg.state = "uninvokable" => r.sg.planner = q.planner
      BY <2>3, <2>5 DEF Applies
    <3>2. q = s /\ ~s.undone
      BY <2>2, <3>1
    <3>3. s.state \in States
      BY DEF Known, Sound, Subgraphs
    <3> QED BY <2>4, <2>5, <3>1, <3>2, <3>3 DEF Modified, States
  <2>6. CASE r.status = "delegate_error"
    <3>1. Restored(g, r.sg) /\ r.sg.state = "invokable"
      BY <2>3, <2>6 DEF Applies
    <3> QED BY <2>4, <2>6, <3>1, RestoredPlanned DEF Modified
  <2>7. CASE r.status = "application_error"
    <3>1. \/ q.state = "immutable" /\ r.sg = q
          \/ d \notin AllowsDynamic /\ SameNodes(q, r.sg) /\ r.sg.state = "invokable" /\ Planned(r.sg)
      BY <2>3, <2>7 DEF Applies
    <3>2. r.sg.applied = s.applied /\ r.sg.state # "uninvokable"
      BY <2>2, <3>1 DEF SameNodes
    <3>3. Planned(s) \/ s.undone => Planned(r.sg)
      BY <2>2, <3>1
    <3>4. s.undone \/ s.state = "immutable" \/ d \notin AllowsDynamic
      BY <2>2, <3>1
    <3> QED BY <2>4, <2>7, <3>2, <3>3, <3>4 DEF Modified
  <2>8. CASE r.status = "error"
    <3>1. Faulty(g, q) /\ q.state # "immutable"
      BY <2>3, <2>8 DEF Applies
    <3>2. q = s /\ ~s.undone
      BY <2>2, <3>1
    <3>3. Brittle(g, s)
      BY <3>1, <3>2, FaultyIsBrittle DEF Known
    <3>4. r.sg.state # "immutable"
      BY <2>3, <2>8 DEF Applies
    <3> QED BY <2>4, <2>8, <3>3, <3>4 DEF Modified
  <2> QED BY <2>4, <2>5, <2>6, <2>7, <2>8
<1>4. CASE x.status # "ok"
  <2>1. r = [status |-> x.status, sg |-> x.sg]
    BY <1>1, <1>4 DEF Outcome
  <2>2. r.status = x.status /\ r.sg = x.sg
    BY <2>1
  <2>3. /\ r.status \in {"delegate_error", "error"} /\ Known(g, h, r.sg) /\ ~r.sg.undone
        /\ s.planner # <<>> => r.sg.planner # <<>>
        /\ r.status = "delegate_error" => Restored(g, r.sg) /\ r.sg.state = "invokable"
        /\ r.status = "error" => Brittle(g, s) /\ r.sg.state # "immutable"
    BY <1>2, <1>4, <2>2 DEF Redone
  <2>4. r.status = "delegate_error" => Planned(r.sg)
    BY <2>3, RestoredPlanned
  <2> QED BY <2>3, <2>4 DEF Modified
<1> QED BY <1>3, <1>4

(* What AllocateTensors of a subgraph gives.                               *)
Allocated(g, h, s, r) ==
    /\ r.status \in {"ok", "delegate_error", "error"}
    /\ Known(g, h, r.sg) /\ ~r.sg.undone
    /\ s.planner # <<>> => r.sg.planner # <<>>
    /\ r.status = "ok" => r.sg.state # "uninvokable" /\ r.sg.applied = s.applied
    /\ r.status = "delegate_error" => Restored(g, r.sg) /\ r.sg.state = "invokable"
    /\ r.status = "error" => Brittle(g, s)
    /\ (Planned(s) \/ s.undone) /\ r.status # "error" => Planned(r.sg)

(* Allocation of a subgraph none of whose delegates are undone.            *)
LEMMA AllocatedSound ==
    ASSUME NEW g, IsGraph(g), NEW h, NEW s, Known(g, h, s), ~s.undone, NEW r \in Allocate(g, s)
    PROVE  Allocated(g, h, s, r)
<1> DEFINE y == r.sg
<1>1. Sound(g, h, s) /\ Preparable(g, h, s)
      /\ Len(s.plan) \in Nat /\ Len(s.plan) <= NumOriginal(g) /\ NumOriginal(g) \in Nat
  BY SoundFacts DEF Known
<1>2. /\ r.status \in {"ok", "error"} /\ y \in Subgraphs(g, h)
      /\ SameNodes(s, y)
      /\ y.ready \subseteq s.ready \cup 1 .. Len(s.nodes)
      /\ s.state # "uninvokable" => r.status = "ok" /\ y = s
      /\ s.state = "uninvokable" =>
           /\ y.planner = PlannerOf(s)
           /\ y.next_to_prepare \in 1 .. Len(s.plan) + 1
           /\ r.status = "ok" => y.state = "invokable"
           /\ r.status = "error" => y.state = "uninvokable" /\ Faulty(g, s)
  BY <1>1, AllocateFacts
<1> HIDE DEF y
<1>3. CASE s.state # "uninvokable"
  <2>1. r.status = "ok" /\ y = s
    BY <1>2, <1>3
  <2> QED BY <1>3, <2>1 DEF Allocated, y
<1>4. CASE s.state = "uninvokable"
  <2>1. y.nodes = s.nodes /\ y.plan = s.plan /\ y.applied = s.applied /\ ~y.undone
    BY <1>2 DEF SameNodes
  <2>2. y.planner # <<>> /\ (Planned(s) => Planned(y))
    <3>1. <<s.plan>> # <<>>
      OBVIOUS
    <3>2. CASE s.planner = <<>>
      BY <1>2, <1>4, <2>1, <3>1, <3>2 DEF PlannerOf, Planned
    <3>3. CASE s.planner # <<>>
      BY <1>2, <1>4, <2>1, <3>3 DEF PlannerOf, Planned
    <3> QED BY <3>2, <3>3
  <2>3. y.state \in {"invokable", "uninvokable"}
    BY <1>2, <1>4
  <2>4. AppliedOrder(y)
    <3>1. AppliedOrder(s)
      BY <1>1 DEF Sound
    <3> QED BY <1>4, <2>1, <2>3, <3>1 DEF AppliedOrder
  <2>5. y.next_to_prepare \in 1 .. NumOriginal(g) + 1 /\ y.next_to_prepare <= Len(s.plan) + 1
    BY <1>1, <1>2, <1>4
  <2>6. Sound(g, h, y)
    BY <1>1, <1>2, <2>2, <2>4, <2>5, StaysSound
  <2>7. Recorded(g, h, y)
    BY <1>2, <2>3, SameRecorded DEF Known
  <2>8. r.status = "error" => Brittle(g, s)
    BY <1>1, <1>2, <1>4, FaultyIsBrittle
  <2>9. Regular(g) => Fit(g, y)
    <3> SUFFICES ASSUME Regular(g) PROVE Fit(g, y)
      OBVIOUS
    <3>1. Fit(g, s) /\ Fittable(g, h, s)
      BY <1>1, <1>4, SoundFittable DEF Known
    <3>2. Grows(s, y) /\ (r.status = "ok" => PreparedFar(g, y))
      BY <1>4, <3>1, AllocateFits DEF y
    <3> QED BY <1>2, <1>4, <2>1, <2>3, <3>1, <3>2 DEF Fit, NodesKnown, Grows
  <2> QED BY <1>2, <1>4, <2>1, <2>2, <2>6, <2>7, <2>8, <2>9 DEF Allocated, Known, y
<1> QED BY <1>3, <1>4

(* AllocateTensors of one subgraph.                                        *)
LEMMA AllocateTensorsFacts ==
    ASSUME NEW g, IsGraph(g), NEW h, NEW s, Known(g, h, s), NEW r \in AllocateTensors(g, s)
    PROVE  Allocated(g, h, s, r)
<1>1. PICK x \in RedoAllDelegates(g, s) : IF x.status = "ok" THEN r \in Allocate(g, x.sg)
                                                             ELSE r = Outcome(x.status, x.sg)
  BY DEF AllocateTensors, Then
<1>2. Redone(g, h, s, x)
  BY <1>1, RedoFacts
<1>3. CASE x.status = "ok"
  <2> DEFINE q == x.sg
  <2>1. Known(g, h, q) /\ ~q.undone /\ (s.planner # <<>> => q.planner # <<>>)
    BY <1>2 DEF Redone
  <2>2. (q = s /\ ~s.undone) \/ (s.undone /\ q.applied = s.applied /\ q.state = "immutable" /\ Planned(q))
    <3>1. CASE s.undone
      BY <1>2, <1>3, <3>1 DEF Redone
    <3>2. CASE ~s.undone
      BY <1>2, <3>2 DEF Redone
    <3> QED BY <3>1, <3>2
  <2>3. r \in Allocate(g, q)
    BY <1>1, <1>3
  <2> HIDE DEF q
  <2>4. Allocated(g, h, q, r)
    BY <2>1, <2>3, AllocatedSound
  <2>5. r.status = "error" => q = s
    <3>1. q.state = "immutable" => r.status = "ok"
      <4>1. q.state = "immutable" => r = [status |-> "ok", sg |-> q]
        BY <2>3 DEF Allocate, Outcome
      <4> QED BY <4>1
    <3> QED BY <2>2, <3>1
  <2> QED BY <2>1, <2>2, <2>4, <2>5 DEF Allocated
<1>4. CASE x.status # "ok"
  <2>1. r = [status |-> x.status, sg |-> x.sg]
    BY <1>1, <1>4 DEF Outcome
  <2>2. r.status = x.status /\ r.sg = x.sg
    BY <2>1
  <2>3. /\ r.status \in {"delegate_error", "error"} /\ Known(g, h, r.sg) /\ ~r.sg.undone
        /\ s.planner # <<>> => r.sg.planner # <<>>
        /\ r.status = "delegate_error" => Restored(g, r.sg) /\ r.sg.state = "invokable"
        /\ r.status = "error" => Brittle(g, s)
    BY <1>2, <1>4, <2>2 DEF Redone
  <2>4. r.status = "delegate_error" => Planned(r.sg)
    BY <2>3, RestoredPlanned
  <2> QED BY <2>3, <2>4 DEF Allocated
<1> QED BY <1>3, <1>4

-----------------------------------------------------------------------------
(* ResizeInputTensor succeeds.                                             *)
LEMMA ResizeFacts ==
    ASSUME NEW g, IsGraph(g), NEW h, NEW s, Known(g, h, s)
    PROVE  LET r == ResizeInputTensor(g, s)
           IN  /\ r.status = "ok" /\ Known(g, h, r.sg)
               /\ r.sg.applied = s.applied /\ r.sg.planner = s.planner
               /\ Planned(s) \/ s.undone => Planned(r.sg) \/ r.sg.undone
               /\ r.sg.state = "uninvokable"
<1> DEFINE r == ResizeInputTensor(g, s)
<1>0. Sound(g, h, s) /\ Removable(g, h, s) /\ s \in Subgraphs(g, h)
  BY SoundFacts DEF Known, Sound
<1>1. {} \in TensorSets(g) /\ {} \in NodeSets /\ g.in \in TensorSets(g)
  BY GraphFacts DEF TensorSets, NodeSets
<1> DEFINE u == IF s.state = "immutable" THEN UndoAllDelegates(s) ELSE s
           z == [u EXCEPT !.state = "uninvokable", !.shaped = g.in, !.ready = {}, !.fresh = {}]
<1>2. s.state = "immutable" => s.applied # <<>> /\ s.pre_plan # <<>> /\ ~s.undone
  BY <1>0 DEF Sound, AppliedOrder
<1>3. r = [status |-> "ok", sg |-> z]
  BY <1>2 DEF ResizeInputTensor, Outcome
<1>4. r.status = "ok" /\ r.sg = z
  BY <1>3
<1>5. /\ u \in Subgraphs(g, h) /\ u.applied = s.applied /\ u.planner = s.planner
      /\ u.next_to_prepare = s.next_to_prepare
      /\ s.state = "immutable" => PlanIsBack(g, h, s, u)
      /\ s.state # "immutable" => u = s
  <2>1. CASE s.state = "immutable"
    <3>1. PlanIsBack(g, h, s, u)
      BY <1>0, <2>1, UndoFacts
    <3> HIDE DEF u, z
    <3> QED BY <2>1, <3>1 DEF PlanIsBack
  <2>2. CASE s.state # "immutable"
    BY <1>0, <2>2
  <2> QED BY <2>1, <2>2
<1> HIDE DEF u, r
<1>6. /\ z \in Subgraphs(g, h) /\ z.nodes = u.nodes /\ z.plan = u.plan /\ z.pre_plan = u.pre_plan
      /\ z.applied = u.applied /\ z.undone = u.undone /\ z.planner = u.planner
      /\ z.next_to_prepare = u.next_to_prepare /\ z.ready = {} /\ z.state = "uninvokable"
      /\ z.shaped = g.in
  BY <1>1, <1>5 DEF Subgraphs, States
<1> HIDE DEF z
<1>7. AppliedOrder(z)
  <2>1. AppliedOrder(s)
    BY <1>0 DEF Sound
  <2>2. CASE s.state = "immutable"
    <3>1. u.undone = TRUE
      BY <1>2, <1>5, <2>2 DEF PlanIsBack
    <3> QED BY <1>5, <1>6, <2>1, <2>2, <3>1 DEF AppliedOrder
  <2>3. CASE s.state # "immutable"
    BY <1>5, <1>6, <2>1, <2>3 DEF AppliedOrder
  <2> QED BY <2>2, <2>3
<1>8. Sound(g, h, z)
  <2>1. /\ GoodNodes(g, z.nodes) /\ GoodPlan(g, z.nodes, z.plan) /\ z.pre_plan \in {<<>>, Orig(g)}
        /\ z.pre_plan = <<>> => z.nodes = OrigNodes(g) /\ z.plan = Orig(g)
        /\ z.pre_plan # <<>> <=> z.applied # <<>> /\ ~z.undone
    <3>1. CASE s.state = "immutable"
      <4>1. /\ z.nodes = OrigNodes(g) /\ z.plan = Orig(g) /\ z.pre_plan = <<>> /\ z.undone = TRUE
        BY <1>2, <1>5, <1>6, <3>1 DEF PlanIsBack
      <4> QED BY <4>1, GraphFacts, OrigIsGood
    <3>2. CASE s.state # "immutable"
      BY <1>0, <1>5, <1>6, <3>2 DEF Sound
    <3> QED BY <3>1, <3>2
  <2>2. z.next_to_prepare \in 1 .. NumOriginal(g) + 1
    BY <1>0, <1>5, <1>6 DEF Sound
  <2> QED BY <1>6, <1>7, <2>1, <2>2 DEF Sound
<1>9. Recorded(g, h, z)
  <2>1. PICK hist : RecordedBy(g, h, s, hist)
    BY DEF Known, Recorded
  <2>2. CASE s.state = "immutable"
    <3>1. z.undone = TRUE /\ z.applied = s.applied
      BY <1>2, <1>5, <1>6, <2>2 DEF PlanIsBack
    <3>2. RecordedBy(g, h, z, hist)
      BY <2>1, <2>2, <3>1 DEF RecordedBy
    <3> QED BY <3>2 DEF Recorded
  <2>3. CASE s.state # "immutable"
    <3>1. /\ z.nodes = s.nodes /\ z.plan = s.plan /\ z.applied = s.applied /\ z.undone = s.undone
          /\ z.state = "uninvokable"
      BY <1>5, <1>6, <2>3
    <3>2. RecordedBy(g, h, z, hist)
      BY <2>1, <3>1 DEF RecordedBy
    <3> QED BY <3>2 DEF Recorded
  <2> QED BY <2>2, <2>3
<1>10. Planned(s) \/ s.undone => Planned(z) \/ z.undone
  <2>1. CASE s.state = "immutable"
    BY <1>2, <1>5, <1>6, <2>1 DEF PlanIsBack
  <2>2. CASE s.state # "immutable"
    BY <1>5, <1>6, <2>2 DEF Planned
  <2> QED BY <2>1, <2>2
<1>11. Regular(g) => Fit(g, z)
  <2>1. CASE s.state = "immutable"
    <3>1. z.nodes = OrigNodes(g) /\ z.plan = Orig(g)
      BY <1>5, <1>6, <2>1 DEF PlanIsBack
    <3> QED BY <1>6, <3>1, OrigUnowned DEF Fit, NodesKnown
  <2>2. CASE s.state # "immutable"
    <3>1. z.nodes = s.nodes /\ z.plan = s.plan /\ z.applied = s.applied
      BY <1>5, <1>6, <2>2
    <3> QED BY <1>6, <3>1 DEF Known, Fit, NodesKnown
  <2> QED BY <2>1, <2>2
<1> QED BY <1>4, <1>5, <1>6, <1>8, <1>9, <1>10, <1>11 DEF Known, r

(* RemoveAllDelegates.                                                     *)
Removed(g, h, r) ==
    /\ r.status \in {"ok", "error"} /\ Known(g, h, r.sg) /\ Restored(g, r.sg)
    /\ r.status = "ok" => r.sg.state = "invokable"
    /\ r.status = "error" => "cpu_prepare" \in g.faults

(* RemoveAllDelegates of one subgraph.                                     *)
LEMMA RemovedFacts ==
    ASSUME NEW g, IsGraph(g), NEW h, NEW s, Known(g, h, s), NEW r \in RemoveAllDelegates(g, s)
    PROVE  Removed(g, h, r)
<1>1. Removable(g, h, s)
  BY SoundFacts DEF Known
<1>2. /\ r.status \in {"ok", "error"} /\ Sound(g, h, r.sg) /\ Restored(g, r.sg)
      /\ r.status = "ok" => r.sg.state = "invokable"
      /\ r.status = "error" => "cpu_prepare" \in g.faults
  BY <1>1, RemoveFacts
<1>3. Regular(g) => Fit(g, r.sg)
  BY <1>1, RemoveFits DEF Known, Fit
<1> QED BY <1>2, <1>3, RestoredKnown DEF Removed

-----------------------------------------------------------------------------
(* Places behind the k-th of the plan.                                     *)
Behind(s, k) == {s.plan[i] : i \in k + 1 .. Len(s.plan)}

(* A node that reads what one at the place k or behind it writes stands    *)
(* behind k.                                                               *)
LEMMA ReadsBehind ==
    ASSUME NEW g, IsGraph(g), NEW s, WellPlaced(g, s.nodes, s.plan), NEW k \in 1 .. Len(s.plan),
           NEW i \in k .. Len(s.plan), NEW n \in Elements(s.plan),
           s.nodes[n].inputs \cap s.nodes[s.plan[i]].outputs # {}
    PROVE  n \in Behind(s, k)
<1>0. Len(s.plan) \in Nat /\ i \in 1 .. Len(s.plan)
  BY LenProperties DEF WellPlaced
<1>1. PICK m \in 1 .. Len(s.plan) : n = s.plan[m]
  BY DEF Elements
<1>2. PICK t \in s.nodes[n].inputs : t \in s.nodes[s.plan[i]].outputs
  OBVIOUS
<1>3. GoodNode(g, s.nodes[s.plan[i]]) /\ s.nodes[n].inputs \subseteq g.in \cup OutputsBefore(s.nodes, s.plan, m)
  BY <1>0, <1>1 DEF WellPlaced
<1>4. t \notin g.in
  BY <1>2, <1>3, InputsUnwritten
<1>5. PICK j \in 1 .. m - 1 : t \in s.nodes[s.plan[j]].outputs
  BY <1>2, <1>3, <1>4 DEF OutputsBefore
<1>6. j \in 1 .. Len(s.plan) /\ j < m
  BY <1>0, <1>1, <1>5
<1>7. j = i
  <2> SUFFICES ASSUME j # i PROVE FALSE
    OBVIOUS
  <2>1. RunsOf(s.nodes, s.plan[j]) \cap RunsOf(s.nodes, s.plan[i]) = {} /\ GoodNode(g, s.nodes[s.plan[j]])
    BY <1>0, <1>6 DEF WellPlaced
  <2>2. t \in WritesOf(g.writes, RunsOf(s.nodes, s.plan[j])) /\ t \in WritesOf(g.writes, RunsOf(s.nodes, s.plan[i]))
        /\ RunsOf(s.nodes, s.plan[j]) \in SUBSET (1 .. NumOriginal(g))
        /\ RunsOf(s.nodes, s.plan[i]) \in SUBSET (1 .. NumOriginal(g))
    BY <1>2, <1>3, <1>5, <2>1 DEF GoodNode, RunsOf
  <2> QED BY <2>1, <2>2, OneWriter
<1>8. m \in k + 1 .. Len(s.plan)
  BY <1>0, <1>6, <1>7
<1> QED BY <1>1, <1>8 DEF Behind

(* The nodes below the k-th one of the plan stand behind it.               *)
LEMMA DownstreamBehind ==
    ASSUME NEW g, IsGraph(g), NEW s, WellPlaced(g, s.nodes, s.plan), NEW k \in 1 .. Len(s.plan),
           NEW ts \in SUBSET s.nodes[s.plan[k]].outputs
    PROVE  DownstreamNodes(s, ts) \subseteq Behind(s, k)
<1> DEFINE n == Len(s.plan)
           Readers(us) == {m \in Elements(s.plan) : s.nodes[m].inputs \cap us # {}}
           Further(x) == x \cup Readers(UNION {s.nodes[m].outputs : m \in x})
           base == Readers(ts)
           A == SUBSET Behind(s, k)
           step == [i \in 1 .. n |-> [x \in A |-> Further(x)]]
           After(f) == [i \in 0 .. n |-> IF i = 0 THEN base ELSE Further(f[i - 1])]
           run == CHOOSE f : f = After(f)
<1>1. DownstreamNodes(s, ts) = run[n]
  BY DEF DownstreamNodes, Fold
<1>2. n \in Nat
  BY LenProperties DEF WellPlaced
<1>3. base \in A
  <2>1. k \in k .. n
    BY <1>2
  <2> QED BY <2>1, ReadsBehind
<1>4. ASSUME NEW x \in A PROVE Further(x) \in A
  <2>1. ASSUME NEW m \in Readers(UNION {s.nodes[b].outputs : b \in x}) PROVE m \in Behind(s, k)
    <3>1. PICK b \in x : s.nodes[m].inputs \cap s.nodes[b].outputs # {}
      BY <2>1
    <3>2. PICK i \in k + 1 .. n : b = s.plan[i]
      BY <3>1 DEF Behind
    <3>3. i \in k .. n
      BY <1>2, <3>2
    <3> QED BY <2>1, <3>1, <3>2, <3>3, ReadsBehind
  <2> QED BY <2>1
<1>5. ASSUME NEW f, NEW i \in 1 .. n PROVE After(f)[i] = Further(f[i - 1])
  OBVIOUS
<1>6. ASSUME NEW f PROVE After(f)[0] = base /\ After(f) = [i \in 0 .. n |-> After(f)[i]]
  OBVIOUS
<1> HIDE DEF After, Further, base
<1>7. step \in Steps(A, n)
  BY <1>4 DEF Steps
<1>8. ASSUME NEW i \in 1 .. n, NEW x \in A PROVE step[i][x] = Further(x)
  OBVIOUS
<1> HIDE DEF A, step
<1>9. run = After(run)
  <2>1. PICK f : IsIteration(f, A, n, base, step)
    BY <1>2, <1>3, <1>7, IterationExists
  <2>2. f \in [0 .. n -> A] /\ f[0] = base /\ \A i \in 1 .. n : f[i - 1] \in A /\ f[i] = Further(f[i - 1])
    BY <1>8, <2>1 DEF IsIteration
  <2>3. \A i \in 0 .. n : f[i] = After(f)[i]
    <3> TAKE i \in 0 .. n
    <3>1. CASE i = 0
      BY <1>6, <2>2, <3>1
    <3>2. CASE i \in 1 .. n
      <4>1. f[i] = Further(f[i - 1]) /\ After(f)[i] = Further(f[i - 1])
        BY <1>5, <2>2, <3>2
      <4> QED BY <4>1
    <3> QED BY <1>2, <3>1, <3>2
  <2>4. f = After(f)
    BY <1>6, <2>2, <2>3
  <2> QED BY <2>4
<1> HIDE DEF run, n
<1>10. run[0] = base /\ \A i \in 1 .. n : run[i] = Further(run[i - 1])
  BY <1>5, <1>6, <1>9
<1>11. \A i \in 0 .. n : run[i] \in A
  <2>1. run[0] \in A /\ \A i \in 1 .. n : run[i - 1] \in A => run[i] = step[i][run[i - 1]]
    BY <1>3, <1>8, <1>10
  <2> QED BY <1>2, <1>7, <2>1, RunStays
<1>12. run[n] \in A
  BY <1>2, <1>11
<1> QED BY <1>1, <1>12 DEF A

-----------------------------------------------------------------------------
(* The place k of the plan that Invoke has come to: what is in front of it *)
(* is prepared and has its shapes, the dynamic ones included.              *)
Underway(g, s, k) ==
    Regular(g) => k <= s.next_to_prepare /\ OutputsBefore(s.nodes, s.plan, k) \subseteq s.shaped

(* New sizes of the outputs of a node that has run spoil nothing that      *)
(* stands in front of it.                                                  *)
LEMMA ResizedFits ==
    ASSUME NEW g, IsGraph(g), NEW h, NEW s, Sound(g, h, s), Fit(g, s), s.state # "uninvokable",
           NEW k \in 1 .. Len(s.plan), k < s.next_to_prepare, OutputsBefore(s.nodes, s.plan, k) \subseteq s.shaped,
           NEW resized \in IF HasDynamicOutputs(g, s, s.plan[k]) THEN BOOLEAN ELSE {FALSE}
    PROVE  LET q == ResizedOutputs(g, s, k, resized)
           IN  Fit(g, q) /\ Underway(g, q, k + 1)
<1> DEFINE outs == s.nodes[s.plan[k]].outputs \cap g.dynamic
           below == DownstreamNodes(s, outs)
           inner == UNION {Elements(s.nodes[n].runs) : n \in below}
           q == ResizedOutputs(g, s, k, resized)
           N == Len(s.plan)
<1>1. /\ s \in Subgraphs(g, h) /\ GoodNodes(g, s.nodes) /\ WellPlaced(g, s.nodes, s.plan)
      /\ N \in Nat /\ k \in Nat /\ s.next_to_prepare \in Nat
      /\ PreparedFar(g, s) /\ \A j \in 1 .. k : j \in 1 .. N /\ j \in 1 .. s.next_to_prepare - 1
  <2>1. s \in Subgraphs(g, h) /\ GoodNodes(g, s.nodes) /\ WellPlaced(g, s.nodes, s.plan) /\ N \in Nat
    BY SoundFacts DEF Sound, GoodPlan
  <2>2. s.next_to_prepare \in Nat
    BY SoundFacts DEF Sound
  <2> QED BY <2>1, <2>2 DEF Fit
<1>2. \A j \in 1 .. k : PreparedNode(g, s, s.plan[j])
  BY <1>1 DEF PreparedFar, PreparedTo
<1>3. \A j \in 1 .. k : s.nodes[s.plan[j]].outputs \subseteq s.shaped \cup outs
  <2> TAKE j \in 1 .. k
  <2>1. CASE j = k
    BY <1>1, <1>2, <2>1 DEF PreparedNode
  <2>2. CASE j \in 1 .. k - 1
    BY <2>2 DEF OutputsBefore
  <2> QED BY <1>1, <2>1, <2>2
<1>4. CASE ~resized
  <2>1. /\ q.nodes = s.nodes /\ q.plan = s.plan /\ q.applied = s.applied /\ q.state = s.state
        /\ q.next_to_prepare = s.next_to_prepare /\ q.ready = s.ready /\ q.shaped = s.shaped \cup outs
    BY <1>1, <1>4 DEF ResizedOutputs, Subgraphs
  <2> HIDE DEF q, outs
  <2>2. PreparedFar(g, q)
    BY <1>1, <2>1, SameFar DEF Grows
  <2>3. Fit(g, q)
    BY <2>1, <2>2 DEF Fit, NodesKnown, PlanIsStatic, HasDynamicOutputs
  <2>4. OutputsBefore(q.nodes, q.plan, k + 1) \subseteq q.shaped
    BY <1>1, <1>3, <2>1 DEF OutputsBefore
  <2>5. k + 1 <= q.next_to_prepare
    BY <1>1, <2>1
  <2>6. Underway(g, q, k + 1)
    BY <2>4, <2>5 DEF Underway
  <2> QED BY <2>3, <2>6 DEF q
<1>5. CASE resized
  <2>0. HasDynamicOutputs(g, s, s.plan[k])
    BY <1>5
  <2>1. /\ q.nodes = s.nodes /\ q.plan = s.plan /\ q.applied = s.applied /\ q.state = s.state
        /\ q.next_to_prepare = k + 1 /\ q.ready = s.ready \ (below \cup inner)
        /\ q.shaped = (s.shaped \ WritesOf(g.writes, inner)) \cup outs
    BY <1>1, <1>5 DEF ResizedOutputs, Subgraphs
  <2>2. below \subseteq Behind(s, k)
    BY <1>1, DownstreamBehind
  <2> HIDE DEF below, q
  <2>3. inner \in SUBSET (1 .. NumOriginal(g))
    <3> SUFFICES ASSUME NEW n \in below PROVE Elements(s.nodes[n].runs) \subseteq 1 .. NumOriginal(g)
      OBVIOUS
    <3>1. PICK i \in k + 1 .. N : n = s.plan[i]
      BY <2>2 DEF Behind
    <3>2. i \in 1 .. N
      BY <1>1, <3>1
    <3> QED BY <1>1, <3>1, <3>2 DEF WellPlaced, GoodNode
  <2>4. ASSUME NEW j \in 1 .. k
        PROVE  /\ s.nodes[s.plan[j]].outputs \cap WritesOf(g.writes, inner) = {}
               /\ s.plan[j] \notin below /\ s.plan[j] \notin inner
    <3> DEFINE m == s.plan[j]
               R == RunsOf(s.nodes, m)
    <3>1. j \in 1 .. N /\ GoodNode(g, s.nodes[m])
      BY <1>1 DEF WellPlaced
    <3>2. R # {} /\ R \in SUBSET (1 .. NumOriginal(g)) /\ s.nodes[m].outputs \subseteq WritesOf(g.writes, R)
      BY <3>1 DEF GoodNode, RunsOf
    <3>3. ASSUME NEW n \in below PROVE R \cap Elements(s.nodes[n].runs) = {}
      <4>1. PICK i \in k + 1 .. N : n = s.plan[i]
        BY <2>2, <3>3 DEF Behind
      <4>2. i \in 1 .. N /\ i # j
        BY <1>1, <4>1
      <4> QED BY <1>1, <3>1, <4>1, <4>2 DEF WellPlaced, RunsOf
    <3>4. R \cap inner = {}
      BY <3>3
    <3>5. m \notin below
      BY <3>2, <3>3 DEF RunsOf
    <3>6. m \notin inner
      <4> SUFFICES ASSUME m \in inner PROVE FALSE
        OBVIOUS
      <4> HIDE DEF m, inner
      <4>1. m \in 1 .. NumOriginal(g) /\ s.nodes[m] = OriginalNode(g, m)
        BY <1>1, <2>3 DEF GoodNodes
      <4>2. Elements(OriginalNode(g, m).runs) = {m}
        BY <4>1, OriginalIsGood
      <4>3. m \in R
        BY <4>1, <4>2 DEF RunsOf
      <4> QED BY <3>4, <4>3
    <3> HIDE DEF R, inner
    <3>7. WritesOf(g.writes, R) \cap WritesOf(g.writes, inner) = {}
      BY <2>3, <3>2, <3>4, OneWriter
    <3> QED BY <3>2, <3>5, <3>6, <3>7
  <2>5. g.in \cap WritesOf(g.writes, inner) = {}
    <3>1. {} \in SUBSET (1 .. NumOriginal(g)) /\ inner \cap {} = {}
      OBVIOUS
    <3> QED BY <2>3, <3>1, OneWriter
  <2> HIDE DEF inner, outs
  <2>6. \A j \in 1 .. k : PreparedNode(g, q, q.plan[j]) /\ q.nodes[q.plan[j]].outputs \subseteq q.shaped
    BY <1>2, <1>3, <2>1, <2>4 DEF PreparedNode
  <2>7. k \in 1 .. q.next_to_prepare - 1 /\ HasDynamicOutputs(g, q, q.plan[k])
    BY <1>1, <2>0, <2>1 DEF HasDynamicOutputs
  <2>8. PreparedTo(g, q, q.next_to_prepare)
    BY <1>1, <2>1, <2>6 DEF PreparedTo
  <2>9. Fit(g, q)
    BY <2>1, <2>5, <2>7, <2>8 DEF Fit, NodesKnown, PlanIsStatic, HasDynamicOutputs, PreparedFar
  <2>10. OutputsBefore(q.nodes, q.plan, k + 1) \subseteq q.shaped
    BY <1>1, <2>6 DEF OutputsBefore
  <2>11. Underway(g, q, k + 1)
    BY <1>1, <2>1, <2>10 DEF Underway
  <2> QED BY <2>9, <2>11 DEF q
<1> QED BY <1>4, <1>5

-----------------------------------------------------------------------------
(* The preparation in Invoke finds the shapes it needs.                    *)
LEMMA PrepareGoesOn ==
    ASSUME NEW g, IsGraph(g), Regular(g), NEW h, NEW s, Sound(g, h, s), Fit(g, s), s.state # "uninvokable",
           s.next_to_prepare \in 1 .. Len(s.plan), OutputsBefore(s.nodes, s.plan, s.next_to_prepare) \subseteq s.shaped,
           NEW r \in PrepareOpsAndTensors(g, s)
    PROVE  /\ Fit(g, r.sg) /\ Grows(s, r.sg)
           /\ r.status = "ok" => s.next_to_prepare < r.sg.next_to_prepare
<1>1. Preparable(g, h, s) /\ Len(s.plan) \in Nat /\ Len(s.plan) <= NumOriginal(g) /\ NumOriginal(g) \in Nat
      /\ ~s.undone
  BY SoundFacts DEF Sound, AppliedOrder
<1>2. PreparedFar(g, s) /\ g.dynamic # {} /\ s.state # "immutable"
  <2>1. s.next_to_prepare # Len(s.plan) + 1 /\ \A j \in 1 .. s.next_to_prepare - 1 : j \in 1 .. Len(s.plan)
    BY <1>1
  <2> QED BY <2>1 DEF Fit, PreparedFar, HasDynamicOutputs, PlanIsStatic
<1>3. Fittable(g, h, s)
  BY <1>1, <1>2, SoundFittable
<1>4. ~WantsOriginal(s) /\ PreparedTo(g, s, s.next_to_prepare)
  BY <1>2 DEF Regular, WantsOriginal, PreparedFar
<1>5. NextFits(s)
  <2>1. s.pre_plan # <<>> => Len(s.pre_plan) = NumOriginal(g)
    BY GraphFacts DEF Sound
  <2> QED BY <1>1, <2>1 DEF NextFits
<1>6. /\ Grows(s, r.sg)
      /\ r.status # "ok" => r.sg.next_to_prepare = s.next_to_prepare
      /\ r.status = "ok" => PreparedFar(g, r.sg) /\ s.next_to_prepare < r.sg.next_to_prepare
  BY <1>1, <1>3, <1>4, <1>5, TensorsFit
<1>7. SameNodes(s, r.sg) /\ r.sg.state = s.state
  BY <1>1, <1>5, PrepareTensorsFacts
<1>8. r.sg.nodes = s.nodes /\ r.sg.plan = s.plan /\ r.sg.applied = s.applied
  BY <1>7 DEF SameNodes
<1>9. PreparedFar(g, r.sg)
  BY <1>2, <1>6, <1>8, SameFar
<1> QED BY <1>2, <1>6, <1>7, <1>8, <1>9 DEF Fit, NodesKnown, Grows

-----------------------------------------------------------------------------
(* What a call on one subgraph after the other has done, of those up to k. *)
SameList(ss, xs) == DOMAIN xs = DOMAIN ss /\ xs = [i \in DOMAIN ss |-> xs[i]]
CallWorked(outcomes, i, s) == \E o \in outcomes[i] : o.status = "ok" /\ s = o.sg
CallFailed(outcomes, i, st, s) == \E o \in outcomes[i] : o.status = st /\ s = o.sg

WorkedUpTo(ss, outcomes, k, xs) ==
    /\ \A i \in 1 .. k : CallWorked(outcomes, i, xs[i])
    /\ \A i \in k + 1 .. Len(ss) : xs[i] = ss[i]

FailedAt(ss, outcomes, m, r) ==
    /\ CallFailed(outcomes, m, r.status, r.sgs[m])
    /\ \A i \in 1 .. m - 1 : CallWorked(outcomes, i, r.sgs[i])
    /\ \A i \in m + 1 .. Len(ss) : r.sgs[i] = ss[i]

CalledOn(ss, outcomes, k, r) ==
    /\ SameList(ss, r.sgs)
    /\ r.status = "ok" => WorkedUpTo(ss, outcomes, k, r.sgs)
    /\ r.status # "ok" => \E m \in 1 .. k : FailedAt(ss, outcomes, m, r)

(* The call on one more subgraph.                                          *)
LEMMA CallOnNext ==
    ASSUME NEW ss, Len(ss) \in Nat, DOMAIN ss = 1 .. Len(ss), NEW outcomes, NEW k \in 1 .. Len(ss),
           NEW r, CalledOn(ss, outcomes, k - 1, r), NEW q,
           IF r.status # "ok" THEN q = r
           ELSE \E o \in outcomes[k] : q = [status |-> o.status, sgs |-> [r.sgs EXCEPT ![k] = o.sg]]
    PROVE  CalledOn(ss, outcomes, k, q)
<1>1. CASE r.status # "ok"
  <2>1. PICK m \in 1 .. k - 1 : FailedAt(ss, outcomes, m, r)
    BY <1>1 DEF CalledOn
  <2>2. m \in 1 .. k
    OBVIOUS
  <2> QED BY <1>1, <2>1, <2>2 DEF CalledOn
<1>2. CASE r.status = "ok"
  <2> DEFINE xs == r.sgs
  <2>1. PICK o \in outcomes[k] : q = [status |-> o.status, sgs |-> [r.sgs EXCEPT ![k] = o.sg]]
    BY <1>2
  <2>2. SameList(ss, xs) /\ WorkedUpTo(ss, outcomes, k - 1, xs)
    BY <1>2 DEF CalledOn
  <2> DEFINE ys == [xs EXCEPT ![k] = o.sg]
  <2>3. q.status = o.status /\ q.sgs = ys
    BY <2>1
  <2> HIDE DEF xs
  <2>4. SameList(ss, ys) /\ ys[k] = o.sg /\ \A i \in 1 .. Len(ss) : i # k => ys[i] = xs[i]
    BY <2>2 DEF SameList
  <2> HIDE DEF ys
  <2>5. \A i \in 1 .. k - 1 : CallWorked(outcomes, i, ys[i])
    <3> TAKE i \in 1 .. k - 1
    <3>1. i \in 1 .. Len(ss) /\ i # k
      OBVIOUS
    <3> QED BY <2>2, <2>4, <3>1 DEF WorkedUpTo
  <2>6. \A i \in k + 1 .. Len(ss) : ys[i] = ss[i]
    <3> TAKE i \in k + 1 .. Len(ss)
    <3>1. i \in 1 .. Len(ss) /\ i # k /\ i \in (k - 1) + 1 .. Len(ss)
      OBVIOUS
    <3> QED BY <2>2, <2>4, <3>1 DEF WorkedUpTo
  <2>7. CASE o.status = "ok"
    <3>1. CallWorked(outcomes, k, ys[k])
      BY <2>4, <2>7 DEF CallWorked
    <3>2. \A i \in 1 .. k : i \in 1 .. k - 1 \/ i = k
      OBVIOUS
    <3>3. WorkedUpTo(ss, outcomes, k, ys)
      BY <2>5, <2>6, <3>1, <3>2 DEF WorkedUpTo
    <3> QED BY <2>3, <2>4, <2>7, <3>3 DEF CalledOn
  <2>8. CASE o.status # "ok"
    <3>1. k \in 1 .. k
      OBVIOUS
    <3>2. CallFailed(outcomes, k, o.status, ys[k])
      BY <2>4 DEF CallFailed
    <3>3. FailedAt(ss, outcomes, k, q)
      BY <2>3, <2>5, <2>6, <3>2 DEF FailedAt
    <3> QED BY <2>3, <2>4, <2>8, <3>1, <3>3 DEF CalledOn
  <2> QED BY <2>7, <2>8
<1> QED BY <1>1, <1>2

(* The call on all subgraphs stops at the first that fails, and leaves the *)
(* rest as they are.                                                       *)
LEMMA OnAllFacts ==
    ASSUME NEW ss, Len(ss) \in Nat, DOMAIN ss = 1 .. Len(ss), ss = [i \in DOMAIN ss |-> ss[i]],
           NEW outcomes, NEW r \in OnAll(ss, outcomes)
    PROVE  CalledOn(ss, outcomes, Len(ss), r)
<1> DEFINE n == Len(ss)
           base == {[status |-> "ok", sgs |-> ss]}
           Go(rs, i) == UNION {IF x.status # "ok" THEN {x}
                               ELSE {[status |-> o.status, sgs |-> [x.sgs EXCEPT ![i] = o.sg]] :
                                       o \in outcomes[i]} : x \in rs}
           is == [i \in 1 .. n |-> i]
           After(f, m) == [k \in 0 .. m |-> IF k = 0 THEN base ELSE Go(f[k - 1], is[k])]
           run == CHOOSE f : f = After(f, Len(is))
<1>1. OnAll(ss, outcomes) = run[Len(is)]
  BY DEF OnAll, Fold
<1>2. ASSUME NEW rs, NEW k, NEW q \in Go(rs, k)
      PROVE  \E x \in rs :
                IF x.status # "ok" THEN q = x
                ELSE \E o \in outcomes[k] : q = [status |-> o.status, sgs |-> [x.sgs EXCEPT ![k] = o.sg]]
  BY <1>2
<1>3. n \in Nat /\ Len(is) = n /\ \A k \in 1 .. n : is[k] = k
  <2>1. is \in [1 .. n -> Nat]
    OBVIOUS
  <2> QED BY <2>1, FunctionIsSeq
<1>4. ASSUME NEW f, NEW m \in Nat, NEW k \in 0 .. m
      PROVE  After(f, m)[k] = IF k = 0 THEN base ELSE Go(f[k - 1], is[k])
  OBVIOUS
<1>5. ASSUME NEW f, NEW m PROVE After(f, m) = [k \in 0 .. m |-> After(f, m)[k]]
  OBVIOUS
<1>6. \A x \in base : x.status = "ok" /\ x.sgs = ss
  OBVIOUS
<1> HIDE DEF n, base, Go, After, is
<1>7. run = After(run, n)
  <2> DEFINE T == {m \in 0 .. n : \E f : f = After(f, m)}
  <2>1. 0 \in T
    <3> DEFINE f == [k \in 0 .. 0 |-> base]
    <3>1. \A k \in 0 .. 0 : f[k] = After(f, 0)[k]
      BY <1>4
    <3>2. f = [k \in 0 .. 0 |-> f[k]]
      OBVIOUS
    <3> HIDE DEF f
    <3>3. f = After(f, 0)
      BY <1>5, <3>1, <3>2
    <3> QED BY <1>3, <3>3
  <2>2. ASSUME NEW m \in 1 .. n, m - 1 \in T PROVE m \in T
    <3>1. PICK e : e = After(e, m - 1)
      BY <2>2
    <3> DEFINE f == [k \in 0 .. m |-> IF k = m THEN Go(e[m - 1], is[m]) ELSE e[k]]
    <3>2. m \in Nat /\ m - 1 \in Nat /\ m # 0 /\ \A k \in 0 .. m : k = m \/ k \in 0 .. m - 1
      BY <1>3
    <3>3. f[m] = Go(e[m - 1], is[m]) /\ \A k \in 0 .. m - 1 : f[k] = e[k]
      BY <3>2
    <3>4. f = [k \in 0 .. m |-> f[k]]
      OBVIOUS
    <3> HIDE DEF f
    <3>5. ASSUME NEW k \in 0 .. m PROVE f[k] = After(f, m)[k]
      <4>1. CASE k = 0
        BY <1>4, <3>1, <3>2, <3>3, <4>1
      <4>2. CASE k \in 1 .. m - 1
        <5>1. k \in 0 .. m - 1 /\ k - 1 \in 0 .. m - 1 /\ k # 0
          BY <3>2, <4>2
        <5>2. e[k] = Go(e[k - 1], is[k])
          BY <1>4, <3>1, <3>2, <5>1
        <5> QED BY <1>4, <3>2, <3>3, <5>1, <5>2
      <4>3. CASE k = m
        <5>1. m - 1 \in 0 .. m - 1
          BY <3>2
        <5> QED BY <1>4, <3>2, <3>3, <4>3, <5>1
      <4> QED BY <3>2, <4>1, <4>2, <4>3
    <3>6. f = After(f, m)
      BY <1>5, <3>4, <3>5
    <3> QED BY <3>6
  <2>3. n \in T
    <3> HIDE DEF T
    <3>1. \A m \in 0 .. n : m \in T
      BY <1>3, <2>1, <2>2, UpTo
    <3> QED BY <1>3, <3>1
  <2> QED BY <1>3, <2>3
<1> HIDE DEF run
<1> DEFINE T == {k \in 0 .. n : \A x \in run[k] : CalledOn(ss, outcomes, k, x)}
<1>8. 0 \in T
  <2>1. run[0] = base /\ 0 \in 0 .. n
    BY <1>3, <1>4, <1>7
  <2>2. SameList(ss, ss) /\ WorkedUpTo(ss, outcomes, 0, ss)
    BY DEF SameList, WorkedUpTo
  <2>3. \A x \in run[0] : CalledOn(ss, outcomes, 0, x)
    BY <1>6, <2>1, <2>2 DEF CalledOn
  <2> QED BY <2>1, <2>3
<1>9. ASSUME NEW k \in 1 .. n, k - 1 \in T PROVE k \in T
  <2>1. run[k] = Go(run[k - 1], k) /\ k \in 0 .. n
    BY <1>3, <1>4, <1>7
  <2>2. ASSUME NEW q \in run[k] PROVE CalledOn(ss, outcomes, k, q)
    <3>1. PICK x \in run[k - 1] :
                IF x.status # "ok" THEN q = x
                ELSE \E o \in outcomes[k] : q = [status |-> o.status, sgs |-> [x.sgs EXCEPT ![k] = o.sg]]
      BY <1>2, <2>1, <2>2
    <3>2. CalledOn(ss, outcomes, k - 1, x)
      BY <1>9
    <3> QED BY <3>1, <3>2, CallOnNext DEF n
  <2> QED BY <2>1, <2>2
<1>10. n \in T
  <2> HIDE DEF T
  <2>1. \A k \in 0 .. n : k \in T
    BY <1>3, <1>8, <1>9, UpTo
  <2> QED BY <1>3, <2>1
<1> QED BY <1>1, <1>3, <1>10 DEF n

-----------------------------------------------------------------------------
(* All subgraphs; only tensors of the primary one have buffer handles.     *)
HandlesOf(i) == IF i = 1 THEN model.handles ELSE {}
AnySubgraph  == UNION {Subgraphs(graphs[i], HandlesOf(i)) : i \in DOMAIN graphs}
SubgraphLists == [DOMAIN graphs -> AnySubgraph]

AllKnown(ss) ==
    /\ ss \in SubgraphLists
    /\ \A i \in DOMAIN graphs : Known(graphs[i], HandlesOf(i), ss[i])

(* The model that is loaded is one of the models, and its graphs are       *)
(* graphs.                                                                 *)
LEMMA ModelFacts ==
    ASSUME model \in Models
    PROVE  /\ Len(graphs) \in Nat \ {0} /\ DOMAIN graphs = 1 .. Len(graphs) /\ 1 \in DOMAIN graphs
           /\ \A i \in DOMAIN graphs : IsGraph(graphs[i])
           /\ G1 = graphs[1]
           /\ model.lazy \in Seq(Delegates) /\ model.delegates \subseteq Delegates
           /\ model.handles \subseteq GraphTensors(G1)
<1>1. /\ graphs \in Seq(Elements(graphs)) /\ graphs # <<>>
      /\ \A g \in Elements(graphs) : IsGraph(g)
      /\ model.lazy \in Seq(Delegates) /\ model.delegates \subseteq Delegates
      /\ model.handles \subseteq GraphTensors(graphs[1])
  BY InterpreterAssumption DEF graphs
<1>2. Len(graphs) \in Nat /\ DOMAIN graphs = 1 .. Len(graphs) /\ Len(graphs) # 0
  BY <1>1, EmptySeq, LenProperties
<1>3. \A i \in DOMAIN graphs : graphs[i] \in Elements(graphs)
  BY <1>2 DEF Elements
<1> QED BY <1>1, <1>2, <1>3 DEF G1

(* The list of subgraphs is as long as that of the graphs.                 *)
LEMMA ListFacts ==
    ASSUME model \in Models, NEW ss \in SubgraphLists
    PROVE  /\ Len(ss) = Len(graphs) /\ Len(ss) \in Nat \ {0} /\ DOMAIN ss = 1 .. Len(ss)
           /\ DOMAIN ss = DOMAIN graphs /\ 1 \in DOMAIN ss
           /\ ss = [i \in DOMAIN ss |-> ss[i]]
<1>1. Len(graphs) \in Nat \ {0} /\ DOMAIN graphs = 1 .. Len(graphs) /\ 1 \in DOMAIN graphs
  BY ModelFacts
<1>2. ss \in [1 .. Len(graphs) -> AnySubgraph]
  BY <1>1 DEF SubgraphLists
<1>3. Len(ss) = Len(graphs)
  BY <1>1, <1>2, FunctionIsSeq
<1> QED BY <1>1, <1>2, <1>3

(* What is known has the type of a subgraph.                               *)
LEMMA KnownTyped ==
    ASSUME NEW g, NEW h, NEW s, Known(g, h, s)
    PROVE  s \in Subgraphs(g, h)
  BY DEF Known, Sound

(* A list of known subgraphs.                                              *)
LEMMA KnownList ==
    ASSUME model \in Models, NEW ss \in SubgraphLists, NEW xs, SameList(ss, xs),
           \A i \in DOMAIN graphs : Known(graphs[i], HandlesOf(i), xs[i])
    PROVE  AllKnown(xs)
<1>1. DOMAIN ss = DOMAIN graphs
  BY ListFacts
<1>2. \A i \in DOMAIN graphs : xs[i] \in AnySubgraph
  <2> TAKE i \in DOMAIN graphs
  <2>1. xs[i] \in Subgraphs(graphs[i], HandlesOf(i))
    BY KnownTyped
  <2> QED BY <2>1 DEF AnySubgraph
<1>3. xs = [i \in DOMAIN graphs |-> xs[i]]
  BY <1>1 DEF SameList
<1>4. xs \in SubgraphLists
  BY <1>2, <1>3 DEF SubgraphLists
<1> QED BY <1>4 DEF AllKnown

(* One of them replaced.                                                   *)
LEMMA KnownReplaced ==
    ASSUME model \in Models, NEW ss, AllKnown(ss), NEW s, Known(graphs[1], HandlesOf(1), s)
    PROVE  /\ AllKnown([ss EXCEPT ![1] = s])
           /\ [ss EXCEPT ![1] = s][1] = s
           /\ \A i \in DOMAIN graphs : i # 1 => [ss EXCEPT ![1] = s][i] = ss[i]
<1> DEFINE xs == [ss EXCEPT ![1] = s]
<1>1. ss \in SubgraphLists /\ \A i \in DOMAIN graphs : Known(graphs[i], HandlesOf(i), ss[i])
  BY DEF AllKnown
<1>2. DOMAIN ss = DOMAIN graphs /\ 1 \in DOMAIN graphs
  BY <1>1, ListFacts
<1>3. SameList(ss, xs) /\ xs[1] = s /\ \A i \in DOMAIN graphs : i # 1 => xs[i] = ss[i]
  BY <1>1, <1>2 DEF SameList, SubgraphLists
<1> HIDE DEF xs
<1>4. \A i \in DOMAIN graphs : Known(graphs[i], HandlesOf(i), xs[i])
  BY <1>1, <1>3
<1>5. AllKnown(xs)
  BY <1>1, <1>3, <1>4, KnownList
<1> QED BY <1>3, <1>5 DEF xs

-----------------------------------------------------------------------------
(* RemoveAllDelegates of the interpreter.                                  *)
RemovedAll(ss, r) ==
    /\ r.status \in {"ok", "error"} /\ AllKnown(r.sgs)
    /\ Restored(graphs[1], r.sgs[1])
    /\ \A i \in DOMAIN graphs : Restored(graphs[i], r.sgs[i]) \/ r.sgs[i] = ss[i]
    /\ r.status = "ok" => \A i \in DOMAIN graphs : Restored(graphs[i], r.sgs[i]) /\ r.sgs[i].state = "invokable"
    /\ r.status = "error" => \E i \in DOMAIN graphs : "cpu_prepare" \in graphs[i].faults

(* RemoveAllDelegates of all subgraphs.                                    *)
LEMMA RemoveAllFacts ==
    ASSUME model \in Models, NEW ss, AllKnown(ss), NEW r \in RemoveAll(ss)
    PROVE  RemovedAll(ss, r)
<1> DEFINE outs == [i \in DOMAIN ss |-> RemoveAllDelegates(graphs[i], ss[i])]
           n == Len(ss)
<1>1. /\ ss \in SubgraphLists /\ n \in Nat \ {0} /\ DOMAIN ss = 1 .. n /\ DOMAIN graphs = 1 .. n
      /\ ss = [i \in DOMAIN ss |-> ss[i]]
  BY ListFacts DEF AllKnown
<1>2. r \in OnAll(ss, outs)
  BY DEF RemoveAll
<1>3. \A i \in 1 .. n : outs[i] = RemoveAllDelegates(graphs[i], ss[i])
  BY <1>1
<1> HIDE DEF outs, n
<1>4. CalledOn(ss, outs, n, r)
  BY <1>1, <1>2, OnAllFacts DEF n
<1>5. ASSUME NEW i \in 1 .. n, NEW o \in outs[i] PROVE Removed(graphs[i], HandlesOf(i), o)
  BY <1>1, <1>3, <1>5, RemovedFacts, ModelFacts DEF AllKnown
<1>6. ASSUME NEW i \in 1 .. n, CallWorked(outs, i, r.sgs[i])
      PROVE  /\ Known(graphs[i], HandlesOf(i), r.sgs[i])
             /\ Restored(graphs[i], r.sgs[i]) /\ r.sgs[i].state = "invokable"
  BY <1>5, <1>6 DEF CallWorked, Removed
<1>7. \A i \in 1 .. n : Known(graphs[i], HandlesOf(i), ss[i])
  BY <1>1 DEF AllKnown
<1>8. CASE r.status = "ok"
  <2>1. \A i \in 1 .. n : CallWorked(outs, i, r.sgs[i])
    BY <1>4, <1>8 DEF CalledOn, WorkedUpTo
  <2>2. \A i \in 1 .. n : /\ Known(graphs[i], HandlesOf(i), r.sgs[i])
                          /\ Restored(graphs[i], r.sgs[i]) /\ r.sgs[i].state = "invokable"
    BY <1>6, <2>1
  <2>3. AllKnown(r.sgs)
    BY <1>1, <1>4, <2>2, KnownList DEF CalledOn
  <2> QED BY <1>1, <1>8, <2>2, <2>3 DEF RemovedAll
<1>9. CASE r.status # "ok"
  <2>1. PICK m \in 1 .. n : FailedAt(ss, outs, m, r)
    BY <1>4, <1>9 DEF CalledOn
  <2>2. PICK o \in outs[m] : o.status = r.status /\ r.sgs[m] = o.sg
    BY <2>1 DEF FailedAt, CallFailed
  <2>3. /\ r.status = "error" /\ Known(graphs[m], HandlesOf(m), r.sgs[m]) /\ Restored(graphs[m], r.sgs[m])
        /\ "cpu_prepare" \in graphs[m].faults
    BY <1>5, <1>9, <2>2 DEF Removed
  <2>4. ASSUME NEW i \in 1 .. n
        PROVE  /\ Known(graphs[i], HandlesOf(i), r.sgs[i])
               /\ Restored(graphs[i], r.sgs[i]) \/ r.sgs[i] = ss[i]
               /\ i <= m => Restored(graphs[i], r.sgs[i])
    <3>1. CASE i = m
      BY <2>3, <3>1
    <3>2. CASE i \in 1 .. m - 1
      BY <1>6, <2>1, <3>2 DEF FailedAt
    <3>3. CASE i \in m + 1 .. n
      <4>1. r.sgs[i] = ss[i] /\ ~(i <= m)
        BY <2>1, <3>3 DEF FailedAt, n
      <4> QED BY <1>7, <4>1
    <3> QED BY <1>1, <3>1, <3>2, <3>3
  <2>5. AllKnown(r.sgs)
    BY <1>1, <1>4, <2>4, KnownList DEF CalledOn
  <2>6. Restored(graphs[1], r.sgs[1])
    BY <1>1, <2>4
  <2> QED BY <1>1, <2>3, <2>4, <2>5, <2>6 DEF RemovedAll
<1> QED BY <1>8, <1>9

-----------------------------------------------------------------------------
(* ModifyGraphWithDelegate of the interpreter.                             *)
ModifiedTo(i, s, d, st, q) ==
    \E o : Modified(graphs[i], HandlesOf(i), s, d, o) /\ o.status = st /\ q = o.sg

StoppedAt(ss, d, m, st, xs) ==
    /\ ModifiedTo(m, ss[m], d, st, xs[m])
    /\ \A i \in 1 .. m - 1 : ModifiedTo(i, ss[i], d, "ok", xs[i])
    /\ \A i \in m + 1 .. Len(graphs) : xs[i] = ss[i]

ModifiedAll(ss, d, r) ==
    /\ r.status \in {"ok", "delegate_error", "application_error", "error"}
    /\ AllKnown(r.sgs)
    /\ r.status = "ok" => \A i \in DOMAIN graphs : ModifiedTo(i, ss[i], d, "ok", r.sgs[i])
    /\ r.status = "delegate_error" =>
          \A i \in DOMAIN graphs : Restored(graphs[i], r.sgs[i]) /\ r.sgs[i].state = "invokable"
    /\ r.status = "application_error" => \E m \in DOMAIN graphs : StoppedAt(ss, d, m, r.status, r.sgs)
    /\ r.status = "error" =>
          /\ \E i \in DOMAIN graphs : Brittle(graphs[i], ss[i])
          /\ Restored(graphs[1], r.sgs[1]) \/ \E m \in DOMAIN graphs : StoppedAt(ss, d, m, r.status, r.sgs)
    /\ \A i \in DOMAIN graphs : ~r.sgs[i].undone \/ r.sgs[i] = ss[i]

(* The loop over the subgraphs in ModifyGraphWithDelegate.                 *)
LEMMA ModifyOnAllFacts ==
    ASSUME model \in Models, NEW ss, AllKnown(ss), NEW d \in Delegates,
           NEW r \in OnAll(ss, [i \in DOMAIN ss |-> ModifyGraphWithDelegate(graphs[i], ss[i], d)])
    PROVE  /\ AllKnown(r.sgs)
           /\ r.status = "ok" => \A i \in DOMAIN graphs : ModifiedTo(i, ss[i], d, "ok", r.sgs[i])
           /\ r.status # "ok" => \E m \in DOMAIN graphs : StoppedAt(ss, d, m, r.status, r.sgs)
<1> DEFINE outs == [i \in DOMAIN ss |-> ModifyGraphWithDelegate(graphs[i], ss[i], d)]
           n == Len(ss)
<1>1. /\ ss \in SubgraphLists /\ n \in Nat \ {0} /\ DOMAIN ss = 1 .. n /\ DOMAIN graphs = 1 .. n
      /\ ss = [i \in DOMAIN ss |-> ss[i]] /\ n = Len(graphs)
  BY ListFacts DEF AllKnown
<1>2. r \in OnAll(ss, outs)
  OBVIOUS
<1>3. \A i \in 1 .. n : outs[i] = ModifyGraphWithDelegate(graphs[i], ss[i], d)
  BY <1>1
<1> HIDE DEF outs, n
<1>4. CalledOn(ss, outs, n, r)
  BY <1>1, <1>2, OnAllFacts DEF n
<1>5. ASSUME NEW i \in 1 .. n, NEW o \in outs[i] PROVE Modified(graphs[i], HandlesOf(i), ss[i], d, o)
  BY <1>1, <1>3, <1>5, ModifyFacts, ModelFacts DEF AllKnown
<1>6. ASSUME NEW i \in 1 .. n, NEW st, NEW o \in outs[i], o.status = st, r.sgs[i] = o.sg
      PROVE  Known(graphs[i], HandlesOf(i), r.sgs[i]) /\ ModifiedTo(i, ss[i], d, st, r.sgs[i])
  <2>1. Modified(graphs[i], HandlesOf(i), ss[i], d, o)
    BY <1>5
  <2> QED BY <1>6, <2>1 DEF Modified, ModifiedTo
<1>7. ASSUME NEW i \in 1 .. n, CallWorked(outs, i, r.sgs[i])
      PROVE  Known(graphs[i], HandlesOf(i), r.sgs[i]) /\ ModifiedTo(i, ss[i], d, "ok", r.sgs[i])
  BY <1>6, <1>7 DEF CallWorked
<1>8. \A i \in 1 .. n : Known(graphs[i], HandlesOf(i), ss[i])
  BY <1>1 DEF AllKnown
<1>9. CASE r.status = "ok"
  <2>1. \A i \in 1 .. n : CallWorked(outs, i, r.sgs[i])
    BY <1>4, <1>9 DEF CalledOn, WorkedUpTo
  <2>2. \A i \in 1 .. n : Known(graphs[i], HandlesOf(i), r.sgs[i]) /\ ModifiedTo(i, ss[i], d, "ok", r.sgs[i])
    BY <1>7, <2>1
  <2>3. AllKnown(r.sgs)
    BY <1>1, <1>4, <2>2, KnownList DEF CalledOn
  <2> QED BY <1>1, <1>9, <2>2, <2>3
<1>10. CASE r.status # "ok"
  <2>1. PICK m \in 1 .. n : FailedAt(ss, outs, m, r)
    BY <1>4, <1>10 DEF CalledOn
  <2>2. PICK o \in outs[m] : o.status = r.status /\ r.sgs[m] = o.sg
    BY <2>1 DEF FailedAt, CallFailed
  <2>3. Known(graphs[m], HandlesOf(m), r.sgs[m]) /\ ModifiedTo(m, ss[m], d, r.status, r.sgs[m])
    BY <1>6, <2>2
  <2>4. \A i \in 1 .. m - 1 : Known(graphs[i], HandlesOf(i), r.sgs[i]) /\ ModifiedTo(i, ss[i], d, "ok", r.sgs[i])
    <3> TAKE i \in 1 .. m - 1
    <3>1. i \in 1 .. n
      BY <1>1
    <3> QED BY <1>7, <2>1, <3>1 DEF FailedAt
  <2>5. \A i \in m + 1 .. n : r.sgs[i] = ss[i]
    BY <2>1 DEF FailedAt, n
  <2>6. \A i \in 1 .. n : Known(graphs[i], HandlesOf(i), r.sgs[i])
    <3> TAKE i \in 1 .. n
    <3>1. i = m \/ i \in 1 .. m - 1 \/ i \in m + 1 .. n
      BY <1>1
    <3> QED BY <1>8, <2>3, <2>4, <2>5, <3>1
  <2>7. AllKnown(r.sgs)
    BY <1>1, <1>4, <2>6, KnownList DEF CalledOn
  <2>8. StoppedAt(ss, d, m, r.status, r.sgs)
    BY <1>1, <2>3, <2>4, <2>5 DEF StoppedAt
  <2> QED BY <1>1, <1>10, <2>7, <2>8
<1> QED BY <1>9, <1>10

(* ModifyGraphWithDelegate of all subgraphs, with the removal after an     *)
(* error of the delegate.                                                  *)
LEMMA ModifyAllFacts ==
    ASSUME model \in Models, NEW ss, AllKnown(ss), NEW d \in Delegates, NEW r \in ModifyAll(ss, d)
    PROVE  ModifiedAll(ss, d, r)
<1>1. PICK x \in OnAll(ss, [i \in DOMAIN ss |-> ModifyGraphWithDelegate(graphs[i], ss[i], d)]) :
         IF x.status # "delegate_error" THEN r = x
         ELSE \E q \in RemoveAll(x.sgs) :
                 r = IF q.status = "ok" THEN [q EXCEPT !.status = "delegate_error"] ELSE q
  BY DEF ModifyAll
<1>2. /\ AllKnown(x.sgs)
      /\ x.status = "ok" => \A i \in DOMAIN graphs : ModifiedTo(i, ss[i], d, "ok", x.sgs[i])
      /\ x.status # "ok" => \E m \in DOMAIN graphs : StoppedAt(ss, d, m, x.status, x.sgs)
  BY <1>1, ModifyOnAllFacts
<1>3. \A i \in DOMAIN graphs : ~x.sgs[i].undone \/ x.sgs[i] = ss[i]
  <2>1. ASSUME NEW i \in DOMAIN graphs, NEW st, ModifiedTo(i, ss[i], d, st, x.sgs[i]) PROVE ~x.sgs[i].undone
    BY <2>1 DEF ModifiedTo, Modified
  <2>2. CASE x.status = "ok"
    BY <1>2, <2>1, <2>2
  <2>3. CASE x.status # "ok"
    <3>1. PICK m \in DOMAIN graphs : StoppedAt(ss, d, m, x.status, x.sgs)
      BY <1>2, <2>3
    <3>2. DOMAIN graphs = 1 .. Len(graphs) /\ Len(graphs) \in Nat
      BY ModelFacts
    <3>3. \A i \in DOMAIN graphs : i = m \/ i \in 1 .. m - 1 \/ i \in m + 1 .. Len(graphs)
      BY <3>2
    <3> QED BY <2>1, <3>1, <3>3 DEF StoppedAt
  <2> QED BY <2>2, <2>3
<1>4. CASE x.status # "delegate_error"
  <2>1. r = x
    BY <1>1, <1>4
  <2>2. CASE x.status = "ok"
    BY <1>2, <1>3, <2>1, <2>2 DEF ModifiedAll
  <2>3. CASE x.status # "ok"
    <3>1. PICK m \in DOMAIN graphs : StoppedAt(ss, d, m, x.status, x.sgs)
      BY <1>2, <2>3
    <3>2. PICK o : Modified(graphs[m], HandlesOf(m), ss[m], d, o) /\ o.status = x.status
      BY <3>1 DEF StoppedAt, ModifiedTo
    <3>3. /\ x.status \in {"delegate_error", "application_error", "error"}
          /\ x.status = "error" => Brittle(graphs[m], ss[m])
      BY <2>3, <3>2 DEF Modified
    <3> QED BY <1>2, <1>4, <1>3, <2>1, <2>3, <3>1, <3>3 DEF ModifiedAll
  <2> QED BY <2>2, <2>3
<1>5. CASE x.status = "delegate_error"
  <2>1. PICK q \in RemoveAll(x.sgs) : r = IF q.status = "ok" THEN [q EXCEPT !.status = "delegate_error"] ELSE q
    BY <1>1, <1>5
  <2>2. RemovedAll(x.sgs, q)
    BY <1>2, <2>1, RemoveAllFacts
  <2>3. \A i \in DOMAIN graphs : ~q.sgs[i].undone \/ q.sgs[i] = ss[i]
    <3> TAKE i \in DOMAIN graphs
    <3>1. Restored(graphs[i], q.sgs[i]) \/ q.sgs[i] = x.sgs[i]
      BY <2>2 DEF RemovedAll
    <3> QED BY <1>3, <3>1 DEF Restored
  <2>4. CASE q.status = "ok"
    <3>1. /\ AllKnown(q.sgs)
          /\ \A i \in DOMAIN graphs : Restored(graphs[i], q.sgs[i]) /\ q.sgs[i].state = "invokable"
      BY <2>2, <2>4 DEF RemovedAll
    <3>2. r.status = "delegate_error" /\ r.sgs = q.sgs
      BY <2>1, <2>4
    <3> QED BY <2>3, <3>1, <3>2 DEF ModifiedAll
  <2>5. CASE q.status # "ok"
    <3>1. r = q
      BY <2>1, <2>5
    <3>2. q.status = "error" /\ AllKnown(q.sgs) /\ \E i \in DOMAIN graphs : "cpu_prepare" \in graphs[i].faults
      BY <2>2, <2>5 DEF RemovedAll
    <3>3. \E i \in DOMAIN graphs : Brittle(graphs[i], ss[i])
      BY <3>2 DEF Brittle
    <3>4. Restored(graphs[1], q.sgs[1])
      BY <2>2 DEF RemovedAll
    <3> QED BY <2>3, <3>1, <3>2, <3>3, <3>4 DEF ModifiedAll
  <2> QED BY <2>4, <2>5
<1> QED BY <1>4, <1>5

-----------------------------------------------------------------------------
(* The loop of AllocateTensors over the delegates that wait, behind the    *)
(* first k: J are the subgraphs and the delegates that clients know of     *)
(* that it may come to.                                                    *)
Waiting == Seq(Delegates \cup {NoDelegate})

TriedUpTo(J, k, r) ==
    /\ DOMAIN r = {"status", "sgs", "lazy", "asked"}
    /\ <<r.sgs, r.asked>> \in J /\ r.status \in {"ok", "error", "crash"}
    /\ r.lazy \in Waiting /\ Len(r.lazy) = Len(lazy)
    /\ r.status = "ok" => \A i \in k + 1 .. Len(lazy) : r.lazy[i] = lazy[i]
    /\ r.status = "error" =>
          \E x \in J, d \in Elements(lazy) : d \in Delegates /\ \E q \in ModifyAll(x[1], d) : q.status = "error"
    /\ r.status = "crash" => NoDelegate \in Elements(lazy)

TryOne(r, k, q) ==
    IF r.status # "ok" THEN q = r
    ELSE IF r.lazy[k] = NoDelegate THEN q = [r EXCEPT !.status = "crash"]
    ELSE \E o \in ModifyAll(r.sgs, r.lazy[k]) :
            q = [status |-> IF o.status = "error" THEN "error" ELSE "ok", sgs |-> o.sgs,
                 lazy |-> [r.lazy EXCEPT ![k] = NoDelegate],
                 asked |-> AskedAfter(r.asked, o.status, r.lazy[k])]

LeadsOn(J) ==
    \A x \in J, d \in Elements(lazy) \ {NoDelegate} : \A q \in ModifyAll(x[1], d) :
        <<q.sgs, AskedAfter(x[2], q.status, d)>> \in J

(* One more lazy delegate is tried.                                        *)
LEMMA TryNext ==
    ASSUME NEW J, LeadsOn(J), lazy \in Waiting, NEW k \in 1 .. Len(lazy), NEW r, TriedUpTo(J, k - 1, r),
           NEW q, TryOne(r, k, q)
    PROVE  TriedUpTo(J, k, q)
<1>0. /\ Len(lazy) \in Nat /\ DOMAIN lazy = 1 .. Len(lazy) /\ lazy[k] \in Elements(lazy)
      /\ lazy[k] \in Delegates \cup {NoDelegate}
  BY ElementOfSeq, LenProperties DEF Waiting, Elements
<1>1. CASE r.status # "ok"
  BY <1>1 DEF TriedUpTo, TryOne
<1>2. CASE r.status = "ok"
  <2>1. r.lazy[k] = lazy[k] /\ \A i \in k + 1 .. Len(lazy) : r.lazy[i] = lazy[i]
    BY <1>0, <1>2 DEF TriedUpTo
  <2>2. CASE lazy[k] = NoDelegate
    <3>1. q = [r EXCEPT !.status = "crash"]
      BY <1>2, <2>1, <2>2 DEF TryOne
    <3>2. DOMAIN q = DOMAIN r /\ q.status = "crash" /\ q.sgs = r.sgs /\ q.lazy = r.lazy /\ q.asked = r.asked
      BY <3>1 DEF TriedUpTo
    <3> QED BY <1>0, <2>2, <3>2 DEF TriedUpTo
  <2>3. CASE lazy[k] # NoDelegate
    <3>1. PICK o \in ModifyAll(r.sgs, lazy[k]) :
            q = [status |-> IF o.status = "error" THEN "error" ELSE "ok", sgs |-> o.sgs,
                 lazy |-> [r.lazy EXCEPT ![k] = NoDelegate],
                 asked |-> AskedAfter(r.asked, o.status, lazy[k])]
      BY <1>2, <2>1, <2>3 DEF TryOne
    <3> DEFINE ls == [r.lazy EXCEPT ![k] = NoDelegate]
               told == AskedAfter(r.asked, o.status, lazy[k])
    <3>2. /\ ls \in Waiting /\ Len(ls) = Len(lazy)
          /\ \A i \in k + 1 .. Len(lazy) : ls[i] = lazy[i]
      <4>1. r.lazy \in Waiting /\ Len(r.lazy) = Len(lazy)
        BY DEF TriedUpTo
      <4> DEFINE l == r.lazy
      <4>2. l \in [1 .. Len(lazy) -> Delegates \cup {NoDelegate}]
        BY <4>1, LenProperties DEF Waiting
      <4>3. \A i \in k + 1 .. Len(lazy) : l[i] = lazy[i]
        BY <2>1
      <4> HIDE DEF l
      <4>4. [l EXCEPT ![k] = NoDelegate] \in [1 .. Len(lazy) -> Delegates \cup {NoDelegate}]
        BY <4>2
      <4>5. [l EXCEPT ![k] = NoDelegate] \in Waiting /\ Len([l EXCEPT ![k] = NoDelegate]) = Len(lazy)
        BY <1>0, <4>4, FunctionIsSeq DEF Waiting
      <4>6. \A i \in k + 1 .. Len(lazy) : [l EXCEPT ![k] = NoDelegate][i] = lazy[i]
        BY <1>0, <4>2, <4>3
      <4> QED BY <4>5, <4>6 DEF l
    <3> HIDE DEF ls, told
    <3>3. q = [status |-> IF o.status = "error" THEN "error" ELSE "ok", sgs |-> o.sgs,
               lazy |-> ls, asked |-> told]
      BY <3>1 DEF ls, told
    <3>4. /\ DOMAIN q = {"status", "sgs", "lazy", "asked"}
          /\ q.status = IF o.status = "error" THEN "error" ELSE "ok"
          /\ q.sgs = o.sgs /\ q.lazy = ls /\ q.asked = told
      BY <3>3
    <3>5. lazy[k] \in Elements(lazy) \ {NoDelegate} /\ lazy[k] \in Delegates
      BY <1>0, <2>3
    <3> DEFINE x == <<r.sgs, r.asked>>
    <3>6. x \in J /\ x[1] = r.sgs /\ x[2] = r.asked
      BY DEF TriedUpTo
    <3> HIDE DEF x
    <3>7. <<q.sgs, q.asked>> \in J
      BY <3>1, <3>4, <3>5, <3>6 DEF LeadsOn, told
    <3>8. q.status = "error" =>
            \E y \in J, d \in Elements(lazy) : d \in Delegates /\ \E p \in ModifyAll(y[1], d) : p.status = "error"
      BY <3>1, <3>4, <3>5, <3>6
    <3> QED BY <3>2, <3>4, <3>7, <3>8 DEF TriedUpTo
  <2> QED BY <2>2, <2>3
<1> QED BY <1>1, <1>2

(* What the loop gives: the list is empty, unless there was an error.      *)
Tried(J, r) ==
    /\ <<r.sgs, r.asked>> \in J /\ r.status \in {"ok", "error", "crash"} /\ r.lazy \in Waiting
    /\ r.status = "ok" => r.lazy = <<>>
    /\ r.status = "error" =>
          \E x \in J, d \in Elements(lazy) : d \in Delegates /\ \E q \in ModifyAll(x[1], d) : q.status = "error"
    /\ r.status = "crash" => NoDelegate \in Elements(lazy)

(* All lazy delegates are tried, in their order, until an error.           *)
LEMMA TryLazyFacts ==
    ASSUME NEW J, LeadsOn(J), lazy \in Waiting, NEW ss, <<ss, asked>> \in J, NEW r \in TryLazy(ss)
    PROVE  Tried(J, r)
<1> DEFINE n == Len(lazy)
           base == {[status |-> "ok", sgs |-> ss, lazy |-> lazy, asked |-> asked]}
           Go(rs, i) ==
             UNION {IF x.status # "ok" THEN {x}
                    ELSE IF x.lazy[i] = NoDelegate THEN {[x EXCEPT !.status = "crash"]}
                    ELSE {[status |-> IF q.status = "error" THEN "error" ELSE "ok",
                           sgs    |-> q.sgs,
                           lazy   |-> [x.lazy EXCEPT ![i] = NoDelegate],
                           asked  |-> AskedAfter(x.asked, q.status, x.lazy[i])] :
                             q \in ModifyAll(x.sgs, x.lazy[i])} : x \in rs}
           is == [i \in 1 .. n |-> i]
           After(f, m) == [k \in 0 .. m |-> IF k = 0 THEN base ELSE Go(f[k - 1], is[k])]
           run == CHOOSE f : f = After(f, Len(is))
<1>1. PICK y \in run[Len(is)] : r = IF y.status = "ok" THEN [y EXCEPT !.lazy = <<>>] ELSE y
  BY DEF TryLazy, Fold
<1>2. ASSUME NEW rs, NEW k, NEW q \in Go(rs, k) PROVE \E x \in rs : TryOne(x, k, q)
  <2>1. PICK x \in rs :
          q \in IF x.status # "ok" THEN {x}
                ELSE IF x.lazy[k] = NoDelegate THEN {[x EXCEPT !.status = "crash"]}
                ELSE {[status |-> IF o.status = "error" THEN "error" ELSE "ok",
                       sgs    |-> o.sgs,
                       lazy   |-> [x.lazy EXCEPT ![k] = NoDelegate],
                       asked  |-> AskedAfter(x.asked, o.status, x.lazy[k])] :
                         o \in ModifyAll(x.sgs, x.lazy[k])}
    BY <1>2
  <2> QED BY <2>1 DEF TryOne
<1>3. n \in Nat /\ Len(is) = n /\ \A k \in 1 .. n : is[k] = k
  <2>1. n \in Nat
    BY LenProperties DEF Waiting
  <2>2. is \in [1 .. n -> Nat]
    OBVIOUS
  <2> QED BY <2>1, <2>2, FunctionIsSeq
<1>4. ASSUME NEW f, NEW m \in Nat, NEW k \in 0 .. m
      PROVE  After(f, m)[k] = IF k = 0 THEN base ELSE Go(f[k - 1], is[k])
  OBVIOUS
<1>5. ASSUME NEW f, NEW m PROVE After(f, m) = [k \in 0 .. m |-> After(f, m)[k]]
  OBVIOUS
<1>6. \A x \in base : TriedUpTo(J, 0, x)
  <2>1. TriedUpTo(J, 0, [status |-> "ok", sgs |-> ss, lazy |-> lazy, asked |-> asked])
    BY DEF TriedUpTo
  <2> QED BY <2>1
<1> HIDE DEF n, base, Go, After, is
<1>7. run = After(run, n)
  <2> DEFINE T == {m \in 0 .. n : \E f : f = After(f, m)}
  <2>1. 0 \in T
    <3> DEFINE f == [k \in 0 .. 0 |-> base]
    <3>1. \A k \in 0 .. 0 : f[k] = After(f, 0)[k]
      BY <1>4
    <3>2. f = [k \in 0 .. 0 |-> f[k]]
      OBVIOUS
    <3> HIDE DEF f
    <3>3. f = After(f, 0)
      BY <1>5, <3>1, <3>2
    <3> QED BY <1>3, <3>3
  <2>2. ASSUME NEW m \in 1 .. n, m - 1 \in T PROVE m \in T
    <3>1. PICK e : e = After(e, m - 1)
      BY <2>2
    <3> DEFINE f == [k \in 0 .. m |-> IF k = m THEN Go(e[m - 1], is[m]) ELSE e[k]]
    <3>2. m \in Nat /\ m - 1 \in Nat /\ m # 0 /\ \A k \in 0 .. m : k = m \/ k \in 0 .. m - 1
      BY <1>3
    <3>3. f[m] = Go(e[m - 1], is[m]) /\ \A k \in 0 .. m - 1 : f[k] = e[k]
      BY <3>2
    <3>4. f = [k \in 0 .. m |-> f[k]]
      OBVIOUS
    <3> HIDE DEF f
    <3>5. ASSUME NEW k \in 0 .. m PROVE f[k] = After(f, m)[k]
      <4>1. CASE k = 0
        BY <1>4, <3>1, <3>2, <3>3, <4>1
      <4>2. CASE k \in 1 .. m - 1
        <5>1. k \in 0 .. m - 1 /\ k - 1 \in 0 .. m - 1 /\ k # 0
          BY <3>2, <4>2
        <5>2. e[k] = Go(e[k - 1], is[k])
          BY <1>4, <3>1, <3>2, <5>1
        <5> QED BY <1>4, <3>2, <3>3, <5>1, <5>2
      <4>3. CASE k = m
        <5>1. m - 1 \in 0 .. m - 1
          BY <3>2
        <5> QED BY <1>4, <3>2, <3>3, <4>3, <5>1
      <4> QED BY <3>2, <4>1, <4>2, <4>3
    <3>6. f = After(f, m)
      BY <1>5, <3>4, <3>5
    <3> QED BY <3>6
  <2>3. n \in T
    <3> HIDE DEF T
    <3>1. \A m \in 0 .. n : m \in T
      BY <1>3, <2>1, <2>2, UpTo
    <3> QED BY <1>3, <3>1
  <2> QED BY <1>3, <2>3
<1> HIDE DEF run
<1> DEFINE T == {k \in 0 .. n : \A x \in run[k] : TriedUpTo(J, k, x)}
<1>8. 0 \in T
  <2>1. run[0] = base /\ 0 \in 0 .. n
    BY <1>3, <1>4, <1>7
  <2> QED BY <1>6, <2>1
<1>9. ASSUME NEW k \in 1 .. n, k - 1 \in T PROVE k \in T
  <2>1. run[k] = Go(run[k - 1], k) /\ k \in 0 .. n
    BY <1>3, <1>4, <1>7
  <2>2. ASSUME NEW q \in run[k] PROVE TriedUpTo(J, k, q)
    <3>1. PICK x \in run[k - 1] : TryOne(x, k, q)
      BY <1>2, <2>1, <2>2
    <3>2. TriedUpTo(J, k - 1, x)
      BY <1>9
    <3> QED BY <3>1, <3>2, TryNext DEF n
  <2> QED BY <2>1, <2>2
<1>10. n \in T
  <2> HIDE DEF T
  <2>1. \A k \in 0 .. n : k \in T
    BY <1>3, <1>8, <1>9, UpTo
  <2> QED BY <1>3, <2>1
<1>11. TriedUpTo(J, n, y)
  BY <1>1, <1>3, <1>10
<1>12. /\ r.status = y.status /\ r.sgs = y.sgs /\ r.asked = y.asked
       /\ r.lazy = IF y.status = "ok" THEN <<>> ELSE y.lazy
  BY <1>1, <1>11 DEF TriedUpTo
<1>13. <<>> \in Waiting
  BY DEF Waiting
<1> QED BY <1>11, <1>12, <1>13 DEF TriedUpTo, Tried

-----------------------------------------------------------------------------
(* What does not change when nodes run and values are copied.              *)
SamePlans(s, q) ==
    /\ q.nodes = s.nodes /\ q.plan = s.plan /\ q.pre_plan = s.pre_plan
    /\ q.applied = s.applied /\ q.undone = s.undone
    /\ q.state = s.state /\ q.planner = s.planner

Settles(g, h, s, q) ==
    /\ q \in Subgraphs(g, h) /\ SamePlans(s, q)
    /\ q.ready \subseteq s.ready \cup 1 .. Len(s.nodes)
    /\ q.next_to_prepare = s.next_to_prepare \/ q.next_to_prepare \in 1 .. Len(s.plan) + 1
    /\ Regular(g) /\ Fit(g, s) => Fit(g, q)

SameShapes(s, q) == q.shaped = s.shaped /\ q.ready = s.ready /\ q.next_to_prepare = s.next_to_prepare

(* Preparation and shapes do not depend on the values of tensors.          *)
LEMMA ValuesSettle ==
    ASSUME NEW g, NEW h, NEW s, NEW q \in Subgraphs(g, h), SamePlans(s, q), SameShapes(s, q)
    PROVE  Settles(g, h, s, q)
<1>1. ASSUME Fit(g, s) PROVE Fit(g, q)
  <2>1. PreparedFar(g, s) => PreparedFar(g, q)
    BY SameFar DEF SamePlans, SameShapes, Grows
  <2> QED BY <1>1, <2>1 DEF Fit, NodesKnown, PlanIsStatic, HasDynamicOutputs, SamePlans, SameShapes
<1> QED BY <1>1 DEF Settles, SameShapes

(* What is known of a subgraph does not depend on the values of tensors.   *)
LEMMA DataKnown ==
    ASSUME NEW g, IsGraph(g), NEW h, NEW s, Known(g, h, s), NEW q, Settles(g, h, s, q)
    PROVE  Known(g, h, q)
<1>1. /\ q.nodes = s.nodes /\ q.plan = s.plan /\ q.pre_plan = s.pre_plan
      /\ q.applied = s.applied /\ q.undone = s.undone /\ q.state = s.state /\ q.planner = s.planner
  BY DEF Settles, SamePlans
<1>2. Sound(g, h, s) /\ Recorded(g, h, s) /\ (Regular(g) => Fit(g, s))
  BY DEF Known
<1>3. Len(s.plan) \in Nat /\ Len(s.plan) <= NumOriginal(g) /\ NumOriginal(g) \in Nat
  BY <1>2, SoundFacts
<1>4. AppliedOrder(q)
  <2>1. AppliedOrder(s)
    BY <1>2 DEF Sound
  <2> QED BY <1>1, <2>1 DEF AppliedOrder
<1>5. /\ q.next_to_prepare \in 1 .. NumOriginal(g) + 1
      /\ q.state # "uninvokable" => q.next_to_prepare <= Len(q.plan) + 1
  BY <1>1, <1>2, <1>3 DEF Sound, Settles
<1>6. q.ready \subseteq 1 .. Len(q.nodes)
  BY <1>1, <1>2 DEF Sound, Settles
<1>7. Sound(g, h, q)
  BY <1>1, <1>2, <1>4, <1>5, <1>6 DEF Sound, Settles
<1>8. Recorded(g, h, q)
  <2>1. PICK hist : RecordedBy(g, h, s, hist)
    BY <1>2 DEF Recorded
  <2>2. RecordedBy(g, h, q, hist)
    BY <1>1, <2>1 DEF RecordedBy
  <2> QED BY <2>2 DEF Recorded
<1>9. Regular(g) => Fit(g, q)
  BY <1>2 DEF Settles
<1> QED BY <1>7, <1>8, <1>9 DEF Known

(* Two settled steps are one.                                              *)
LEMMA SettlesTwice ==
    ASSUME NEW g, NEW h, NEW s, NEW q, NEW r, Settles(g, h, s, q), Settles(g, h, q, r)
    PROVE  Settles(g, h, s, r)
  BY DEF Settles, SamePlans

(* The operations on values.                                               *)
LEMMA EnsureReadableFacts ==
    ASSUME NEW g, NEW h, h \subseteq GraphTensors(g), NEW s \in Subgraphs(g, h), NEW ts
    PROVE  /\ EnsureReadable(s, ts).status \in {"ok", "error"}
           /\ Settles(g, h, s, EnsureReadable(s, ts).sg) /\ SameShapes(s, EnsureReadable(s, ts).sg)
           /\ EnsureReadable(s, ts).sg.handle = s.handle
<1> DEFINE copy == ts \cap s.stale
           z == [s EXCEPT !.fresh = (@ \ copy) \cup (s.buffered \cap copy), !.stale = @ \ copy]
           r == EnsureReadable(s, ts)
<1>1. r = [status |-> "error", sg |-> s] \/ r = [status |-> "ok", sg |-> z]
  BY DEF EnsureReadable, Outcome
<1>2. /\ (s.fresh \ copy) \cup (s.buffered \cap copy) \in TensorSets(g)
      /\ s.stale \ copy \in HandleSets(h)
  BY DEF Subgraphs, TensorSets, HandleSets
<1> HIDE DEF copy
<1>3. Settles(g, h, s, s) /\ SameShapes(s, s)
  BY ValuesSettle DEF SamePlans, SameShapes
<1>4. Settles(g, h, s, z) /\ SameShapes(s, z) /\ z.handle = s.handle
  <2>1. z \in Subgraphs(g, h) /\ SamePlans(s, z) /\ SameShapes(s, z) /\ z.handle = s.handle
    BY <1>2 DEF SamePlans, SameShapes, Subgraphs
  <2> QED BY <2>1, ValuesSettle
<1> HIDE DEF z, r
<1>5. (r.status = "error" /\ r.sg = s) \/ (r.status = "ok" /\ r.sg = z)
  BY <1>1
<1> QED BY <1>3, <1>4, <1>5 DEF r

(* The inputs of a node are made readable.                                 *)
LEMMA FetchInputsFacts ==
    ASSUME NEW g, NEW h, h \subseteq GraphTensors(g), NEW s \in Subgraphs(g, h), NEW n
    PROVE  /\ FetchInputs(s, n).status \in {"ok", "error"}
           /\ Settles(g, h, s, FetchInputs(s, n).sg) /\ SameShapes(s, FetchInputs(s, n).sg)
           /\ FetchInputs(s, n).sg.handle = s.handle
<1> DEFINE ts == {t \in s.nodes[n].inputs : s.delegate[t] \notin {NoDelegate, s.nodes[n].delegate}}
<1>1. FetchInputs(s, n) = EnsureReadable(s, ts)
  BY DEF FetchInputs
<1> HIDE DEF ts
<1> QED BY <1>1, EnsureReadableFacts

(* A node that runs changes the values of tensors only.                    *)
LEMMA RunNodeFacts ==
    ASSUME NEW g, NEW h, h \subseteq GraphTensors(g), NEW s \in Subgraphs(g, h), NEW n \in 1 .. Len(s.nodes)
    PROVE  Settles(g, h, s, RunNode(s, n)) /\ SameShapes(s, RunNode(s, n))
<1> DEFINE node  == s.nodes[n]
           own   == IF node.delegate = NoDelegate THEN {}
                    ELSE {t \in s.handle : s.delegate[t] = node.delegate}
           right == \A t \in node.inputs :
                       IF t \in own \cap s.stale THEN t \in s.buffered ELSE t \in s.fresh
           raw   == node.outputs \ own
           buf   == node.outputs \cap own
           fr    == IF right THEN (s.fresh \ buf) \cup raw ELSE s.fresh \ node.outputs
           bu    == IF right THEN s.buffered \cup buf ELSE s.buffered \ buf
           z     == [s EXCEPT !.fresh = fr, !.buffered = bu, !.stale = s.stale \cup buf]
<1>1. RunNode(s, n) = z
  BY DEF RunNode, Subgraphs
<1>2. node \in NodeRecords(g)
  BY ElementOfSeq DEF Subgraphs, NodeLists
<1>3. node.outputs \subseteq GraphTensors(g) /\ own \subseteq s.handle /\ s.handle \subseteq h
      /\ s.fresh \subseteq GraphTensors(g) /\ s.buffered \subseteq h /\ s.stale \subseteq h
  BY <1>2 DEF NodeRecords, Subgraphs, TensorSets, HandleSets
<1> HIDE DEF own, right
<1>4. fr \in TensorSets(g) /\ bu \in HandleSets(h) /\ s.stale \cup buf \in HandleSets(h)
  BY <1>3 DEF TensorSets, HandleSets
<1> HIDE DEF fr, bu, buf
<1>5. z \in Subgraphs(g, h) /\ SamePlans(s, z) /\ SameShapes(s, z)
  BY <1>4 DEF SamePlans, SameShapes, Subgraphs
<1> QED BY <1>1, <1>5, ValuesSettle

(* A node that resizes its outputs changes shapes only, and Invoke goes on *)
(* from there.                                                             *)
LEMMA ResizedFacts ==
    ASSUME NEW g, IsGraph(g), NEW h, NEW s, Known(g, h, s), s.state # "uninvokable",
           NEW k \in 1 .. Len(s.plan), Regular(g) => k < s.next_to_prepare, Underway(g, s, k),
           NEW resized \in IF HasDynamicOutputs(g, s, s.plan[k]) THEN BOOLEAN ELSE {FALSE}
    PROVE  LET q == ResizedOutputs(g, s, k, resized)
           IN  Settles(g, h, s, q) /\ Underway(g, q, k + 1) /\ q.fresh = s.fresh
<1> DEFINE outs == s.nodes[s.plan[k]].outputs \cap g.dynamic
           below == DownstreamNodes(s, outs)
           inner == UNION {Elements(s.nodes[n].runs) : n \in below}
           sh == (s.shaped \ WritesOf(g.writes, inner)) \cup outs
           x == [s EXCEPT !.shaped = s.shaped \cup outs]
           y == [s EXCEPT !.shaped = sh, !.ready = s.ready \ (below \cup inner), !.next_to_prepare = k + 1]
           q == ResizedOutputs(g, s, k, resized)
<1>0. Sound(g, h, s) /\ s \in Subgraphs(g, h) /\ s.plan[k] \in 1 .. Len(s.nodes)
  BY DEF Known, Sound, GoodPlan, WellPlaced
<1>1. q = IF ~resized THEN x ELSE y
  BY <1>0 DEF ResizedOutputs, Subgraphs
<1>2. s.nodes[s.plan[k]] \in NodeRecords(g)
  BY <1>0, ElementOfSeq DEF Subgraphs, NodeLists
<1>3. outs \subseteq GraphTensors(g)
  BY <1>2 DEF NodeRecords
<1> HIDE DEF below, inner
<1>4. s.shaped \cup outs \in TensorSets(g) /\ sh \in TensorSets(g) /\ s.ready \ (below \cup inner) \in NodeSets
  BY <1>0, <1>3 DEF Subgraphs, TensorSets, NodeSets
<1>5. Len(s.plan) \in Nat /\ k + 1 \in Nat /\ k + 1 \in 1 .. Len(s.plan) + 1
  BY <1>0, LenProperties DEF Subgraphs, IndexLists
<1> HIDE DEF outs, sh
<1>6. x \in Subgraphs(g, h) /\ SamePlans(s, x) /\ x.ready = s.ready /\ x.next_to_prepare = s.next_to_prepare
      /\ x.fresh = s.fresh
  BY <1>0, <1>4 DEF SamePlans, Subgraphs
<1>7. y \in Subgraphs(g, h) /\ SamePlans(s, y) /\ y.ready \subseteq s.ready /\ y.next_to_prepare = k + 1
      /\ y.fresh = s.fresh
  BY <1>0, <1>4, <1>5 DEF SamePlans, Subgraphs
<1>8. Regular(g) => Fit(g, q) /\ Underway(g, q, k + 1)
  BY <1>0, ResizedFits DEF Known, Underway
<1>9. Underway(g, q, k + 1)
  BY <1>8 DEF Underway
<1> HIDE DEF q, x, y
<1>10. q \in Subgraphs(g, h) /\ SamePlans(s, q) /\ q.ready \subseteq s.ready /\ q.fresh = s.fresh
       /\ (q.next_to_prepare = s.next_to_prepare \/ q.next_to_prepare \in 1 .. Len(s.plan) + 1)
  BY <1>1, <1>5, <1>6, <1>7
<1>11. Settles(g, h, s, q)
  BY <1>8, <1>10 DEF Settles
<1> QED BY <1>9, <1>10, <1>11 DEF q

(* New values of tensors and handles.                                      *)
LEMMA NewValues ==
    ASSUME NEW g, NEW h, NEW s \in Subgraphs(g, h), NEW ts \in TensorSets(g), NEW bs \in HandleSets(h)
    PROVE  /\ Settles(g, h, s, [s EXCEPT !.fresh = ts])
           /\ Settles(g, h, s, [s EXCEPT !.fresh = ts, !.buffered = bs])
           /\ Settles(g, h, s, [s EXCEPT !.handle = bs])
<1>1. ASSUME NEW q, q \in Subgraphs(g, h), SamePlans(s, q), SameShapes(s, q) PROVE Settles(g, h, s, q)
  BY <1>1, ValuesSettle
<1>2. Settles(g, h, s, [s EXCEPT !.fresh = ts])
  BY <1>1 DEF SamePlans, SameShapes, Subgraphs
<1>3. Settles(g, h, s, [s EXCEPT !.fresh = ts, !.buffered = bs])
  BY <1>1 DEF SamePlans, SameShapes, Subgraphs
<1>4. Settles(g, h, s, [s EXCEPT !.handle = bs])
  BY <1>1 DEF SamePlans, SameShapes, Subgraphs
<1> QED BY <1>2, <1>3, <1>4

(* The preparation that a loop body begins with.                           *)
LEMMA PrepareInvokeFacts ==
    ASSUME NEW g, IsGraph(g), NEW h, NEW s, Known(g, h, s), s.state # "uninvokable",
           s.next_to_prepare \in 1 .. Len(s.plan), Underway(g, s, s.next_to_prepare),
           NEW r \in PrepareOpsAndTensors(g, s)
    PROVE  /\ r.status \in {"ok", "error"} /\ Settles(g, h, s, r.sg)
           /\ r.status = "error" => Faulty(g, s)
           /\ SameNodes(s, r.sg) /\ r.sg.fresh = s.fresh
           /\ r.status = "ok" =>
                 Underway(g, r.sg, s.next_to_prepare) /\ (Regular(g) => s.next_to_prepare < r.sg.next_to_prepare)
<1>1. Sound(g, h, s) /\ Preparable(g, h, s)
      /\ Len(s.plan) \in Nat /\ Len(s.plan) <= NumOriginal(g) /\ NumOriginal(g) \in Nat
  BY SoundFacts DEF Known
<1>2. s.pre_plan # <<>> => Len(s.pre_plan) = NumOriginal(g)
  BY <1>1, GraphFacts DEF Sound
<1>3. NextFits(s)
  BY <1>1, <1>2 DEF NextFits
<1>4. /\ r.status \in {"ok", "error"} /\ r.sg \in Subgraphs(g, h)
      /\ SameNodes(s, r.sg) /\ r.sg.state = s.state /\ r.sg.fresh = s.fresh
      /\ r.sg.planner = PlannerOf(s)
      /\ r.sg.ready \subseteq s.ready \cup 1 .. Len(s.nodes)
      /\ r.sg.next_to_prepare \in s.next_to_prepare .. Len(s.plan) + 1
      /\ r.status = "error" => Faulty(g, s)
  BY <1>1, <1>3, PrepareTensorsFacts
<1>5. r.sg.planner = s.planner
  BY <1>1, <1>4 DEF Sound, PlannerOf
<1>6. SamePlans(s, r.sg)
  BY <1>4, <1>5 DEF SameNodes, SamePlans
<1>7. r.sg.next_to_prepare \in 1 .. Len(s.plan) + 1
  BY <1>1, <1>4
<1>8. ASSUME Regular(g)
      PROVE  /\ Fit(g, r.sg) /\ Grows(s, r.sg)
             /\ r.status = "ok" => s.next_to_prepare < r.sg.next_to_prepare
  BY <1>1, <1>8, PrepareGoesOn DEF Known, Underway
<1>9. r.status = "ok" => Underway(g, r.sg, s.next_to_prepare)
  <2>1. ASSUME Regular(g), r.status = "ok" PROVE s.next_to_prepare <= r.sg.next_to_prepare
    BY <1>4, <1>7
  <2>2. Regular(g) => OutputsBefore(s.nodes, s.plan, s.next_to_prepare) \subseteq r.sg.shaped
    BY <1>8 DEF Underway, Grows
  <2> QED BY <1>6, <2>1, <2>2 DEF Underway, SamePlans
<1> QED BY <1>4, <1>6, <1>7, <1>8, <1>9 DEF Settles

-----------------------------------------------------------------------------
(* What is always true of the interpreter.                                 *)
Busy  == pc \in {"invoke", "run"}
H1    == model.handles

Base ==
    /\ model \in Models /\ AllKnown(sgs)
    /\ pc \in {"idle", "invoke", "run", "crashed"}
    /\ Busy => /\ call \in {"Invoke", "InvokeWithCPUFallback", "retry"}
               /\ Primary.state # "uninvokable"
               /\ index \in 1 .. Len(Primary.plan) + 1
               /\ Underway(G1, Primary, index)
    /\ pc = "run" => index <= Len(Primary.plan) /\ (Regular(G1) => index < Primary.next_to_prepare)
    /\ ~Busy => index = 1
    /\ asked \in DelegateLists /\ lazy \in Waiting

(* Base after a step that ends the call.                                   *)
LEMMA BaseIdle ==
    ASSUME model \in Models, model' = model, AllKnown(sgs'), pc' \in {"idle", "crashed"}, index' = 1,
           asked' \in DelegateLists, lazy' \in Waiting
    PROVE  Base'
  BY DEF Base, Busy, Primary, AllKnown, SubgraphLists, AnySubgraph, HandlesOf, graphs

(* Base after a step inside Invoke.                                        *)
LEMMA BaseBusy ==
    ASSUME model \in Models, model' = model, AllKnown(sgs'), pc' \in {"invoke", "run"},
           call' \in {"Invoke", "InvokeWithCPUFallback", "retry"}, sgs'[1].state # "uninvokable",
           index' \in 1 .. Len(sgs'[1].plan) + 1, Underway(G1, sgs'[1], index'),
           pc' = "run" => index' <= Len(sgs'[1].plan) /\ (Regular(G1) => index' < sgs'[1].next_to_prepare),
           asked' \in DelegateLists, lazy' \in Waiting
    PROVE  Base'
  BY DEF Base, Busy, Primary, AllKnown, SubgraphLists, AnySubgraph, HandlesOf, graphs, G1

(* The first place of the plan.                                            *)
LEMMA UnderwayFirst ==
    ASSUME NEW g, NEW h, NEW s, Known(g, h, s)
    PROVE  Underway(g, s, 1)
<1>1. s.next_to_prepare \in Nat /\ 1 <= s.next_to_prepare
  BY SoundFacts DEF Known, Sound
<1>2. OutputsBefore(s.nodes, s.plan, 1) = {}
  BY DEF OutputsBefore
<1> QED BY <1>1, <1>2 DEF Underway

(* What is known of the primary subgraph.                                  *)
LEMMA PrimaryFacts ==
    ASSUME Base
    PROVE  /\ IsGraph(G1) /\ H1 \subseteq GraphTensors(G1) /\ G1 = graphs[1] /\ HandlesOf(1) = H1
           /\ Known(G1, H1, Primary) /\ Primary \in Subgraphs(G1, H1)
           /\ Len(Primary.plan) \in Nat /\ Len(Primary.plan) <= NumOriginal(G1) /\ NumOriginal(G1) \in Nat \ {0}
           /\ \A k \in 1 .. Len(Primary.plan) : Primary.plan[k] \in 1 .. Len(Primary.nodes)
<1>1. /\ 1 \in DOMAIN graphs /\ IsGraph(graphs[1]) /\ G1 = graphs[1]
      /\ model.handles \subseteq GraphTensors(G1)
  BY ModelFacts DEF Base
<1>2. Known(G1, H1, Primary)
  BY <1>1 DEF Base, AllKnown, HandlesOf, H1, Primary
<1>3. Sound(G1, H1, Primary)
  BY <1>2 DEF Known
<1>4. /\ Len(Primary.plan) \in Nat /\ Len(Primary.plan) <= NumOriginal(G1)
      /\ NumOriginal(G1) \in Nat \ {0}
  BY <1>1, <1>3, SoundFacts
<1>5. \A k \in 1 .. Len(Primary.plan) : Primary.plan[k] \in 1 .. Len(Primary.nodes)
  BY <1>3 DEF Sound, GoodPlan, WellPlaced
<1> QED BY <1>1, <1>2, <1>3, <1>4, <1>5 DEF HandlesOf, H1, Sound

(* Base holds at the start.                                                *)
LEMMA BaseInit ==
    ASSUME Init
    PROVE  Base
<1>1. model \in Models /\ sgs = [i \in DOMAIN graphs |-> NewSubgraph(graphs[i])]
  BY DEF Init
<1>2. ASSUME NEW i \in DOMAIN graphs PROVE Known(graphs[i], HandlesOf(i), sgs[i]) /\ sgs[i].state = "uninvokable"
  <2> DEFINE g == graphs[i]
             h == HandlesOf(i)
             s == sgs[i]
  <2>1. IsGraph(g)
    BY <1>1, ModelFacts
  <2>2. s = NewSubgraph(g)
    BY <1>1
  <2> HIDE DEF g, h, s
  <2>3. /\ s.nodes = OrigNodes(g) /\ s.plan = Orig(g) /\ s.pre_plan = <<>> /\ s.applied = <<>>
        /\ ~s.undone /\ s.state = "uninvokable" /\ s.ready = {} /\ s.next_to_prepare = 1
    BY <2>2 DEF NewSubgraph, OrigNodes, Orig
  <2>4. s \in Subgraphs(g, h)
    <3>1. /\ OrigNodes(g) \in NodeLists(g) /\ Orig(g) \in IndexLists /\ <<>> \in IndexLists
          /\ <<>> \in DelegateLists /\ <<>> \in PlannerStates /\ {} \in NodeSets
          /\ {} \in TensorSets(g) /\ g.in \in TensorSets(g) /\ {} \in HandleSets(h)
          /\ "uninvokable" \in States
      BY <2>1, GraphFacts DEF IndexLists, DelegateLists, PlannerStates, NodeSets, TensorSets, HandleSets, States
    <3>2. [t \in GraphTensors(g) |-> NoDelegate] \in TensorOwners(g)
      BY DEF TensorOwners
    <3>3. s = [nodes |-> OrigNodes(g), plan |-> Orig(g), pre_plan |-> <<>>, state |-> "uninvokable",
               applied |-> <<>>, undone |-> FALSE, planner |-> <<>>, next_to_prepare |-> 1,
               has_dynamic |-> FALSE, shaped |-> g.in, ready |-> {},
               delegate |-> [t \in GraphTensors(g) |-> NoDelegate],
               handle |-> {}, stale |-> {}, fresh |-> {}, buffered |-> {}]
      BY <2>2 DEF NewSubgraph, OrigNodes, Orig
    <3> QED BY <3>1, <3>2, <3>3 DEF Subgraphs
  <2>5. NumOriginal(g) \in Nat \ {0} /\ GoodNodes(g, OrigNodes(g)) /\ GoodPlan(g, OrigNodes(g), Orig(g))
    BY <2>1, GraphFacts, OrigIsGood
  <2>6. AppliedOrder(s)
    <3>1. Len(<<>>) = 0
      OBVIOUS
    <3> QED BY <2>3, <3>1 DEF AppliedOrder
  <2>7. Sound(g, h, s)
    BY <2>3, <2>4, <2>5, <2>6 DEF Sound
  <2>8. Recorded(g, h, s)
    BY <2>1, <2>3, RestoredRecorded
  <2>9. Fit(g, s)
    <3>1. g.in \subseteq s.shaped
      BY <2>2 DEF NewSubgraph
    <3>2. NodesKnown(s, s.applied)
      BY <2>1, <2>3, OrigUnowned DEF NodesKnown
    <3> QED BY <2>3, <3>1, <3>2 DEF Fit
  <2> QED BY <2>3, <2>7, <2>8, <2>9 DEF Known, g, h, s
<1>3. sgs \in SubgraphLists
  <2>1. \A i \in DOMAIN graphs : sgs[i] \in AnySubgraph
    <3> TAKE i \in DOMAIN graphs
    <3>1. sgs[i] \in Subgraphs(graphs[i], HandlesOf(i))
      BY <1>2, KnownTyped
    <3> QED BY <3>1 DEF AnySubgraph
  <2>2. sgs = [i \in DOMAIN graphs |-> sgs[i]]
    BY <1>1
  <2> QED BY <2>1, <2>2 DEF SubgraphLists
<1>4. AllKnown(sgs)
  BY <1>2, <1>3 DEF AllKnown
<1>5. lazy \in Waiting /\ asked \in DelegateLists
  <2>1. lazy \in Seq(Delegates) /\ asked = <<>>
    BY <1>1, ModelFacts DEF Init
  <2> QED BY <2>1 DEF Waiting, DelegateLists
<1> QED BY <1>1, <1>4, <1>5 DEF Base, Init, Busy

-----------------------------------------------------------------------------
(* How Invoke ends, with the primary subgraph s.                           *)
Leaves(op, st) ==
    /\ pc' = "idle" /\ call' = "none" /\ index' = 1
    /\ last' = [op |-> op, status |-> st]

ReturnsAs(s, status) ==
    /\ sgs' = [sgs EXCEPT ![1] = s] /\ asked' = asked
    /\ \E op \in {"Invoke", "InvokeWithCPUFallback"}, st \in {"ok", "delegate_error", "error"} :
          Leaves(op, st) /\ (st # "error" => status = "ok")

FallsBack(s, r) ==
    LET q == EnsureReadable(s, G1.in).sg
    IN  /\ EnsureReadable(s, G1.in).status = "ok"
        /\ Settles(G1, H1, s, q) /\ AllKnown([sgs EXCEPT ![1] = q])
        /\ RemovedAll([sgs EXCEPT ![1] = q], r)
        /\ asked' = <<>>
        /\ \/ /\ r.status = "ok" /\ pc' = "invoke" /\ call' = "retry" /\ index' = 1 /\ last' = last
              /\ sgs' = [r.sgs EXCEPT ![1] = [r.sgs[1] EXCEPT !.fresh = q.fresh \cap G1.in]]
           \/ r.status = "error" /\ sgs' = r.sgs /\ Leaves("InvokeWithCPUFallback", "error")

(* Invoke ends with its status, or it falls back to the CPU.               *)
LEMMA EndInvokeFacts ==
    ASSUME Base, Busy, NEW s, Known(G1, H1, s), NEW status \in {"ok", "error"}, EndInvoke(s, status)
    PROVE  ReturnsAs(s, status) \/ (status = "error" /\ \E r : FallsBack(s, r))
<1> DEFINE ss == [sgs EXCEPT ![1] = s]
           again == /\ call = "InvokeWithCPUFallback" /\ status # "ok"
                    /\ ~cancelled /\ s.applied # <<>>
           input == EnsureReadable(s, G1.in)
<1>0. call \in {"Invoke", "InvokeWithCPUFallback", "retry"}
  BY DEF Base
<1>1. CASE ~again
  <2> DEFINE op == IF call = "retry" THEN "InvokeWithCPUFallback" ELSE call
             st == IF call = "retry" /\ status = "ok" THEN "delegate_error" ELSE status
  <2>1. sgs' = ss /\ Leaves(op, st) /\ asked' = asked
    BY <1>1 DEF EndInvoke, Leaves, Returns
  <2>2. /\ op \in {"Invoke", "InvokeWithCPUFallback"} /\ st \in {"ok", "delegate_error", "error"}
        /\ st # "error" => status = "ok"
    BY <1>0
  <2> QED BY <2>1, <2>2 DEF ReturnsAs
<1>2. CASE again /\ input.status # "ok"
  <2>1. sgs' = ss /\ Leaves("InvokeWithCPUFallback", "error") /\ asked' = asked
    BY <1>2 DEF EndInvoke, Leaves, Returns
  <2> QED BY <2>1 DEF ReturnsAs
<1>3. CASE again /\ input.status = "ok"
  <2> DEFINE q == input.sg
             xs == [ss EXCEPT ![1] = q]
  <2>1. PICK r \in RemoveAll(xs) :
              /\ asked' = <<>>
              /\ IF r.status = "ok"
                 THEN /\ sgs' = CopyInputs(r.sgs, q.fresh)
                      /\ pc' = "invoke" /\ call' = "retry" /\ index' = 1
                      /\ UNCHANGED last
                 ELSE sgs' = r.sgs /\ Leaves("InvokeWithCPUFallback", r.status)
    BY <1>3 DEF EndInvoke, Leaves, Returns
  <2>2. xs = [sgs EXCEPT ![1] = q]
    OBVIOUS
  <2>3. IsGraph(G1) /\ H1 \subseteq GraphTensors(G1) /\ G1 = graphs[1] /\ HandlesOf(1) = H1
    BY PrimaryFacts
  <2>4. Settles(G1, H1, s, q)
    BY <2>3, EnsureReadableFacts, KnownTyped
  <2> HIDE DEF q, xs
  <2>5. Known(G1, H1, q)
    BY <2>3, <2>4, DataKnown
  <2>6. AllKnown(xs)
    BY <2>2, <2>3, <2>5, KnownReplaced DEF Base
  <2>7. RemovedAll(xs, r)
    BY <2>1, <2>6, RemoveAllFacts DEF Base
  <2>8. CopyInputs(r.sgs, q.fresh) = [r.sgs EXCEPT ![1] = [r.sgs[1] EXCEPT !.fresh = q.fresh \cap G1.in]]
    BY DEF CopyInputs
  <2>9. r.status \in {"ok", "error"}
    BY <2>7 DEF RemovedAll
  <2>10. FallsBack(s, r)
    <3>1. CASE r.status = "ok"
      BY <1>3, <2>1, <2>2, <2>4, <2>6, <2>7, <2>8, <3>1 DEF FallsBack, q
    <3>2. CASE r.status = "error"
      BY <1>3, <2>1, <2>2, <2>4, <2>6, <2>7, <3>2 DEF FallsBack, q
    <3> QED BY <2>9, <3>1, <3>2
  <2>11. status = "error"
    BY <1>3
  <2> QED BY <2>10, <2>11
<1> QED BY <1>1, <1>2, <1>3

(* The subgraph with which a second Invoke begins.                         *)
LEMMA RetryFacts ==
    ASSUME Base, NEW s, NEW r, FallsBack(s, r), r.status = "ok"
    PROVE  LET v == sgs'[1]
           IN  /\ AllKnown(sgs') /\ AllKnown(r.sgs) /\ Known(G1, H1, v)
               /\ v = [r.sgs[1] EXCEPT !.fresh = EnsureReadable(s, G1.in).sg.fresh \cap G1.in]
               /\ v.fresh = EnsureReadable(s, G1.in).sg.fresh \cap G1.in
               /\ Settles(G1, H1, r.sgs[1], v) /\ Restored(G1, v) /\ v.state = "invokable"
               /\ \A i \in DOMAIN graphs : /\ Restored(graphs[i], sgs'[i]) /\ sgs'[i].state = "invokable"
                                           /\ i # 1 => sgs'[i] = r.sgs[i]
<1> DEFINE ts == EnsureReadable(s, G1.in).sg.fresh \cap G1.in
           v == [r.sgs[1] EXCEPT !.fresh = ts]
<1>1. /\ AllKnown(r.sgs) /\ sgs' = [r.sgs EXCEPT ![1] = v]
      /\ \A i \in DOMAIN graphs : Restored(graphs[i], r.sgs[i]) /\ r.sgs[i].state = "invokable"
  BY DEF FallsBack, RemovedAll
<1>2. /\ IsGraph(G1) /\ H1 \subseteq GraphTensors(G1) /\ G1 = graphs[1] /\ HandlesOf(1) = H1
      /\ 1 \in DOMAIN graphs
  BY PrimaryFacts, ModelFacts DEF Base
<1>3. Known(G1, H1, r.sgs[1])
  BY <1>1, <1>2 DEF AllKnown
<1>4. ts \in TensorSets(G1) /\ {} \in HandleSets(H1)
  BY <1>2, GraphFacts DEF TensorSets, HandleSets
<1> HIDE DEF ts
<1>5. Settles(G1, H1, r.sgs[1], v)
  BY <1>3, <1>4, KnownTyped, NewValues
<1>6. v.fresh = ts
  BY <1>3, KnownTyped DEF Subgraphs
<1> HIDE DEF v
<1>7. Known(G1, H1, v)
  BY <1>2, <1>3, <1>5, DataKnown
<1>8. /\ AllKnown(sgs') /\ sgs'[1] = v
      /\ \A i \in DOMAIN graphs : i # 1 => sgs'[i] = r.sgs[i]
  BY <1>1, <1>2, <1>7, KnownReplaced DEF Base
<1>9. Restored(G1, v) /\ v.state = "invokable"
  BY <1>1, <1>2, <1>5 DEF Settles, SamePlans, Restored
<1>10. \A i \in DOMAIN graphs : Restored(graphs[i], sgs'[i]) /\ sgs'[i].state = "invokable"
  BY <1>1, <1>2, <1>8, <1>9
<1> QED BY <1>1, <1>5, <1>6, <1>7, <1>8, <1>9, <1>10 DEF v, ts

(* Base after the end of Invoke.                                           *)
LEMMA EndInvokeBase ==
    ASSUME Base, Busy, NEW s, Known(G1, H1, s), NEW status \in {"ok", "error"}, EndInvoke(s, status),
           model' = model, lazy' = lazy
    PROVE  Base'
<1>1. ReturnsAs(s, status) \/ (status = "error" /\ \E r : FallsBack(s, r))
  BY EndInvokeFacts
<1>2. model \in Models /\ AllKnown(sgs) /\ asked \in DelegateLists /\ lazy \in Waiting /\ HandlesOf(1) = H1
      /\ G1 = graphs[1]
  BY PrimaryFacts DEF Base
<1>3. CASE ReturnsAs(s, status)
  <2>1. AllKnown([sgs EXCEPT ![1] = s])
    BY <1>2, KnownReplaced
  <2>2. AllKnown(sgs') /\ asked' = asked /\ pc' = "idle" /\ index' = 1
    BY <1>3, <2>1 DEF ReturnsAs, Leaves
  <2> QED BY <1>2, <2>2, BaseIdle
<1>4. ASSUME NEW r, FallsBack(s, r) PROVE Base'
  <2>0. <<>> \in DelegateLists /\ asked' = <<>>
    BY <1>4 DEF FallsBack, DelegateLists
  <2>1. CASE r.status = "ok"
    <3>1. AllKnown(sgs') /\ Known(G1, H1, sgs'[1]) /\ sgs'[1].state = "invokable"
      BY <1>4, <2>1, RetryFacts
    <3>2. pc' = "invoke" /\ call' = "retry" /\ index' = 1
      BY <1>4, <2>1 DEF FallsBack
    <3>3. Len(sgs'[1].plan) \in Nat
      BY <3>1, KnownTyped, LenProperties DEF Subgraphs, IndexLists
    <3>4. index' \in 1 .. Len(sgs'[1].plan) + 1
      BY <3>2, <3>3
    <3>5. Underway(G1, sgs'[1], index')
      BY <3>1, <3>2, UnderwayFirst
    <3> QED BY <1>2, <2>0, <3>1, <3>2, <3>4, <3>5, BaseBusy
  <2>2. CASE r.status # "ok"
    <3>1. AllKnown(sgs') /\ pc' = "idle" /\ index' = 1
      BY <1>4, <2>2 DEF FallsBack, RemovedAll, Leaves
    <3> QED BY <1>2, <2>0, <3>1, BaseIdle
  <2> QED BY <2>1, <2>2
<1> QED BY <1>1, <1>3, <1>4

-----------------------------------------------------------------------------
(* The primary subgraph with other values.                                 *)
LEMMA PrimarySettles ==
    ASSUME Base, NEW q, Settles(G1, H1, Primary, q)
    PROVE  /\ Known(G1, H1, q) /\ q \in Subgraphs(G1, H1) /\ AllKnown([sgs EXCEPT ![1] = q])
           /\ [sgs EXCEPT ![1] = q][1] = q
           /\ \A i \in DOMAIN graphs : i # 1 => [sgs EXCEPT ![1] = q][i] = sgs[i]
           /\ SamePlans(Primary, q)
<1>1. /\ IsGraph(G1) /\ G1 = graphs[1] /\ HandlesOf(1) = H1 /\ Known(G1, H1, Primary)
      /\ model \in Models /\ AllKnown(sgs)
  BY PrimaryFacts DEF Base
<1>2. Known(G1, H1, q)
  BY <1>1, DataKnown
<1>3. q \in Subgraphs(G1, H1)
  BY <1>2, KnownTyped
<1> QED BY <1>1, <1>2, <1>3, KnownReplaced DEF Settles

(* What clients are told is a list of delegates.                           *)
LEMMA AskedTyped ==
    ASSUME NEW a \in DelegateLists, NEW st, NEW d \in Delegates
    PROVE  AskedAfter(a, st, d) \in DelegateLists
<1>1. <<>> \in DelegateLists /\ Append(a, d) \in DelegateLists
  BY AppendProperties DEF DelegateLists
<1> QED BY <1>1 DEF AskedAfter

-----------------------------------------------------------------------------
(* The operations of the client, by what they do.                          *)
LEMMA ModifyGraphEffect ==
    ASSUME Base, NEW d, ModifyGraph(d)
    PROVE  /\ d \in Delegates /\ d \in model.delegates
           /\ \E r : /\ ModifiedAll(sgs, d, r) /\ sgs' = r.sgs
                     /\ asked' = AskedAfter(asked, r.status, d)
                     /\ last' = [op |-> "ModifyGraphWithDelegate", status |-> r.status]
<1>1. d \in model.delegates /\ model.delegates \subseteq Delegates
  BY ModelFacts DEF Base, ModifyGraph
<1>2. PICK r \in ModifyAll(sgs, d) : /\ sgs' = r.sgs
                                     /\ asked' = AskedAfter(asked, r.status, d)
                                     /\ last' = [op |-> "ModifyGraphWithDelegate", status |-> r.status]
  BY DEF ModifyGraph, Returns
<1>3. ModifiedAll(sgs, d, r)
  BY <1>1, <1>2, ModifyAllFacts DEF Base
<1> QED BY <1>1, <1>2, <1>3

(* AllocateTensors: its effect, with the lazy delegates.                   *)
LEMMA AllocateAllEffect ==
    ASSUME Base, AllocateAll, NEW J, LeadsOn(J), <<sgs, asked>> \in J,
           \A x \in J : AllKnown(x[1])
    PROVE  \E r, o : /\ Tried(J, r) /\ AllKnown(r.sgs) /\ lazy' = r.lazy
                     /\ IF r.status = "ok" THEN Allocated(G1, H1, r.sgs[1], o)
                                           ELSE o.status = r.status /\ o.sg = r.sgs[1]
                     /\ Known(G1, H1, o.sg) /\ AllKnown(sgs')
                     /\ sgs' = [r.sgs EXCEPT ![1] = o.sg] /\ sgs'[1] = o.sg
                     /\ \A i \in DOMAIN graphs : i # 1 => sgs'[i] = r.sgs[i]
                     /\ pc' = IF o.status = "crash" THEN "crashed" ELSE "idle"
                     /\ asked' = IF o.status = "delegate_error" THEN <<>> ELSE r.asked
                     /\ last' = [op |-> "AllocateTensors", status |-> o.status]
<1>1. PICK r \in TryLazy(sgs) :
            /\ lazy' = r.lazy
            /\ \E o \in IF r.status = "ok" THEN AllocateTensors(G1, r.sgs[1])
                                          ELSE {Outcome(r.status, r.sgs[1])} :
                /\ sgs' = [r.sgs EXCEPT ![1] = o.sg]
                /\ pc' = IF o.status = "crash" THEN "crashed" ELSE "idle"
                /\ asked' = IF o.status = "delegate_error" THEN <<>> ELSE r.asked
                /\ last' = [op |-> "AllocateTensors", status |-> o.status]
  BY DEF AllocateAll, Returns
<1>2. PICK o \in IF r.status = "ok" THEN AllocateTensors(G1, r.sgs[1])
                                   ELSE {Outcome(r.status, r.sgs[1])} :
                /\ sgs' = [r.sgs EXCEPT ![1] = o.sg]
                /\ pc' = IF o.status = "crash" THEN "crashed" ELSE "idle"
                /\ asked' = IF o.status = "delegate_error" THEN <<>> ELSE r.asked
                /\ last' = [op |-> "AllocateTensors", status |-> o.status]
  BY <1>1
<1>3. Tried(J, r)
  BY <1>1, TryLazyFacts DEF Base
<1>4. AllKnown(r.sgs)
  <2> DEFINE x == <<r.sgs, r.asked>>
  <2>1. x \in J /\ x[1] = r.sgs
    BY <1>3 DEF Tried
  <2> HIDE DEF x
  <2> QED BY <2>1
<1>5. IsGraph(G1) /\ G1 = graphs[1] /\ HandlesOf(1) = H1 /\ 1 \in DOMAIN graphs /\ model \in Models
  BY PrimaryFacts, ModelFacts DEF Base
<1>6. Known(G1, H1, r.sgs[1])
  BY <1>4, <1>5 DEF AllKnown
<1>7. IF r.status = "ok" THEN Allocated(G1, H1, r.sgs[1], o) ELSE o.status = r.status /\ o.sg = r.sgs[1]
  <2>1. CASE r.status = "ok"
    BY <1>2, <1>5, <1>6, <2>1, AllocateTensorsFacts
  <2>2. CASE r.status # "ok"
    BY <1>2, <2>2 DEF Outcome
  <2> QED BY <2>1, <2>2
<1>8. Known(G1, H1, o.sg)
  BY <1>6, <1>7 DEF Allocated
<1> DEFINE xs == [r.sgs EXCEPT ![1] = o.sg]
<1>9. AllKnown(xs) /\ xs[1] = o.sg /\ \A i \in DOMAIN graphs : i # 1 => xs[i] = r.sgs[i]
  BY <1>4, <1>5, <1>8, KnownReplaced
<1>10. sgs' = xs
  BY <1>2
<1> HIDE DEF xs
<1>11. AllKnown(sgs') /\ sgs'[1] = o.sg /\ \A i \in DOMAIN graphs : i # 1 => sgs'[i] = r.sgs[i]
  BY <1>9, <1>10
<1> QED BY <1>1, <1>2, <1>3, <1>4, <1>7, <1>8, <1>11

(* The subgraphs and what clients may have been told of, at any time.      *)
Anything == {x \in SubgraphLists \X DelegateLists : AllKnown(x[1])}

(* Delegates are applied without leaving what is known.                    *)
LEMMA AnythingLeadsOn ==
    ASSUME Base
    PROVE  LeadsOn(Anything) /\ <<sgs, asked>> \in Anything
<1>1. <<sgs, asked>> \in Anything
  BY DEF Base, Anything, AllKnown
<1>2. ASSUME NEW x \in Anything, NEW d \in Elements(lazy) \ {NoDelegate}, NEW q \in ModifyAll(x[1], d)
      PROVE  <<q.sgs, AskedAfter(x[2], q.status, d)>> \in Anything
  <2>1. AllKnown(x[1]) /\ x[2] \in DelegateLists /\ model \in Models /\ lazy \in Waiting
    BY DEF Anything, Base
  <2>2. d \in Delegates
    BY <2>1, ElementOfSeq DEF Waiting, Elements
  <2>3. AllKnown(q.sgs)
    BY <2>1, <2>2, ModifyAllFacts DEF ModifiedAll
  <2>4. AskedAfter(x[2], q.status, d) \in DelegateLists
    BY <2>1, <2>2, AskedTyped
  <2> DEFINE told == AskedAfter(x[2], q.status, d)
  <2> HIDE DEF told
  <2>5. <<q.sgs, told>> \in SubgraphLists \X DelegateLists /\ <<q.sgs, told>>[1] = q.sgs
    BY <2>3, <2>4 DEF AllKnown, told
  <2>6. <<q.sgs, told>> \in Anything
    BY <2>3, <2>5 DEF Anything
  <2> QED BY <2>6 DEF told
<1> QED BY <1>1, <1>2 DEF LeadsOn

(* ResizeInputTensor: its effect.                                          *)
LEMMA ResizeInputEffect ==
    ASSUME Base, ResizeInput
    PROVE  \E q : /\ Known(G1, H1, q) /\ AllKnown(sgs') /\ sgs' = [sgs EXCEPT ![1] = q] /\ sgs'[1] = q
                  /\ \A i \in DOMAIN graphs : i # 1 => sgs'[i] = sgs[i]
                  /\ q.applied = Primary.applied /\ q.planner = Primary.planner
                  /\ Planned(Primary) \/ Primary.undone => Planned(q) \/ q.undone
                  /\ q.state = "uninvokable"
                  /\ last' = [op |-> "ResizeInputTensor", status |-> "ok"]
<1> DEFINE r == ResizeInputTensor(G1, Primary)
           q == r.sg
<1>1. /\ IsGraph(G1) /\ G1 = graphs[1] /\ HandlesOf(1) = H1 /\ Known(G1, H1, Primary)
      /\ model \in Models /\ AllKnown(sgs)
  BY PrimaryFacts DEF Base
<1>2. /\ r.status = "ok" /\ Known(G1, H1, q)
      /\ q.applied = Primary.applied /\ q.planner = Primary.planner
      /\ Planned(Primary) \/ Primary.undone => Planned(q) \/ q.undone
      /\ q.state = "uninvokable"
  BY <1>1, ResizeFacts
<1>3. sgs' = [sgs EXCEPT ![1] = q] /\ last' = [op |-> "ResizeInputTensor", status |-> r.status]
  BY DEF ResizeInput, Returns
<1> HIDE DEF r, q
<1>4. /\ AllKnown([sgs EXCEPT ![1] = q]) /\ [sgs EXCEPT ![1] = q][1] = q
      /\ \A i \in DOMAIN graphs : i # 1 => [sgs EXCEPT ![1] = q][i] = sgs[i]
  BY <1>1, <1>2, KnownReplaced
<1> QED BY <1>2, <1>3, <1>4

(* SetBufferHandle and the start of Invoke change values only.             *)
ValuesChange(q) ==
    /\ Settles(G1, H1, Primary, q) /\ Known(G1, H1, q) /\ AllKnown(sgs')
    /\ sgs' = [sgs EXCEPT ![1] = q] /\ sgs'[1] = q
    /\ \A i \in DOMAIN graphs : i # 1 => sgs'[i] = sgs[i]

(* A call that settles tensors of the primary subgraph only.               *)
LEMMA ValuesEffect ==
    ASSUME Base, NEW q, Settles(G1, H1, Primary, q), sgs' = [sgs EXCEPT ![1] = q]
    PROVE  ValuesChange(q)
<1> DEFINE xs == [sgs EXCEPT ![1] = q]
<1>1. Known(G1, H1, q) /\ AllKnown(xs) /\ xs[1] = q /\ \A i \in DOMAIN graphs : i # 1 => xs[i] = sgs[i]
  BY PrimarySettles
<1> HIDE DEF xs
<1>2. sgs' = xs
  BY DEF xs
<1> QED BY <1>1, <1>2 DEF ValuesChange

(* SetBufferHandle: its effect.                                            *)
LEMMA SetBufferHandleEffect ==
    ASSUME Base, NEW t \in model.handles, SetBufferHandle(t)
    PROVE  /\ ValuesChange([Primary EXCEPT !.handle = @ \cup {t}])
           /\ last' = [op |-> "SetBufferHandle", status |-> "ok"]
<1> DEFINE q == [Primary EXCEPT !.handle = @ \cup {t}]
<1>1. Primary \in Subgraphs(G1, H1)
  BY PrimaryFacts
<1>2. Primary.handle \cup {t} \in HandleSets(H1) /\ Primary.fresh \in TensorSets(G1)
  BY <1>1 DEF Subgraphs, HandleSets, H1
<1>3. Settles(G1, H1, Primary, q)
  BY <1>1, <1>2, NewValues
<1>4. sgs' = [sgs EXCEPT ![1] = q]
  BY DEF SetBufferHandle, Primary
<1> HIDE DEF q
<1>5. ValuesChange(q)
  BY <1>3, <1>4, ValuesEffect
<1> QED BY <1>5 DEF q, SetBufferHandle, Returns

(* Invoke is called: its effect.                                           *)
LEMMA BeginInvokeEffect ==
    ASSUME Base, NEW which, BeginInvoke(which)
    PROVE  /\ Primary.state # "uninvokable"
           /\ ValuesChange([Primary EXCEPT !.fresh = G1.in, !.buffered = {}])
<1> DEFINE q == [Primary EXCEPT !.fresh = G1.in, !.buffered = {}]
<1>1. Primary \in Subgraphs(G1, H1) /\ IsGraph(G1)
  BY PrimaryFacts
<1>2. {} \in HandleSets(H1) /\ G1.in \in TensorSets(G1)
  BY <1>1, GraphFacts DEF HandleSets, TensorSets
<1>3. Settles(G1, H1, Primary, q)
  BY <1>1, <1>2, NewValues
<1>4. sgs' = [sgs EXCEPT ![1] = q]
  BY DEF BeginInvoke, Primary
<1> HIDE DEF q
<1>5. ValuesChange(q)
  BY <1>3, <1>4, ValuesEffect
<1> QED BY <1>5 DEF q, BeginInvoke

-----------------------------------------------------------------------------
(* The steps of Invoke: it goes on with the primary subgraph q, or ends.   *)
LEMMA InvokePrepareEffect ==
    ASSUME Base, InvokePrepare
    PROVE  \E q : /\ Settles(G1, H1, Primary, q) /\ Known(G1, H1, q)
                  /\ SameNodes(Primary, q) /\ q.fresh = Primary.fresh
                  /\ \/ /\ ValuesChange(q) /\ pc' = "run" /\ UNCHANGED <<call, index, last, asked>>
                        /\ Underway(G1, q, index) /\ (Regular(G1) => index < q.next_to_prepare)
                     \/ EndInvoke(q, "error") /\ Faulty(G1, Primary)
<1>1. PICK r \in IF index = Primary.next_to_prepare THEN PrepareOpsAndTensors(G1, Primary)
                                                   ELSE {Outcome("ok", Primary)} :
        IF r.status = "ok" THEN /\ sgs' = [sgs EXCEPT ![1] = r.sg]
                                /\ pc' = "run"
                                /\ UNCHANGED <<call, index, last, asked>>
                           ELSE EndInvoke(r.sg, r.status)
  BY DEF InvokePrepare
<1>2. /\ IsGraph(G1) /\ H1 \subseteq GraphTensors(G1) /\ Known(G1, H1, Primary)
      /\ Primary \in Subgraphs(G1, H1)
  BY PrimaryFacts
<1>3. pc = "invoke" /\ index <= Len(Primary.plan)
  BY DEF InvokePrepare
<1>4. Primary.state # "uninvokable" /\ index \in 1 .. Len(Primary.plan) + 1 /\ Len(Primary.plan) \in Nat
      /\ Underway(G1, Primary, index)
  BY <1>3, PrimaryFacts DEF Base, Busy
<1>5. /\ r.status \in {"ok", "error"} /\ Settles(G1, H1, Primary, r.sg)
      /\ r.status = "error" => Faulty(G1, Primary)
      /\ SameNodes(Primary, r.sg) /\ r.sg.fresh = Primary.fresh
      /\ r.status = "ok" => Underway(G1, r.sg, index) /\ (Regular(G1) => index < r.sg.next_to_prepare)
  <2>1. CASE index = Primary.next_to_prepare
    <3>1. Primary.next_to_prepare \in 1 .. Len(Primary.plan)
      BY <1>3, <1>4, <2>1
    <3>2. r \in PrepareOpsAndTensors(G1, Primary)
      BY <1>1, <2>1
    <3> QED BY <1>2, <1>4, <2>1, <3>1, <3>2, PrepareInvokeFacts
  <2>2. CASE index # Primary.next_to_prepare
    <3>1. r.status = "ok" /\ r.sg = Primary
      BY <1>1, <2>2 DEF Outcome
    <3>2. Settles(G1, H1, Primary, Primary) /\ SameNodes(Primary, Primary)
      BY <1>2, ValuesSettle DEF SamePlans, SameShapes, SameNodes
    <3>3. Regular(G1) => index < Primary.next_to_prepare
      <4>1. Primary.next_to_prepare \in Nat /\ index \in Nat
        BY <1>2, <1>4, SoundFacts DEF Known, Sound
      <4> QED BY <1>4, <2>2, <4>1 DEF Underway
    <3> QED BY <1>4, <3>1, <3>2, <3>3
  <2> QED BY <2>1, <2>2
<1>6. Known(G1, H1, r.sg)
  BY <1>2, <1>5, DataKnown
<1> DEFINE q == r.sg
<1>7. CASE r.status = "ok"
  <2>1. ValuesChange(q) /\ pc' = "run" /\ UNCHANGED <<call, index, last, asked>>
        /\ Underway(G1, q, index) /\ (Regular(G1) => index < q.next_to_prepare)
    BY <1>1, <1>5, <1>7, ValuesEffect
  <2> QED BY <1>5, <1>6, <2>1
<1>8. CASE r.status = "error"
  <2>1. EndInvoke(q, "error") /\ Faulty(G1, Primary)
    BY <1>1, <1>5, <1>8
  <2> QED BY <1>5, <1>6, <2>1
<1> QED BY <1>5, <1>7, <1>8

(* The node that runs, and the subgraph when its inputs are there.         *)
CurrentNode == Primary.nodes[Primary.plan[index]]
Fetched     == FetchInputs(Primary, Primary.plan[index])
FailedNode  == [Fetched.sg EXCEPT !.fresh = @ \ CurrentNode.outputs]
RanNode(resized) == ResizedOutputs(G1, RunNode(Fetched.sg, Primary.plan[index]), index, resized)

(* One node of Invoke: its effect.                                         *)
LEMMA InvokeNodeEffect ==
    ASSUME Base, InvokeNode
    PROVE  /\ Settles(G1, H1, Primary, Fetched.sg) /\ Known(G1, H1, Fetched.sg)
           /\ Settles(G1, H1, Primary, FailedNode) /\ Known(G1, H1, FailedNode)
           /\ \/ EndInvoke(Fetched.sg, "error")
              \/ EndInvoke(FailedNode, "error")
              \/ /\ Fetched.status = "ok" /\ pc' = "invoke" /\ index' = index + 1
                 /\ UNCHANGED <<call, last, asked>>
                 /\ \E resized \in BOOLEAN : /\ Settles(G1, H1, Primary, RanNode(resized))
                                             /\ ValuesChange(RanNode(resized))
                                             /\ Underway(G1, RanNode(resized), index + 1)
<1>1. /\ IsGraph(G1) /\ H1 \subseteq GraphTensors(G1) /\ Known(G1, H1, Primary)
      /\ Primary \in Subgraphs(G1, H1)
      /\ \A k \in 1 .. Len(Primary.plan) : Primary.plan[k] \in 1 .. Len(Primary.nodes)
      /\ Len(Primary.plan) \in Nat
  BY PrimaryFacts
<1>2. /\ pc = "run" /\ index \in 1 .. Len(Primary.plan) /\ Primary.state # "uninvokable"
      /\ Underway(G1, Primary, index) /\ (Regular(G1) => index < Primary.next_to_prepare)
  BY <1>1 DEF InvokeNode, Base, Busy
<1> DEFINE n == Primary.plan[index]
           s == Fetched.sg
<1>3. Settles(G1, H1, Primary, s) /\ SameShapes(Primary, s)
  BY <1>1, FetchInputsFacts DEF Fetched
<1>4. Known(G1, H1, s) /\ s \in Subgraphs(G1, H1)
  BY <1>1, <1>3, DataKnown, KnownTyped
<1>5. s.nodes = Primary.nodes /\ s.plan = Primary.plan
  BY <1>3 DEF Settles, SamePlans
<1>6. Settles(G1, H1, Primary, FailedNode) /\ Known(G1, H1, FailedNode)
  <2> DEFINE ts == s.fresh \ CurrentNode.outputs
  <2>1. ts \in TensorSets(G1) /\ {} \in HandleSets(H1)
    BY <1>4 DEF Subgraphs, TensorSets, HandleSets
  <2>2. FailedNode = [s EXCEPT !.fresh = ts]
    BY DEF FailedNode
  <2> HIDE DEF ts, s
  <2>3. Settles(G1, H1, s, FailedNode)
    BY <1>4, <2>1, <2>2, NewValues
  <2>4. Settles(G1, H1, Primary, FailedNode)
    BY <1>3, <2>3, SettlesTwice
  <2> QED BY <1>1, <2>4, DataKnown
<1> DEFINE Sizes == IF HasDynamicOutputs(G1, s, n) THEN BOOLEAN ELSE {FALSE}
<1>7. ASSUME NEW resized \in Sizes
      PROVE  Settles(G1, H1, Primary, RanNode(resized)) /\ Underway(G1, RanNode(resized), index + 1)
  <2> DEFINE z == RunNode(s, n)
  <2>1. Settles(G1, H1, s, z) /\ SameShapes(s, z)
    BY <1>1, <1>2, <1>4, <1>5, RunNodeFacts
  <2>2. z.nodes = Primary.nodes /\ z.plan = Primary.plan /\ z.state = Primary.state
    BY <1>3, <2>1 DEF Settles, SamePlans
  <2>3. RanNode(resized) = ResizedOutputs(G1, z, index, resized)
    BY DEF RanNode
  <2> HIDE DEF z, s
  <2>4. Known(G1, H1, z)
    BY <1>1, <1>4, <2>1, DataKnown
  <2>5. Underway(G1, z, index) /\ (Regular(G1) => index < z.next_to_prepare)
    BY <1>2, <1>3, <2>1, <2>2 DEF Underway, SameShapes
  <2>6. resized \in IF HasDynamicOutputs(G1, z, z.plan[index]) THEN BOOLEAN ELSE {FALSE}
    BY <1>5, <2>2 DEF HasDynamicOutputs
  <2>7. Settles(G1, H1, z, RanNode(resized)) /\ Underway(G1, RanNode(resized), index + 1)
    <3>1. index \in 1 .. Len(z.plan) /\ z.state # "uninvokable" /\ IsGraph(G1)
      BY <1>1, <1>2, <2>2
    <3>2. /\ Settles(G1, H1, z, ResizedOutputs(G1, z, index, resized))
          /\ Underway(G1, ResizedOutputs(G1, z, index, resized), index + 1)
      BY <2>4, <2>5, <2>6, <3>1, ResizedFacts
    <3> QED BY <2>3, <3>2
  <2> QED BY <1>3, <2>1, <2>7, SettlesTwice
<1>8. \/ EndInvoke(Fetched.sg, "error")
      \/ EndInvoke(FailedNode, "error")
      \/ /\ Fetched.status = "ok" /\ pc' = "invoke" /\ index' = index + 1
         /\ UNCHANGED <<call, last, asked>>
         /\ \E resized \in Sizes : sgs' = [sgs EXCEPT ![1] = RanNode(resized)]
  <2>1. \/ EndInvoke(Fetched.sg, "error")
        \/ EndInvoke([Fetched.sg EXCEPT !.fresh = @ \ Primary.nodes[Primary.plan[index]].outputs], "error")
        \/ /\ Fetched.status = "ok"
           /\ \E resized \in IF HasDynamicOutputs(G1, Fetched.sg, Primary.plan[index]) THEN BOOLEAN ELSE {FALSE} :
                  sgs' = [sgs EXCEPT ![1] = ResizedOutputs(G1, RunNode(Fetched.sg, Primary.plan[index]), index, resized)]
           /\ pc' = "invoke" /\ index' = index + 1
           /\ UNCHANGED <<call, last, asked>>
    BY DEF InvokeNode, Fetched
  <2>2. FailedNode = [Fetched.sg EXCEPT !.fresh = @ \ Primary.nodes[Primary.plan[index]].outputs]
    BY DEF FailedNode, CurrentNode
  <2>3. \A resized : RanNode(resized) = ResizedOutputs(G1, RunNode(Fetched.sg, Primary.plan[index]), index, resized)
    BY DEF RanNode
  <2> QED BY <2>1, <2>2, <2>3
<1>9. ASSUME NEW resized \in Sizes, sgs' = [sgs EXCEPT ![1] = RanNode(resized)]
      PROVE  ValuesChange(RanNode(resized))
  BY <1>7, <1>9, ValuesEffect
<1>10. Sizes \subseteq BOOLEAN
  OBVIOUS
<1> HIDE DEF Sizes
<1> QED BY <1>3, <1>4, <1>6, <1>7, <1>8, <1>9, <1>10

(* The end of the plan in Invoke: its effect.                              *)
LEMMA InvokeFinishEffect ==
    ASSUME Base, InvokeFinish
    PROVE  /\ EnsureReadable(Primary, G1.out).status \in {"ok", "error"}
           /\ Settles(G1, H1, Primary, EnsureReadable(Primary, G1.out).sg)
           /\ Known(G1, H1, EnsureReadable(Primary, G1.out).sg)
           /\ EndInvoke(EnsureReadable(Primary, G1.out).sg, EnsureReadable(Primary, G1.out).status)
<1>1. /\ IsGraph(G1) /\ H1 \subseteq GraphTensors(G1) /\ Known(G1, H1, Primary)
      /\ Primary \in Subgraphs(G1, H1)
  BY PrimaryFacts
<1> DEFINE r == EnsureReadable(Primary, G1.out)
<1>2. r.status \in {"ok", "error"} /\ Settles(G1, H1, Primary, r.sg)
  BY <1>1, EnsureReadableFacts
<1>3. EndInvoke(r.sg, r.status)
  BY DEF InvokeFinish
<1> HIDE DEF r
<1>4. Known(G1, H1, r.sg)
  BY <1>1, <1>2, DataKnown
<1> QED BY <1>2, <1>3, <1>4 DEF r

-----------------------------------------------------------------------------
(* Every step keeps what is always true.                                   *)
LEMMA BaseNext ==
    ASSUME Base, [Next]_vars
    PROVE  Base'
<1>1. /\ model \in Models /\ AllKnown(sgs) /\ asked \in DelegateLists /\ lazy \in Waiting
      /\ ~Busy => index = 1
  BY DEF Base
<1>2. ASSUME NEW d, ModifyGraph(d) PROVE Base'
  <2>1. PICK r : /\ ModifiedAll(sgs, d, r) /\ sgs' = r.sgs
                 /\ asked' = AskedAfter(asked, r.status, d) /\ d \in Delegates
    BY <1>2, ModifyGraphEffect
  <2>2. AllKnown(sgs') /\ asked' \in DelegateLists
    BY <1>1, <2>1, AskedTyped DEF ModifiedAll
  <2>3. model' = model /\ pc = "idle" /\ pc' = pc /\ index' = index /\ lazy' = lazy
    BY <1>2 DEF ModifyGraph
  <2>4. index' = 1
    BY <1>1, <2>3 DEF Busy
  <2> QED BY <1>1, <2>2, <2>3, <2>4, BaseIdle
<1>3. CASE AllocateAll
  <2>1. LeadsOn(Anything) /\ <<sgs, asked>> \in Anything /\ \A x \in Anything : AllKnown(x[1])
    BY AnythingLeadsOn DEF Anything
  <2>2. PICK r, o : /\ Tried(Anything, r) /\ lazy' = r.lazy /\ AllKnown(sgs')
                    /\ pc' = IF o.status = "crash" THEN "crashed" ELSE "idle"
                    /\ asked' = IF o.status = "delegate_error" THEN <<>> ELSE r.asked
    BY <1>3, <2>1, AllocateAllEffect
  <2>3. lazy' \in Waiting /\ asked' \in DelegateLists
    <3>1. r.lazy \in Waiting /\ <<r.sgs, r.asked>> \in Anything
      BY <2>2 DEF Tried
    <3>2. r.asked \in DelegateLists
      BY <3>1 DEF Anything
    <3>3. <<>> \in DelegateLists
      BY DEF DelegateLists
    <3> QED BY <2>2, <3>1, <3>2, <3>3
  <2>4. model' = model /\ pc = "idle" /\ index' = index
    BY <1>3 DEF AllocateAll
  <2>5. index' = 1 /\ pc' \in {"idle", "crashed"}
    BY <1>1, <2>2, <2>4 DEF Busy
  <2> QED BY <1>1, <2>2, <2>3, <2>4, <2>5, BaseIdle
<1>4. CASE ResizeInput
  <2>1. AllKnown(sgs')
    BY <1>4, ResizeInputEffect
  <2>2. model' = model /\ pc = "idle" /\ pc' = pc /\ index' = index /\ lazy' = lazy /\ asked' = asked
    BY <1>4 DEF ResizeInput
  <2>3. index' = 1
    BY <1>1, <2>2 DEF Busy
  <2> QED BY <1>1, <2>1, <2>2, <2>3, BaseIdle
<1>5. ASSUME NEW t \in model.handles, SetBufferHandle(t) PROVE Base'
  <2>1. AllKnown(sgs')
    BY <1>5, SetBufferHandleEffect DEF ValuesChange
  <2>2. model' = model /\ pc = "idle" /\ pc' = pc /\ index' = index /\ lazy' = lazy /\ asked' = asked
    BY <1>5 DEF SetBufferHandle
  <2>3. index' = 1
    BY <1>1, <2>2 DEF Busy
  <2> QED BY <1>1, <2>1, <2>2, <2>3, BaseIdle
<1>6. CASE Cancel
  BY <1>6 DEF Cancel, Base, Busy, Primary, AllKnown, SubgraphLists, AnySubgraph, HandlesOf, graphs, G1
<1>7. ASSUME NEW which \in {"Invoke", "InvokeWithCPUFallback"}, BeginInvoke(which) PROVE Base'
  <2> DEFINE q == [Primary EXCEPT !.fresh = G1.in, !.buffered = {}]
  <2>1. Primary.state # "uninvokable" /\ ValuesChange(q)
    BY <1>7, BeginInvokeEffect
  <2> HIDE DEF q
  <2>2. AllKnown(sgs') /\ sgs'[1] = q /\ q.plan = Primary.plan /\ q.state = Primary.state
    BY <2>1 DEF ValuesChange, Settles, SamePlans
  <2>3. Len(Primary.plan) \in Nat
    BY PrimaryFacts
  <2>4. /\ model' = model /\ lazy' = lazy /\ asked' = asked
        /\ pc' = "invoke" /\ call' = which /\ index' = 1
    BY <1>7 DEF BeginInvoke
  <2>5. index' \in 1 .. Len(sgs'[1].plan) + 1
    BY <2>2, <2>3, <2>4
  <2>6. Underway(G1, sgs'[1], index')
    BY <2>1, <2>2, <2>4, UnderwayFirst DEF ValuesChange
  <2> QED BY <1>1, <2>1, <2>2, <2>4, <2>5, <2>6, BaseBusy
<1>8. CASE InvokeRefused
  BY <1>8 DEF InvokeRefused, Base, Busy, Primary, AllKnown, SubgraphLists, AnySubgraph, HandlesOf, graphs, G1
<1>9. CASE InvokePrepare
  <2>1. PICK q : /\ Settles(G1, H1, Primary, q) /\ Known(G1, H1, q)
                 /\ \/ /\ ValuesChange(q) /\ pc' = "run" /\ UNCHANGED <<call, index, last, asked>>
                       /\ Underway(G1, q, index) /\ (Regular(G1) => index < q.next_to_prepare)
                    \/ EndInvoke(q, "error")
    BY <1>9, InvokePrepareEffect
  <2>2. model' = model /\ lazy' = lazy /\ pc = "invoke" /\ index <= Len(Primary.plan)
    BY <1>9 DEF InvokePrepare
  <2>3. /\ Busy /\ call \in {"Invoke", "InvokeWithCPUFallback", "retry"}
        /\ Primary.state # "uninvokable" /\ index \in 1 .. Len(Primary.plan) + 1
    BY <2>2 DEF Base, Busy
  <2>4. CASE EndInvoke(q, "error")
    BY <2>1, <2>2, <2>3, <2>4, EndInvokeBase
  <2>5. CASE /\ ValuesChange(q) /\ pc' = "run" /\ UNCHANGED <<call, index, last, asked>>
             /\ Underway(G1, q, index) /\ (Regular(G1) => index < q.next_to_prepare)
    <3>1. AllKnown(sgs') /\ sgs'[1] = q /\ q.plan = Primary.plan /\ q.state = Primary.state
      BY <2>5 DEF ValuesChange, Settles, SamePlans
    <3> QED BY <1>1, <2>2, <2>3, <2>5, <3>1, BaseBusy
  <2> QED BY <2>1, <2>4, <2>5
<1>10. CASE InvokeNode
  <2>1. /\ Known(G1, H1, Fetched.sg) /\ Known(G1, H1, FailedNode)
        /\ \/ EndInvoke(Fetched.sg, "error")
           \/ EndInvoke(FailedNode, "error")
           \/ /\ pc' = "invoke" /\ index' = index + 1
              /\ UNCHANGED <<call, last, asked>>
              /\ \E resized \in BOOLEAN :
                    ValuesChange(RanNode(resized)) /\ Underway(G1, RanNode(resized), index + 1)
    BY <1>10, InvokeNodeEffect
  <2>2. model' = model /\ lazy' = lazy /\ pc = "run"
    BY <1>10 DEF InvokeNode
  <2>3. /\ Busy /\ call \in {"Invoke", "InvokeWithCPUFallback", "retry"}
        /\ Primary.state # "uninvokable" /\ index \in 1 .. Len(Primary.plan)
    BY <2>2, PrimaryFacts DEF Base, Busy
  <2>4. CASE EndInvoke(Fetched.sg, "error")
    BY <2>1, <2>2, <2>3, <2>4, EndInvokeBase
  <2>5. CASE EndInvoke(FailedNode, "error")
    BY <2>1, <2>2, <2>3, <2>5, EndInvokeBase
  <2>6. ASSUME NEW q, ValuesChange(q), Underway(G1, q, index + 1), pc' = "invoke", index' = index + 1,
               UNCHANGED <<call, last, asked>>
        PROVE  Base'
    <3>1. AllKnown(sgs') /\ sgs'[1] = q /\ q.plan = Primary.plan /\ q.state = Primary.state
      BY <2>6 DEF ValuesChange, Settles, SamePlans
    <3>2. index' \in 1 .. Len(sgs'[1].plan) + 1
      BY <2>3, <2>6, <3>1, PrimaryFacts
    <3> QED BY <1>1, <2>2, <2>3, <2>6, <3>1, <3>2, BaseBusy
  <2> QED BY <2>1, <2>4, <2>5, <2>6
<1>11. CASE InvokeFinish
  <2> DEFINE r == EnsureReadable(Primary, G1.out)
  <2>1. r.status \in {"ok", "error"} /\ Known(G1, H1, r.sg) /\ EndInvoke(r.sg, r.status)
    BY <1>11, InvokeFinishEffect
  <2>2. model' = model /\ lazy' = lazy /\ Busy
    BY <1>11 DEF InvokeFinish, Busy
  <2> HIDE DEF r
  <2> QED BY <2>1, <2>2, EndInvokeBase
<1>12. CASE UNCHANGED vars
  BY <1>12 DEF vars, Base, Busy, Primary, AllKnown, SubgraphLists, AnySubgraph, HandlesOf, graphs, G1
<1>13. CASE Next
  <2>1. \A which : which \in {"Invoke"} \cup (IF model.fallback THEN {"InvokeWithCPUFallback"} ELSE {})
            => which \in {"Invoke", "InvokeWithCPUFallback"}
    OBVIOUS
  <2> QED BY <1>2, <1>3, <1>4, <1>5, <1>6, <1>7, <1>8, <1>9, <1>10, <1>11, <1>13, <2>1 DEF Next, InvokeStep
<1> QED BY <1>12, <1>13

(* Base holds in every state of the program.                               *)
LEMMA BaseAlways == Spec => []Base
<1>1. Init => Base
  BY BaseInit
<1>2. Base /\ [Next]_vars => Base'
  BY BaseNext
<1> QED BY <1>1, <1>2, PTL DEF Spec

(* The types of the program follow.                                        *)
LEMMA BaseTyped ==
    ASSUME Base
    PROVE  TypeOK
<1>1. ASSUME NEW i \in DOMAIN graphs PROVE SubgraphType(graphs[i], sgs[i])
  <2> DEFINE g == graphs[i]
             h == HandlesOf(i)
             s == sgs[i]
  <2>1. IsGraph(g) /\ Known(g, h, s) /\ h \subseteq GraphTensors(g)
    <3>1. IsGraph(g) /\ Known(g, h, s)
      BY ModelFacts DEF Base, AllKnown
    <3>2. h \subseteq GraphTensors(g)
      BY ModelFacts DEF Base, HandlesOf, G1
    <3> QED BY <3>1, <3>2
  <2> HIDE DEF g, h, s
  <2>2. Sound(g, h, s) /\ s \in Subgraphs(g, h)
    BY <2>1 DEF Known, Sound
  <2>3. /\ NumOriginal(g) \in Nat \ {0} /\ Len(Orig(g)) = NumOriginal(g)
        /\ \A n \in 1 .. NumOriginal(g) : Orig(g)[n] = n
        /\ DOMAIN s.nodes = 1 .. Len(s.nodes) /\ NumOriginal(g) <= Len(s.nodes) /\ Len(s.nodes) \in Nat
        /\ Len(<<>>) = 0
    BY <2>1, <2>2, GraphFacts, LenProperties DEF Sound, GoodNodes, NodeLists
  <2>4. Elements(s.plan) \cup Elements(s.pre_plan) \subseteq DOMAIN s.nodes
    <3>1. \A k \in 1 .. Len(s.plan) : s.plan[k] \in 1 .. Len(s.nodes)
      BY <2>2 DEF Sound, GoodPlan, WellPlaced
    <3>2. \A k \in 1 .. Len(s.pre_plan) : s.pre_plan[k] \in 1 .. Len(s.nodes)
      BY <2>2, <2>3 DEF Sound
    <3> QED BY <2>3, <3>1, <3>2 DEF Elements
  <2>5. Elements(s.applied) \subseteq Delegates
    BY <2>2, ElementOfSeq DEF Subgraphs, DelegateLists, Elements
  <2>6. s.state \in {"uninvokable", "invokable", "immutable"}
    BY <2>2 DEF Subgraphs, States
  <2>7. s.next_to_prepare \in 1 .. Len(s.nodes) + 1 /\ s.ready \subseteq DOMAIN s.nodes
    BY <2>2, <2>3 DEF Sound
  <2>8. s.delegate \in [GraphTensors(g) -> Delegates \cup {NoDelegate}]
    BY <2>2 DEF Subgraphs, TensorOwners
  <2>9. s.handle \cup s.stale \cup s.fresh \cup s.buffered \cup s.shaped \subseteq GraphTensors(g)
    BY <2>1, <2>2 DEF Subgraphs, TensorSets, HandleSets
  <2> QED BY <2>4, <2>5, <2>6, <2>7, <2>8, <2>9 DEF SubgraphType, g, s
<1>2. index \in 1 .. NumOriginal(G1) + 1
  <2>1. Len(Primary.plan) \in Nat /\ Len(Primary.plan) <= NumOriginal(G1) /\ NumOriginal(G1) \in Nat \ {0}
    BY PrimaryFacts
  <2> QED BY <2>1 DEF Base
<1>3. Elements(asked) \subseteq Delegates
  BY ElementOfSeq DEF Base, DelegateLists, Elements
<1> QED BY <1>1, <1>2, <1>3 DEF TypeOK, Base

(* TypeOK: every call leaves the interpreter, its subgraphs and the list   *)
(* of the lazy delegates in a state of their types.                        *)
THEOREM InterpreterTypeCorrect == Spec => []TypeOK
<1>1. Base => TypeOK
  BY BaseTyped
<1> QED BY <1>1, BaseAlways, PTL

-----------------------------------------------------------------------------
(* Only the primary subgraph is resized, and one that is immutable shows   *)
(* that the primary one has a memory planner.                              *)
PrimaryLeads(ss) ==
    \A i \in DOMAIN graphs \ {1} :
        ~ss[i].undone /\ (ss[i].state = "immutable" => ss[1].planner # <<>>)

(* A delegate that one subgraph after the other is asked to apply.         *)
LEMMA StoppedFacts ==
    ASSUME model \in Models, NEW ss, NEW d, NEW m \in DOMAIN graphs, NEW st, NEW xs, StoppedAt(ss, d, m, st, xs)
    PROVE  /\ \E st1 : ModifiedTo(1, ss[1], d, st1, xs[1])
           /\ m # 1 => ModifiedTo(1, ss[1], d, "ok", xs[1])
           /\ \A i \in DOMAIN graphs \ {1} :
                 xs[i] = ss[i] \/ (m # 1 /\ \E st1 : ModifiedTo(i, ss[i], d, st1, xs[i]))
<1>1. DOMAIN graphs = 1 .. Len(graphs) /\ Len(graphs) \in Nat \ {0}
  BY ModelFacts
<1>2. /\ ModifiedTo(m, ss[m], d, st, xs[m])
      /\ \A i \in 1 .. m - 1 : ModifiedTo(i, ss[i], d, "ok", xs[i])
      /\ \A i \in m + 1 .. Len(graphs) : xs[i] = ss[i]
  BY DEF StoppedAt
<1>3. m # 1 => 1 \in 1 .. m - 1
  BY <1>1
<1>4. ASSUME NEW i \in DOMAIN graphs \ {1}
      PROVE  xs[i] = ss[i] \/ (m # 1 /\ \E st1 : ModifiedTo(i, ss[i], d, st1, xs[i]))
  <2>1. i = m \/ (i \in 1 .. m - 1 /\ m # 1) \/ i \in m + 1 .. Len(graphs)
    BY <1>1
  <2> QED BY <1>2, <2>1
<1> QED BY <1>2, <1>3, <1>4

(* A delegate leaves the primary subgraph at least as far as the others.   *)
LEMMA ModifiedLeads ==
    ASSUME NEW i \in DOMAIN graphs, NEW s, ~s.undone, NEW q, NEW d, NEW st, ModifiedTo(i, s, d, st, q),
           q.state = "immutable", NEW p, s.state = "immutable" => p.planner # <<>>,
           NEW p1, ModifiedTo(1, p, d, "ok", p1)
    PROVE  p1.planner # <<>>
<1>1. PICK o : Modified(graphs[i], HandlesOf(i), s, d, o) /\ q = o.sg
  BY DEF ModifiedTo
<1>2. PICK o1 : Modified(graphs[1], HandlesOf(1), p, d, o1) /\ o1.status = "ok" /\ p1 = o1.sg
  BY DEF ModifiedTo
<1>3. CASE d \in AllowsDynamic
  <2>1. s.state = "immutable"
    BY <1>1, <1>3 DEF Modified
  <2> QED BY <1>2, <2>1 DEF Modified
<1>4. CASE d \notin AllowsDynamic
  <2>1. p1.state = "immutable" /\ Sound(graphs[1], HandlesOf(1), p1)
    BY <1>2, <1>4 DEF Modified, Known
  <2> QED BY <2>1 DEF Sound
<1> QED BY <1>3, <1>4

(* The same for all subgraphs in turn.                                     *)
LEMMA ModifyLeads ==
    ASSUME model \in Models, NEW ss, PrimaryLeads(ss), NEW d, NEW r, ModifiedAll(ss, d, r)
    PROVE  PrimaryLeads(r.sgs) /\ (ss[1].planner # <<>> => r.sgs[1].planner # <<>>)
<1>0. 1 \in DOMAIN graphs
  BY ModelFacts
<1>1. \A i \in DOMAIN graphs \ {1} : ~r.sgs[i].undone
  BY DEF ModifiedAll, PrimaryLeads
<1>2. CASE Restored(graphs[1], r.sgs[1])
  <2>1. r.sgs[1].planner # <<>>
    BY <1>2, RestoredPlanned
  <2> QED BY <1>1, <2>1 DEF PrimaryLeads
<1>3. CASE r.status = "ok"
  <2>1. \A i \in DOMAIN graphs : ModifiedTo(i, ss[i], d, "ok", r.sgs[i])
    BY <1>3 DEF ModifiedAll
  <2>2. ss[1].planner # <<>> => r.sgs[1].planner # <<>>
    BY <1>0, <2>1 DEF ModifiedTo, Modified
  <2>3. ASSUME NEW i \in DOMAIN graphs \ {1}, r.sgs[i].state = "immutable" PROVE r.sgs[1].planner # <<>>
    BY <1>0, <2>1, <2>3, ModifiedLeads DEF PrimaryLeads
  <2> QED BY <1>1, <2>2, <2>3 DEF PrimaryLeads
<1>4. ASSUME NEW m \in DOMAIN graphs, NEW st, StoppedAt(ss, d, m, st, r.sgs)
      PROVE  PrimaryLeads(r.sgs) /\ (ss[1].planner # <<>> => r.sgs[1].planner # <<>>)
  <2>1. /\ \E st1 : ModifiedTo(1, ss[1], d, st1, r.sgs[1])
        /\ m # 1 => ModifiedTo(1, ss[1], d, "ok", r.sgs[1])
        /\ \A i \in DOMAIN graphs \ {1} :
              r.sgs[i] = ss[i] \/ (m # 1 /\ \E st1 : ModifiedTo(i, ss[i], d, st1, r.sgs[i]))
    BY <1>4, StoppedFacts
  <2>2. ss[1].planner # <<>> => r.sgs[1].planner # <<>>
    BY <2>1 DEF ModifiedTo, Modified
  <2>3. ASSUME NEW i \in DOMAIN graphs \ {1}, r.sgs[i].state = "immutable" PROVE r.sgs[1].planner # <<>>
    <3>1. ~ss[i].undone /\ (ss[i].state = "immutable" => ss[1].planner # <<>>)
      BY DEF PrimaryLeads
    <3>2. CASE r.sgs[i] = ss[i]
      BY <2>2, <2>3, <3>1, <3>2
    <3>3. CASE m # 1 /\ \E st1 : ModifiedTo(i, ss[i], d, st1, r.sgs[i])
      BY <2>1, <2>3, <3>1, <3>3, ModifiedLeads
    <3> QED BY <2>1, <3>2, <3>3
  <2> QED BY <1>1, <2>2, <2>3 DEF PrimaryLeads
<1> QED BY <1>2, <1>3, <1>4, <1>0 DEF ModifiedAll

-----------------------------------------------------------------------------
(* What the statuses of ModifyGraphWithDelegate promise.                   *)
Promised(ss, status) ==
    CASE status = "delegate_error"    -> \A i \in DOMAIN graphs : Restored(graphs[i], ss[i]) /\ ss[i].state = "invokable"
      [] status = "application_error" -> ss[1].state # "uninvokable"
      [] status = "ok" -> \A i \in DOMAIN graphs :
            Elements(ss[i].applied) \subseteq AllowsDynamic \/ ss[i].state = "immutable"
      [] OTHER -> TRUE

Promises(ss, l) == l.op = "ModifyGraphWithDelegate" => Promised(ss, l.status)

(* A client that does not apply delegates between ResizeInputTensor and    *)
(* AllocateTensors.                                                        *)
NoneLate == \A m \in Models : ~m.late

StatusInv == Base /\ PrimaryLeads(sgs) /\ Promises(sgs, last)

(* ModifyGraphWithDelegate keeps what the status says.                     *)
LEMMA ModifyPromises ==
    ASSUME NoneLate, Base, PrimaryLeads(sgs), NEW d, ModifyGraph(d)
    PROVE  PrimaryLeads(sgs') /\ Promises(sgs', last')
<1>1. PICK r : /\ ModifiedAll(sgs, d, r) /\ sgs' = r.sgs
               /\ last' = [op |-> "ModifyGraphWithDelegate", status |-> r.status]
  BY ModifyGraphEffect
<1>2. PrimaryLeads(sgs')
  BY <1>1, ModifyLeads DEF Base
<1>3. last'.status = r.status
  BY <1>1
<1>4. 1 \in DOMAIN graphs /\ r.status \in {"ok", "delegate_error", "application_error", "error"}
  BY <1>1, ModelFacts DEF Base, ModifiedAll
<1>5. Promised(r.sgs, r.status)
  <2>1. CASE r.status = "delegate_error"
    <3>1. \A i \in DOMAIN graphs : Restored(graphs[i], r.sgs[i]) /\ r.sgs[i].state = "invokable"
      BY <1>1, <2>1 DEF ModifiedAll
    <3> QED BY <2>1, <3>1 DEF Promised
  <2>2. CASE r.status = "ok"
    <3>1. ASSUME NEW i \in DOMAIN graphs
          PROVE  Elements(r.sgs[i].applied) \subseteq AllowsDynamic \/ r.sgs[i].state = "immutable"
      <4> DEFINE q == r.sgs[i]
      <4>1. ModifiedTo(i, sgs[i], d, "ok", q)
        BY <1>1, <2>2 DEF ModifiedAll
      <4>2. Sound(graphs[i], HandlesOf(i), q) /\ ~q.undone
        BY <4>1 DEF ModifiedTo, Modified, Known
      <4> HIDE DEF q
      <4>3. \A k \in 1 .. Len(q.applied) : q.applied[k] \notin AllowsDynamic => q.state = "immutable"
        BY <4>2 DEF Sound, AppliedOrder
      <4>4. Elements(q.applied) \subseteq AllowsDynamic \/ q.state = "immutable"
        BY <4>3 DEF Elements
      <4> QED BY <4>4 DEF q
    <3> QED BY <2>2, <3>1 DEF Promised
  <2>3. CASE r.status = "application_error"
    <3>1. PICK m \in DOMAIN graphs : StoppedAt(sgs, d, m, r.status, r.sgs)
      BY <1>1, <2>3 DEF ModifiedAll
    <3>2. PICK o : Modified(graphs[m], HandlesOf(m), sgs[m], d, o) /\ o.status = "application_error" /\ r.sgs[m] = o.sg
      BY <2>3, <3>1 DEF StoppedAt, ModifiedTo
    <3>3. /\ r.sgs[m].state # "uninvokable"
          /\ sgs[m].undone \/ sgs[m].state = "immutable" \/ d \notin AllowsDynamic
      BY <3>2 DEF Modified
    <3>4. CASE m = 1
      BY <2>3, <3>3, <3>4 DEF Promised
    <3>5. CASE m # 1
      <4>1. ModifiedTo(1, sgs[1], d, "ok", r.sgs[1])
        BY <3>1, <3>5, StoppedFacts DEF Base
      <4>2. r.sgs[1].state = IF d \in AllowsDynamic THEN sgs[1].state ELSE "immutable"
        BY <4>1 DEF ModifiedTo, Modified
      <4>3. d \in AllowsDynamic => sgs[1].planner # <<>>
        <5>1. ~sgs[m].undone /\ (sgs[m].state = "immutable" => sgs[1].planner # <<>>)
          BY <3>5 DEF PrimaryLeads
        <5> QED BY <3>3, <5>1
      <4>4. d \in AllowsDynamic => sgs[1].state # "uninvokable"
        <5>1. ~model.late
          BY DEF NoneLate, Base
        <5> QED BY <4>3, <5>1 DEF ModifyGraph, Primary
      <4>5. r.sgs[1].state # "uninvokable"
        BY <4>2, <4>4
      <4> QED BY <2>3, <4>5 DEF Promised
    <3> QED BY <3>4, <3>5
  <2>4. CASE r.status = "error"
    BY <2>4 DEF Promised
  <2> QED BY <1>4, <2>1, <2>2, <2>3, <2>4
<1>6. Promises(sgs', last')
  BY <1>1, <1>3, <1>5 DEF Promises
<1> QED BY <1>2, <1>6

(* The subgraphs that AllocateTensors may come to.                         *)
LEMMA LeadersLeadOn ==
    ASSUME Base, PrimaryLeads(sgs), NEW J, J = {x \in Anything : PrimaryLeads(x[1])}
    PROVE  LeadsOn(J) /\ <<sgs, asked>> \in J /\ \A x \in J : AllKnown(x[1])
<1>1. LeadsOn(Anything) /\ <<sgs, asked>> \in Anything
  BY AnythingLeadsOn
<1>2. \A x \in J : AllKnown(x[1]) /\ PrimaryLeads(x[1]) /\ x \in Anything
  BY DEF Anything
<1>3. ASSUME NEW x \in J, NEW d \in Elements(lazy) \ {NoDelegate}, NEW q \in ModifyAll(x[1], d)
      PROVE  <<q.sgs, AskedAfter(x[2], q.status, d)>> \in J
  <2>1. d \in Delegates /\ model \in Models
    BY ElementOfSeq DEF Base, Waiting, Elements
  <2>2. PrimaryLeads(q.sgs)
    BY <1>2, <2>1, ModifyAllFacts, ModifyLeads
  <2>3. <<q.sgs, AskedAfter(x[2], q.status, d)>> \in Anything
    BY <1>1, <1>2 DEF LeadsOn
  <2> DEFINE told == AskedAfter(x[2], q.status, d)
  <2> HIDE DEF told
  <2>4. <<q.sgs, told>>[1] = q.sgs
    OBVIOUS
  <2>5. <<q.sgs, told>> \in Anything
    BY <2>3 DEF told
  <2>6. <<q.sgs, told>> \in J
    BY <2>2, <2>4, <2>5
  <2> QED BY <2>6 DEF told
<1>4. <<sgs, asked>> \in J
  <2>1. <<sgs, asked>>[1] = sgs
    OBVIOUS
  <2> QED BY <1>1, <2>1
<1> QED BY <1>2, <1>3, <1>4 DEF LeadsOn

(* AllocateTensors keeps what the status says.                             *)
LEMMA AllocatePromises ==
    ASSUME Base, PrimaryLeads(sgs), AllocateAll
    PROVE  PrimaryLeads(sgs') /\ Promises(sgs', last')
<1> DEFINE J == {x \in Anything : PrimaryLeads(x[1])}
<1>1. LeadsOn(J) /\ <<sgs, asked>> \in J /\ \A x \in J : AllKnown(x[1])
  BY LeadersLeadOn
<1>2. \A x \in J : PrimaryLeads(x[1])
  OBVIOUS
<1> HIDE DEF J
<1>3. PICK r, o : /\ Tried(J, r) /\ AllKnown(r.sgs)
                  /\ IF r.status = "ok" THEN Allocated(G1, H1, r.sgs[1], o)
                                        ELSE o.status = r.status /\ o.sg = r.sgs[1]
                  /\ sgs'[1] = o.sg
                  /\ \A i \in DOMAIN graphs : i # 1 => sgs'[i] = r.sgs[i]
                  /\ last' = [op |-> "AllocateTensors", status |-> o.status]
  BY <1>1, AllocateAllEffect
<1>4. PrimaryLeads(r.sgs)
  <2> DEFINE x == <<r.sgs, r.asked>>
  <2>1. x \in J /\ x[1] = r.sgs
    BY <1>3 DEF Tried
  <2> HIDE DEF x
  <2> QED BY <1>2, <2>1
<1>5. r.sgs[1].planner # <<>> => o.sg.planner # <<>>
  BY <1>3 DEF Allocated
<1>6. PrimaryLeads(sgs')
  BY <1>3, <1>4, <1>5 DEF PrimaryLeads
<1>7. last'.op = "AllocateTensors"
  BY <1>3
<1> QED BY <1>6, <1>7 DEF Promises

(* Values of tensors do not matter.                                        *)
LEMMA SettledPromises ==
    ASSUME Base, PrimaryLeads(sgs), Promises(sgs, last), NEW q, Settles(G1, H1, Primary, q),
           sgs' = [sgs EXCEPT ![1] = q]
    PROVE  PrimaryLeads(sgs') /\ (last' = last => Promises(sgs', last'))
<1>1. /\ sgs'[1] = q /\ (\A i \in DOMAIN graphs : i # 1 => sgs'[i] = sgs[i])
      /\ G1 = graphs[1] /\ Primary = sgs[1]
  BY ValuesEffect, PrimaryFacts DEF ValuesChange, Primary
<1>2. SamePlans(sgs[1], q)
  BY <1>1 DEF Settles
<1>3. \A i \in DOMAIN graphs : SamePlans(sgs[i], sgs'[i])
  BY <1>1, <1>2 DEF SamePlans
<1>4. PrimaryLeads(sgs')
  BY <1>1, <1>2 DEF PrimaryLeads, SamePlans
<1>5. \A i \in DOMAIN graphs : Restored(graphs[i], sgs[i]) => Restored(graphs[i], sgs'[i])
  BY <1>3 DEF Restored, SamePlans
<1>6. \A i \in DOMAIN graphs : sgs'[i].state = sgs[i].state /\ sgs'[i].applied = sgs[i].applied
  BY <1>3 DEF SamePlans
<1>7. sgs'[1].state = sgs[1].state
  BY <1>1, <1>2 DEF SamePlans
<1>8. ASSUME last' = last PROVE Promises(sgs', last')
  BY <1>5, <1>6, <1>7, <1>8 DEF Promises, Promised
<1> QED BY <1>4, <1>8

(* The end of Invoke keeps what the status says.                           *)
LEMMA EndInvokePromises ==
    ASSUME Base, Busy, PrimaryLeads(sgs), Promises(sgs, last), NEW s, Settles(G1, H1, Primary, s),
           Known(G1, H1, s), NEW status \in {"ok", "error"}, EndInvoke(s, status)
    PROVE  PrimaryLeads(sgs') /\ Promises(sgs', last')
<1>1. CASE ReturnsAs(s, status)
  <2>1. sgs' = [sgs EXCEPT ![1] = s] /\ last'.op # "ModifyGraphWithDelegate"
    BY <1>1 DEF ReturnsAs, Leaves
  <2> QED BY <2>1, SettledPromises DEF Promises
<1>2. ASSUME NEW r, FallsBack(s, r) PROVE PrimaryLeads(sgs') /\ Promises(sgs', last')
  <2> DEFINE q == EnsureReadable(s, G1.in).sg
             xs == [sgs EXCEPT ![1] = q]
  <2>1. /\ Settles(G1, H1, s, q) /\ RemovedAll(xs, r)
        /\ \/ r.status = "ok"
           \/ r.status = "error" /\ sgs' = r.sgs /\ Leaves("InvokeWithCPUFallback", "error")
    BY <1>2 DEF FallsBack
  <2>2. Settles(G1, H1, Primary, q)
    BY <2>1, SettlesTwice
  <2> HIDE DEF q
  <2>3. xs[1] = q /\ \A i \in DOMAIN graphs : i # 1 => xs[i] = sgs[i]
    BY <2>2, PrimarySettles
  <2> HIDE DEF xs
  <2>4. CASE r.status = "ok"
    <3>1. \A i \in DOMAIN graphs : Restored(graphs[i], sgs'[i]) /\ sgs'[i].state = "invokable"
      BY <1>2, <2>4, RetryFacts
    <3>2. PrimaryLeads(sgs')
      BY <3>1 DEF PrimaryLeads, Restored
    <3>3. 1 \in DOMAIN graphs /\ Elements(<<>>) = {}
      BY ModelFacts DEF Base, Elements
    <3>4. \A i \in DOMAIN graphs : Elements(sgs'[i].applied) \subseteq AllowsDynamic
      BY <3>1, <3>3 DEF Restored
    <3>5. \A st : Promised(sgs', st)
      BY <3>1, <3>3, <3>4 DEF Promised
    <3> QED BY <3>2, <3>5 DEF Promises
  <2>5. CASE r.status = "error" /\ sgs' = r.sgs /\ Leaves("InvokeWithCPUFallback", "error")
    <3>1. /\ Restored(graphs[1], r.sgs[1])
          /\ \A i \in DOMAIN graphs : Restored(graphs[i], r.sgs[i]) \/ r.sgs[i] = xs[i]
      BY <2>1 DEF RemovedAll
    <3>2. r.sgs[1].planner # <<>>
      BY <3>1, RestoredPlanned
    <3>3. \A i \in DOMAIN graphs \ {1} : ~r.sgs[i].undone
      BY <2>3, <3>1 DEF Restored, PrimaryLeads
    <3>4. PrimaryLeads(sgs')
      BY <2>5, <3>2, <3>3 DEF PrimaryLeads
    <3>5. last'.op = "InvokeWithCPUFallback"
      BY <2>5 DEF Leaves
    <3> QED BY <3>4, <3>5 DEF Promises
  <2> QED BY <2>1, <2>4, <2>5
<1> QED BY <1>1, <1>2, EndInvokeFacts

-----------------------------------------------------------------------------
(* A step of Invoke, by what it does to the primary subgraph.              *)
LEMMA InvokeStepEffect ==
    ASSUME Base, InvokeStep
    PROVE  /\ Busy /\ UNCHANGED <<model, lazy, cancelled>>
           /\ \E q : /\ Settles(G1, H1, Primary, q) /\ Known(G1, H1, q)
                     /\ \/ ValuesChange(q) /\ last' = last /\ asked' = asked
                        \/ \E status \in {"ok", "error"} : EndInvoke(q, status)
<1>1. Busy /\ UNCHANGED <<model, lazy, cancelled>>
  BY DEF InvokeStep, InvokePrepare, InvokeNode, InvokeFinish, Busy
<1>2. CASE InvokePrepare
  <2>1. \E q : /\ Settles(G1, H1, Primary, q) /\ Known(G1, H1, q)
               /\ \/ ValuesChange(q) /\ last' = last /\ asked' = asked
                  \/ EndInvoke(q, "error")
    BY <1>2, InvokePrepareEffect
  <2> QED BY <1>1, <2>1
<1>3. CASE InvokeNode
  <2>1. /\ Settles(G1, H1, Primary, Fetched.sg) /\ Known(G1, H1, Fetched.sg)
        /\ Settles(G1, H1, Primary, FailedNode) /\ Known(G1, H1, FailedNode)
        /\ \/ EndInvoke(Fetched.sg, "error")
           \/ EndInvoke(FailedNode, "error")
           \/ /\ last' = last /\ asked' = asked
              /\ \E resized \in BOOLEAN : ValuesChange(RanNode(resized))
    BY <1>3, InvokeNodeEffect
  <2>2. \A q : ValuesChange(q) => Settles(G1, H1, Primary, q) /\ Known(G1, H1, q)
    BY DEF ValuesChange
  <2> QED BY <1>1, <2>1, <2>2
<1>4. CASE InvokeFinish
  <2> DEFINE r == EnsureReadable(Primary, G1.out)
  <2>1. r.status \in {"ok", "error"} /\ Settles(G1, H1, Primary, r.sg) /\ Known(G1, H1, r.sg)
        /\ EndInvoke(r.sg, r.status)
    BY <1>4, InvokeFinishEffect
  <2> HIDE DEF r
  <2> QED BY <1>1, <2>1
<1> QED BY <1>2, <1>3, <1>4 DEF InvokeStep

(* The statuses are truthful at the start.                                 *)
LEMMA StatusInvInit ==
    ASSUME Init
    PROVE  StatusInv
<1>1. Base
  BY BaseInit
<1>2. \A i \in DOMAIN graphs : ~sgs[i].undone /\ sgs[i].state = "uninvokable"
  BY DEF Init, NewSubgraph
<1>3. last.op = "none"
  BY DEF Init
<1> QED BY <1>1, <1>2, <1>3 DEF StatusInv, PrimaryLeads, Promises

(* Every step keeps the statuses truthful.                                 *)
LEMMA StatusInvNext ==
    ASSUME NoneLate, StatusInv, [Next]_vars
    PROVE  StatusInv'
<1>0. Base /\ PrimaryLeads(sgs) /\ Promises(sgs, last)
  BY DEF StatusInv
<1>1. Base'
  BY <1>0, BaseNext
<1>2. PrimaryLeads(sgs') /\ Promises(sgs', last')
  <2>1. ASSUME NEW d, ModifyGraph(d) PROVE PrimaryLeads(sgs') /\ Promises(sgs', last')
    BY <1>0, <2>1, ModifyPromises
  <2>2. CASE AllocateAll
    BY <1>0, <2>2, AllocatePromises
  <2>3. CASE ResizeInput
    <3>1. PICK q : /\ sgs'[1] = q /\ \A i \in DOMAIN graphs : i # 1 => sgs'[i] = sgs[i]
                   /\ q.planner = Primary.planner
                   /\ last' = [op |-> "ResizeInputTensor", status |-> "ok"]
      BY <1>0, <2>3, ResizeInputEffect
    <3>2. last'.op = "ResizeInputTensor"
      BY <3>1
    <3> QED BY <1>0, <3>1, <3>2 DEF PrimaryLeads, Promises, Primary
  <2>4. ASSUME NEW t \in model.handles, SetBufferHandle(t) PROVE PrimaryLeads(sgs') /\ Promises(sgs', last')
    <3> DEFINE q == [Primary EXCEPT !.handle = @ \cup {t}]
    <3>1. ValuesChange(q) /\ last' = [op |-> "SetBufferHandle", status |-> "ok"]
      BY <1>0, <2>4, SetBufferHandleEffect
    <3> HIDE DEF q
    <3>2. last'.op = "SetBufferHandle"
      BY <3>1
    <3>3. PrimaryLeads(sgs')
      BY <1>0, <3>1, SettledPromises DEF ValuesChange
    <3> QED BY <3>2, <3>3 DEF Promises
  <2>5. CASE Cancel
    BY <1>0, <2>5 DEF Cancel
  <2>6. ASSUME NEW which, BeginInvoke(which) PROVE PrimaryLeads(sgs') /\ Promises(sgs', last')
    <3> DEFINE q == [Primary EXCEPT !.fresh = G1.in, !.buffered = {}]
    <3>1. ValuesChange(q) /\ last' = last
      BY <1>0, <2>6, BeginInvokeEffect DEF BeginInvoke
    <3> HIDE DEF q
    <3> QED BY <1>0, <3>1, SettledPromises DEF ValuesChange
  <2>7. CASE InvokeRefused
    <3>1. sgs' = sgs /\ last' = [op |-> "Invoke", status |-> "error"]
      BY <2>7 DEF InvokeRefused, Returns
    <3>2. last'.op = "Invoke"
      BY <3>1
    <3> QED BY <1>0, <3>1, <3>2 DEF Promises
  <2>8. CASE InvokeStep
    <3>1. PICK q : /\ Settles(G1, H1, Primary, q) /\ Known(G1, H1, q)
                   /\ \/ ValuesChange(q) /\ last' = last
                      \/ \E status \in {"ok", "error"} : EndInvoke(q, status)
      BY <1>0, <2>8, InvokeStepEffect
    <3>2. Busy
      BY <1>0, <2>8, InvokeStepEffect
    <3>3. CASE ValuesChange(q) /\ last' = last
      BY <1>0, <3>3, SettledPromises DEF ValuesChange
    <3>4. CASE \E status \in {"ok", "error"} : EndInvoke(q, status)
      BY <1>0, <3>1, <3>2, <3>4, EndInvokePromises
    <3> QED BY <3>1, <3>3, <3>4
  <2>9. CASE UNCHANGED vars
    BY <1>0, <2>9 DEF vars
  <2> QED BY <2>1, <2>2, <2>3, <2>4, <2>5, <2>6, <2>7, <2>8, <2>9 DEF Next
<1>3. graphs' = graphs
  <2>1. model' = model
    BY DEF Next, vars, ModifyGraph, AllocateAll, ResizeInput, SetBufferHandle, Cancel, BeginInvoke,
           InvokeRefused, InvokeStep, InvokePrepare, InvokeNode, InvokeFinish
  <2> QED BY <2>1 DEF graphs
<1>4. PrimaryLeads(sgs)'
  BY <1>2, <1>3 DEF PrimaryLeads
<1>5. Promises(sgs, last)'
  BY <1>2, <1>3 DEF Promises, Promised
<1> QED BY <1>1, <1>4, <1>5 DEF StatusInv

(* "after an error in the delegate no subgraph has a delegate": what the   *)
(* comments on ModifyGraphWithDelegate promise for each status, of any     *)
(* model, for clients that apply no delegate while inputs are resized and  *)
(* tensors not allocated.                                                  *)
THEOREM StatusesAreTruthful ==
    ASSUME \A m \in Models : ~m.late
    PROVE  Spec => []StatusTruthful
<1>0. NoneLate
  BY DEF NoneLate
<1>1. Init => StatusInv
  BY StatusInvInit
<1>2. StatusInv /\ [Next]_vars => StatusInv'
  BY <1>0, StatusInvNext
<1>3. StatusInv => StatusTruthful
  <2> SUFFICES ASSUME StatusInv, last.op = "ModifyGraphWithDelegate"
               PROVE  CASE last.status = "delegate_error" ->
                             \A i \in DOMAIN sgs : /\ sgs[i].plan = [n \in 1 .. NumOriginal(graphs[i]) |-> n]
                                                   /\ sgs[i].pre_plan = <<>> /\ sgs[i].applied = <<>>
                                                   /\ sgs[i].state = "invokable"
                        [] last.status = "application_error" -> Primary.state # "uninvokable"
                        [] last.status = "ok" -> \A i \in DOMAIN sgs :
                              Elements(sgs[i].applied) \subseteq AllowsDynamic \/ sgs[i].state = "immutable"
                        [] OTHER -> TRUE
    BY DEF StatusTruthful
  <2>1. DOMAIN sgs = DOMAIN graphs
    BY ListFacts DEF StatusInv, Base, AllKnown
  <2>2. Promised(sgs, last.status)
    BY DEF StatusInv, Promises
  <2>3. CASE last.status = "delegate_error"
    BY <2>1, <2>2, <2>3 DEF Promised, Restored, Orig
  <2>4. CASE last.status = "application_error"
    BY <2>2, <2>4 DEF Promised, Primary
  <2>5. CASE last.status = "ok"
    BY <2>1, <2>2, <2>5 DEF Promised
  <2>6. CASE last.status \notin {"delegate_error", "application_error", "ok"}
    BY <2>6
  <2> QED BY <2>3, <2>4, <2>5, <2>6
<1> QED BY <1>1, <1>2, <1>3, PTL DEF Spec

-----------------------------------------------------------------------------
(* Clients that set no buffer handles: every value is in its tensor.       *)
NoHandles == \A m \in Models : m.handles = {}

(* Without buffer handles no tensor has its data in a delegate.            *)
LEMMA NoBuffers ==
    ASSUME NoHandles, model \in Models, NEW s \in Subgraphs(G1, H1)
    PROVE  s.handle = {} /\ s.stale = {} /\ s.buffered = {}
<1>1. H1 = {}
  BY DEF NoHandles, H1
<1> QED BY <1>1 DEF Subgraphs, HandleSets

(* Without buffer handles there is nothing to copy.                        *)
LEMMA NothingToCopy ==
    ASSUME NoHandles, model \in Models, NEW s \in Subgraphs(G1, H1), NEW ts
    PROVE  EnsureReadable(s, ts).status = "ok" /\ EnsureReadable(s, ts).sg.fresh = s.fresh
<1> DEFINE z == [s EXCEPT !.fresh = (@ \ {}) \cup (s.buffered \cap {}), !.stale = @ \ {}]
<1>1. ts \cap s.stale = {}
  BY NoBuffers
<1>2. EnsureReadable(s, ts) = [status |-> "ok", sg |-> z]
  BY <1>1 DEF EnsureReadable, Outcome
<1>3. z.fresh = s.fresh
  BY DEF Subgraphs
<1> HIDE DEF z
<1> QED BY <1>2, <1>3

(* What Invoke has computed: the values of the inputs and of the nodes up  *)
(* to its place in the plan.                                               *)
Computed == G1.in \cup OutputsBefore(Primary.nodes, Primary.plan, index)

InferenceInv == Base /\ (Busy => Computed \subseteq Primary.fresh)

(* A good node of the plan does not touch what has been computed.          *)
LEMMA NodeFacts ==
    ASSUME Base, NEW k \in 1 .. Len(Primary.plan)
    PROVE  LET node == Primary.nodes[Primary.plan[k]]
               group == Elements(node.runs)
               before == RunBefore(k)
           IN  /\ group # {} /\ group \subseteq 1 .. NumOriginal(G1) /\ group \cap before = {}
               /\ before \subseteq 1 .. NumOriginal(G1) /\ RunBefore(k + 1) = before \cup group
               /\ node.inputs \subseteq G1.in \cup OutputsBefore(Primary.nodes, Primary.plan, k)
               /\ node.outputs \cap G1.in = {}
               /\ OutputsBefore(Primary.nodes, Primary.plan, k) \subseteq WritesOf(G1.writes, before)
               /\ ReadsOf(G1.reads, group) \ WritesOf(G1.writes, group) \subseteq node.inputs
               /\ OutputsBefore(Primary.nodes, Primary.plan, k + 1)
                    = OutputsBefore(Primary.nodes, Primary.plan, k) \cup node.outputs
<1> DEFINE g == G1
           nodes == Primary.nodes
           plan == Primary.plan
           node == nodes[plan[k]]
           group == Elements(node.runs)
           before == RunBefore(k)
<1>1. /\ IsGraph(g) /\ Known(g, H1, Primary) /\ Len(plan) \in Nat /\ NumOriginal(g) \in Nat \ {0}
  BY PrimaryFacts
<1>2. WellPlaced(g, nodes, plan)
  BY <1>1 DEF Known, Sound, GoodPlan
<1>3. before = UNION {Elements(nodes[plan[j]].runs) : j \in 1 .. k - 1}
      /\ RunBefore(k + 1) = UNION {Elements(nodes[plan[j]].runs) : j \in 1 .. (k + 1) - 1}
  BY DEF RunBefore
<1> HIDE DEF g, nodes, plan, before
<1>4. \A j \in 1 .. Len(plan) : GoodNode(g, nodes[plan[j]])
      /\ nodes[plan[j]].inputs \subseteq g.in \cup OutputsBefore(nodes, plan, j)
  BY <1>2 DEF WellPlaced
<1>5. \A i, j \in 1 .. Len(plan) : i # j => Elements(nodes[plan[i]].runs) \cap Elements(nodes[plan[j]].runs) = {}
  BY <1>2 DEF WellPlaced, RunsOf
<1>6. k \in 1 .. Len(plan) /\ \A j \in 1 .. k - 1 : j \in 1 .. Len(plan) /\ j # k
  BY <1>1 DEF plan
<1>7. \A j : j \in 1 .. (k + 1) - 1 <=> j \in 1 .. k - 1 \/ j = k
  BY <1>1, <1>6
<1>8. group # {} /\ group \subseteq 1 .. NumOriginal(g) /\ node.outputs \subseteq WritesOf(g.writes, group)
      /\ ReadsOf(g.reads, group) \ WritesOf(g.writes, group) \subseteq node.inputs
  BY <1>4, <1>6 DEF GoodNode
<1>9. group \cap before = {}
  BY <1>3, <1>5, <1>6
<1>10. before \subseteq 1 .. NumOriginal(g)
  BY <1>3, <1>4, <1>6 DEF GoodNode
<1>11. RunBefore(k + 1) = before \cup group
  BY <1>3, <1>7
<1>12. node.outputs \cap g.in = {}
  <2>1. {} \in SUBSET (1 .. NumOriginal(g)) /\ group \cap {} = {} /\ group \in SUBSET (1 .. NumOriginal(g))
    BY <1>8
  <2>2. WritesOf(g.writes, group) \cap g.in = {}
    BY <1>1, <2>1, OneWriter
  <2> QED BY <1>8, <2>2
<1>13. OutputsBefore(nodes, plan, k) \subseteq WritesOf(g.writes, before)
  <2>1. \A j \in 1 .. k - 1 : nodes[plan[j]].outputs \subseteq WritesOf(g.writes, Elements(nodes[plan[j]].runs))
    BY <1>4, <1>6 DEF GoodNode
  <2>2. \A j \in 1 .. k - 1 : Elements(nodes[plan[j]].runs) \subseteq before
    BY <1>3
  <2>3. \A j \in 1 .. k - 1 : WritesOf(g.writes, Elements(nodes[plan[j]].runs)) \subseteq WritesOf(g.writes, before)
    BY <2>2 DEF WritesOf
  <2> QED BY <2>1, <2>3 DEF OutputsBefore
<1>14. OutputsBefore(nodes, plan, k + 1) = OutputsBefore(nodes, plan, k) \cup node.outputs
  BY <1>7 DEF OutputsBefore
<1>15. node.inputs \subseteq g.in \cup OutputsBefore(nodes, plan, k)
  BY <1>4, <1>6
<1> QED BY <1>8, <1>9, <1>10, <1>11, <1>12, <1>13, <1>14, <1>15 DEF g, nodes, plan, before

(* A node that runs leaves its outputs behind, and takes nothing away.     *)
LEMMA RanFresh ==
    ASSUME NoHandles, InferenceInv, pc = "run", NEW resized \in BOOLEAN
    PROVE  RanNode(resized).fresh = Primary.fresh \cup CurrentNode.outputs
<1>1. /\ Base /\ model \in Models /\ Computed \subseteq Primary.fresh /\ index \in 1 .. Len(Primary.plan)
  BY PrimaryFacts DEF InferenceInv, Base, Busy
<1>2. Primary \in Subgraphs(G1, H1) /\ H1 \subseteq GraphTensors(G1)
  BY <1>1, PrimaryFacts
<1> DEFINE n == Primary.plan[index]
           s == Fetched.sg
           ts == {t \in Primary.nodes[n].inputs : Primary.delegate[t] \notin {NoDelegate, Primary.nodes[n].delegate}}
<1>3. Fetched = EnsureReadable(Primary, ts)
  BY DEF Fetched, FetchInputs
<1> HIDE DEF ts
<1>4. s.fresh = Primary.fresh /\ Settles(G1, H1, Primary, s)
  BY <1>1, <1>2, <1>3, NothingToCopy, EnsureReadableFacts
<1>5. s \in Subgraphs(G1, H1) /\ s.nodes = Primary.nodes
  BY <1>4 DEF Settles, SamePlans
<1>6. s.handle = {} /\ s.stale = {}
  BY <1>1, <1>5, NoBuffers
<1> HIDE DEF s
<1>7. RunNode(s, n).fresh = s.fresh \cup CurrentNode.outputs /\ RunNode(s, n) \in Subgraphs(G1, H1)
  <2> DEFINE node  == s.nodes[n]
             own   == IF node.delegate = NoDelegate THEN {}
                      ELSE {t \in s.handle : s.delegate[t] = node.delegate}
             right == \A t \in node.inputs :
                         IF t \in own \cap s.stale THEN t \in s.buffered ELSE t \in s.fresh
             raw   == node.outputs \ own
             buf   == node.outputs \cap own
             fr    == IF right THEN (s.fresh \ buf) \cup raw ELSE s.fresh \ node.outputs
             bu    == IF right THEN s.buffered \cup buf ELSE s.buffered \ buf
  <2>1. RunNode(s, n) = [s EXCEPT !.fresh = fr, !.buffered = bu, !.stale = s.stale \cup buf]
    BY <1>5 DEF RunNode, Subgraphs
  <2>2. node.inputs \subseteq s.fresh /\ node = CurrentNode
    <3>1. CurrentNode.inputs \subseteq Computed
      BY <1>1, NodeFacts DEF CurrentNode, Computed
    <3> QED BY <1>1, <1>4, <1>5, <3>1 DEF CurrentNode
  <2>3. own = {}
    BY <1>6
  <2> HIDE DEF own
  <2>4. fr = s.fresh \cup node.outputs
    BY <2>2, <2>3
  <2> HIDE DEF fr, bu, buf
  <2>5. RunNode(s, n).fresh = fr
    BY <1>5, <2>1 DEF Subgraphs
  <2>6. Settles(G1, H1, s, RunNode(s, n))
    <3>1. n \in 1 .. Len(s.nodes)
      BY <1>1, <1>5, PrimaryFacts
    <3> QED BY <1>2, <1>5, <3>1, RunNodeFacts
  <2> QED BY <2>2, <2>4, <2>5, <2>6 DEF Settles
<1> DEFINE z == RunNode(s, n)
<1> HIDE DEF z
<1>8. ResizedOutputs(G1, z, index, resized).fresh = z.fresh
  <2> DEFINE outs == z.nodes[z.plan[index]].outputs \cap G1.dynamic
             below == DownstreamNodes(z, outs)
             inner == UNION {Elements(z.nodes[m].runs) : m \in below}
  <2>1. z \in Subgraphs(G1, H1)
    BY <1>7 DEF z
  <2>2. ResizedOutputs(G1, z, index, resized)
          = IF ~resized THEN [z EXCEPT !.shaped = @ \cup outs]
            ELSE [z EXCEPT !.shaped = (@ \ WritesOf(G1.writes, inner)) \cup outs,
                           !.ready = @ \ (below \cup inner), !.next_to_prepare = index + 1]
    BY DEF ResizedOutputs
  <2> HIDE DEF outs, below, inner
  <2> QED BY <2>1, <2>2 DEF Subgraphs
<1> QED BY <1>4, <1>7, <1>8 DEF RanNode, s, z

-----------------------------------------------------------------------------
(* The state of Inference, as Interpreter maps its own to it.              *)
Needs  == [n \in DOMAIN G1.reads |->
             {m \in DOMAIN G1.reads : G1.writes[m] \cap G1.reads[n] # {}}]
Done   == IF Busy THEN RunBefore(index) ELSE {}
Result == IF Busy \/ ~IsInvoke THEN "none"
          ELSE IF last.status = "error" THEN "failed" ELSE Outputs

(* The steps of Inference, in terms of that state.                         *)
Stutters  == Busy' = Busy /\ Done' = Done /\ Result' = Result
Begins    == ~Busy /\ Busy' /\ Done' = {} /\ Result' = "none"
RunsGroup(group) ==
    /\ Busy /\ Busy' /\ group \subseteq DOMAIN Needs /\ group # {} /\ group \cap Done = {}
    /\ \A n \in group : Needs[n] \subseteq Done \cup group
    /\ Done' = Done \cup group /\ Result' = Result
StartsOver == Busy /\ Busy' /\ Done' = {} /\ Result' = Result
Succeeds  == Busy /\ ~Busy' /\ Done = DOMAIN Needs /\ Done' = {} /\ Result' = "valid"
Fails     == ~Busy' /\ Done' = {} /\ Result' = "failed"
Forgets   == ~Busy /\ ~Busy' /\ Result' = "none"

(* One of them is a step of Inference, or leaves its state alone.          *)
LEMMA AbstractStep ==
    ASSUME model' = model,
           \/ Stutters \/ Begins \/ StartsOver \/ Succeeds \/ Fails \/ Forgets
           \/ \E group : RunsGroup(group)
    PROVE  [Abstract!Next]_Abstract!vars
<1>1. /\ Abstract!vars = <<Needs, Busy, Done, Result>>
      /\ Abstract!vars' = <<Needs', Busy', Done', Result'>>
  BY DEF Abstract!vars, Needs, Busy, Done, Result
<1>2. Needs' = Needs
  BY DEF Needs, G1, graphs
<1>3. CASE Stutters
  BY <1>1, <1>2, <1>3 DEF Stutters
<1>4. CASE Begins
  <2>1. Abstract!Begin
    BY <1>2, <1>4 DEF Abstract!Begin, Begins, Needs, Busy, Done, Result
  <2> QED BY <2>1 DEF Abstract!Next
<1>5. ASSUME NEW group, RunsGroup(group) PROVE [Abstract!Next]_Abstract!vars
  <2>1. Abstract!Run(group)
    BY <1>2, <1>5 DEF Abstract!Run, RunsGroup, Needs, Busy, Done, Result
  <2>2. group \in SUBSET Abstract!Nodes
    BY <1>5 DEF Abstract!Nodes, RunsGroup, Needs
  <2> QED BY <2>1, <2>2 DEF Abstract!Next
<1>6. CASE StartsOver
  <2>1. Abstract!StartOver
    BY <1>2, <1>6 DEF Abstract!StartOver, StartsOver, Needs, Busy, Done, Result
  <2> QED BY <2>1 DEF Abstract!Next
<1>7. CASE Succeeds
  <2>1. Abstract!Succeed
    BY <1>2, <1>7 DEF Abstract!Succeed, Abstract!Nodes, Succeeds, Needs, Busy, Done, Result
  <2> QED BY <2>1 DEF Abstract!Next
<1>8. CASE Fails
  <2>1. Abstract!Fail
    BY <1>2, <1>8 DEF Abstract!Fail, Fails, Needs, Busy, Done, Result
  <2> QED BY <2>1 DEF Abstract!Next
<1>9. CASE Forgets
  <2>1. Abstract!Forget
    BY <1>2, <1>9 DEF Abstract!Forget, Forgets, Needs, Busy, Done, Result
  <2> QED BY <2>1 DEF Abstract!Next
<1> QED BY <1>3, <1>4, <1>5, <1>6, <1>7, <1>8, <1>9

(* The initial states of the interpreter are initial states of an          *)
(* inference.                                                              *)
LEMMA AbstractInit ==
    ASSUME Init
    PROVE  Abstract!Init
<1>1. pc = "idle" /\ last = [op |-> "none", status |-> "ok"]
  BY DEF Init
<1>2. ~Busy /\ ~IsInvoke
  BY <1>1 DEF Busy, IsInvoke
<1>3. \A n \in DOMAIN Needs : Needs[n] \subseteq DOMAIN Needs
  BY DEF Needs
<1> QED BY <1>2, <1>3 DEF Abstract!Init, Abstract!Nodes, Needs, Busy

-----------------------------------------------------------------------------
(* Before its first node an inference has run nothing.                     *)
LEMMA NothingRun ==
    /\ RunBefore(1) = {}
    /\ \A nodes, plan : OutputsBefore(nodes, plan, 1) = {}
<1>1. 1 .. 1 - 1 = {}
  OBVIOUS
<1> QED BY <1>1 DEF RunBefore, OutputsBefore

(* What is run and computed after a step that leaves the plan alone.       *)
LEMMA SamePlanRun ==
    ASSUME SamePlans(Primary, Primary'), model' = model
    PROVE  /\ Busy' => Done' = RunBefore(index')
           /\ Computed' = G1.in \cup OutputsBefore(Primary.nodes, Primary.plan, index')
<1>1. Primary'.nodes = Primary.nodes /\ Primary'.plan = Primary.plan /\ G1' = G1
  BY DEF SamePlans, G1, graphs
<1>2. RunBefore(index)' = RunBefore(index')
  BY <1>1 DEF RunBefore
<1>3. Computed' = G1.in \cup OutputsBefore(Primary.nodes, Primary.plan, index')
  BY <1>1 DEF Computed, OutputsBefore
<1> QED BY <1>2, <1>3 DEF Done

(* The nodes that a node of the plan depends on ran before it, or run in   *)
(* its group.                                                              *)
LEMMA GroupNeeds ==
    ASSUME Base, NEW k \in 1 .. Len(Primary.plan), NEW n \in Elements(Primary.nodes[Primary.plan[k]].runs)
    PROVE  Needs[n] \subseteq RunBefore(k) \cup Elements(Primary.nodes[Primary.plan[k]].runs)
<1> DEFINE g == G1
           N == NumOriginal(g)
           node == Primary.nodes[Primary.plan[k]]
           group == Elements(node.runs)
           before == RunBefore(k)
           outs == OutputsBefore(Primary.nodes, Primary.plan, k)
<1>1. IsGraph(g) /\ DOMAIN g.reads = 1 .. N
  BY PrimaryFacts, GraphFacts
<1>2. /\ group \subseteq 1 .. N /\ before \subseteq 1 .. N
      /\ node.inputs \subseteq g.in \cup outs
      /\ outs \subseteq WritesOf(g.writes, before)
      /\ ReadsOf(g.reads, group) \ WritesOf(g.writes, group) \subseteq node.inputs
  BY NodeFacts
<1>3. n \in group
  OBVIOUS
<1> HIDE DEF group, before, node, outs
<1>4. ASSUME NEW m \in Needs[n], m \notin group PROVE m \in before
  <2>1. m \in 1 .. N /\ n \in 1 .. N /\ g.writes[m] \cap g.reads[n] # {}
    BY <1>1, <1>2, <1>3, <1>4 DEF Needs
  <2>2. PICK t : t \in g.writes[m] /\ t \in g.reads[n]
    BY <2>1
  <2>3. t \in WritesOf(g.writes, {m}) /\ {m} \in SUBSET (1 .. N) /\ group \in SUBSET (1 .. N)
        /\ before \in SUBSET (1 .. N)
    BY <1>2, <2>1, <2>2 DEF WritesOf
  <2>4. t \notin g.in /\ t \notin WritesOf(g.writes, group)
    <3>1. {m} \cap group = {}
      BY <1>4
    <3> HIDE DEF g, N
    <3> QED BY <1>1, <2>3, <3>1, OneWriter DEF N
  <2>5. t \in ReadsOf(g.reads, group)
    BY <1>3, <2>2 DEF ReadsOf
  <2>6. t \in WritesOf(g.writes, before)
    BY <1>2, <2>4, <2>5
  <2>7. CASE m \notin before
    <3>1. {m} \cap before = {}
      BY <2>7
    <3> HIDE DEF g, N
    <3>2. WritesOf(g.writes, {m}) \cap WritesOf(g.writes, before) = {}
      BY <1>1, <2>3, <3>1, OneWriter DEF N
    <3> QED BY <2>3, <2>6, <3>2
  <2> QED BY <2>7
<1> QED BY <1>4 DEF group, before, node

(* When the plan is through, every node of the model has run, and outputs  *)
(* have their values.                                                      *)
LEMMA PlanThrough ==
    ASSUME Base, NEW k, k = Len(Primary.plan) + 1
    PROVE  /\ RunBefore(k) = DOMAIN Needs
           /\ G1.out \subseteq G1.in \cup OutputsBefore(Primary.nodes, Primary.plan, k)
<1>1. /\ IsGraph(G1) /\ Known(G1, H1, Primary) /\ Len(Primary.plan) \in Nat
  BY PrimaryFacts
<1>2. GoodPlan(G1, Primary.nodes, Primary.plan)
  BY <1>1 DEF Known, Sound
<1>3. k - 1 = Len(Primary.plan)
  BY <1>1
<1>4. DOMAIN Needs = 1 .. NumOriginal(G1)
  BY <1>1, GraphFacts DEF Needs
<1>5. RunBefore(k) = AllRuns(Primary.nodes, Elements(Primary.plan))
  <2> DEFINE plan == Primary.plan
             nodes == Primary.nodes
  <2>1. Elements(plan) = {plan[j] : j \in 1 .. Len(plan)}
    BY <1>2, LenProperties DEF Elements, GoodPlan, WellPlaced
  <2>2. RunBefore(k) = UNION {Elements(nodes[plan[j]].runs) : j \in 1 .. Len(plan)}
    BY <1>3 DEF RunBefore
  <2>3. AllRuns(nodes, Elements(plan)) = UNION {Elements(nodes[n].runs) : n \in Elements(plan)}
    BY DEF AllRuns, RunsOf
  <2> HIDE DEF plan, nodes
  <2>4. {Elements(nodes[plan[j]].runs) : j \in 1 .. Len(plan)} = {Elements(nodes[n].runs) : n \in Elements(plan)}
    BY <2>1
  <2>5. RunBefore(k) = AllRuns(nodes, Elements(plan))
    BY <2>2, <2>3, <2>4
  <2> QED BY <2>5 DEF plan, nodes
<1> QED BY <1>2, <1>4, <1>5 DEF GoodPlan

-----------------------------------------------------------------------------
(* The values that an inference has computed are where they belong.        *)
KeepsValues == Busy' => Computed' \subseteq Primary'.fresh

(* Steps by which Inference is started over or left.                       *)
LEMMA EndInvokeInfers ==
    ASSUME NoHandles, Base, Busy, model' = model, NEW s, Known(G1, H1, s), G1.in \subseteq s.fresh,
           NEW status \in {"ok", "error"}, EndInvoke(s, status),
           status = "ok" => Done = DOMAIN Needs /\ G1.out \subseteq s.fresh
    PROVE  KeepsValues /\ (StartsOver \/ Succeeds \/ Fails)
<1>1. ReturnsAs(s, status) \/ (status = "error" /\ \E r : FallsBack(s, r))
  BY EndInvokeFacts
<1>2. /\ model \in Models /\ AllKnown(sgs) /\ HandlesOf(1) = H1 /\ G1 = graphs[1] /\ 1 \in DOMAIN graphs
      /\ G1' = G1
  BY PrimaryFacts, ModelFacts DEF Base, G1, graphs
<1>3. Result = "none"
  BY DEF Result
<1>4. ASSUME NEW op \in {"Invoke", "InvokeWithCPUFallback"}, NEW st, Leaves(op, st)
      PROVE  /\ ~Busy' /\ Done' = {} /\ IsInvoke' /\ last'.status = st
             /\ Result' = IF st = "error" THEN "failed" ELSE Outputs'
  <2>1. pc' = "idle" /\ last' = [op |-> op, status |-> st]
    BY <1>4 DEF Leaves
  <2>2. last'.op = op /\ last'.status = st
    BY <2>1
  <2>3. ~Busy' /\ Done' = {} /\ IsInvoke'
    BY <2>1, <2>2 DEF Busy, Done, IsInvoke
  <2> QED BY <2>2, <2>3 DEF Result
<1>5. CASE ReturnsAs(s, status)
  <2>1. PICK op \in {"Invoke", "InvokeWithCPUFallback"}, st \in {"ok", "delegate_error", "error"} :
            Leaves(op, st) /\ (st # "error" => status = "ok")
    BY <1>5 DEF ReturnsAs
  <2>2. ~Busy' /\ Done' = {} /\ Result' = IF st = "error" THEN "failed" ELSE Outputs'
    BY <1>4, <2>1
  <2>3. KeepsValues
    BY <2>2 DEF KeepsValues
  <2>4. CASE st = "error"
    BY <2>2, <2>3, <2>4 DEF Fails
  <2>5. CASE st # "error"
    <3>1. Primary' = s
      <4>1. sgs' = [sgs EXCEPT ![1] = s]
        BY <1>5 DEF ReturnsAs
      <4>2. [sgs EXCEPT ![1] = s][1] = s
        BY <1>2, KnownReplaced
      <4> QED BY <4>1, <4>2 DEF Primary
    <3>2. Done = DOMAIN Needs /\ G1.out \subseteq s.fresh
      BY <2>1, <2>5
    <3>3. Outputs' = "valid"
      BY <1>2, <3>1, <3>2 DEF Outputs
    <3> QED BY <2>2, <2>3, <2>5, <3>2, <3>3 DEF Succeeds
  <2> QED BY <2>4, <2>5
<1>6. ASSUME NEW r, FallsBack(s, r) PROVE KeepsValues /\ (StartsOver \/ Fails)
  <2>1. CASE r.status = "ok"
    <3>1. pc' = "invoke" /\ index' = 1
      BY <1>6, <2>1 DEF FallsBack
    <3>2. Busy' /\ Result' = "none"
      BY <3>1 DEF Busy, Result
    <3>3. 1 .. index' - 1 = {}
      BY <3>1
    <3>4. Done' = {}
      BY <3>2, <3>3 DEF Done, RunBefore
    <3>5. Computed' = G1.in
      BY <1>2, <3>3 DEF Computed, OutputsBefore
    <3>6. Primary'.fresh = EnsureReadable(s, G1.in).sg.fresh \cap G1.in
      BY <1>6, <2>1, RetryFacts DEF Primary
    <3>7. EnsureReadable(s, G1.in).sg.fresh = s.fresh
      BY <1>2, NothingToCopy, KnownTyped
    <3>8. Computed' \subseteq Primary'.fresh
      BY <3>5, <3>6, <3>7
    <3> QED BY <1>3, <3>2, <3>4, <3>8 DEF KeepsValues, StartsOver
  <2>2. CASE r.status # "ok"
    <3>1. Leaves("InvokeWithCPUFallback", "error")
      BY <1>6, <2>2 DEF FallsBack
    <3>2. ~Busy' /\ Done' = {} /\ Result' = "failed"
      BY <1>4, <3>1
    <3> QED BY <3>2 DEF KeepsValues, Fails
  <2> QED BY <2>1, <2>2
<1> QED BY <1>1, <1>5, <1>6

(* The steps of Invoke are those of an inference.                          *)
LEMMA InvokePrepareInfers ==
    ASSUME NoHandles, InferenceInv, InvokePrepare
    PROVE  KeepsValues /\ (Stutters \/ StartsOver \/ Succeeds \/ Fails)
<1>1. /\ Base /\ Busy /\ Computed \subseteq Primary.fresh /\ model' = model /\ pc = "invoke"
  BY DEF InferenceInv, Busy, InvokePrepare
<1>2. PICK q : /\ Settles(G1, H1, Primary, q) /\ Known(G1, H1, q) /\ q.fresh = Primary.fresh
               /\ \/ ValuesChange(q) /\ pc' = "run" /\ UNCHANGED <<call, index, last, asked>>
                  \/ EndInvoke(q, "error")
  BY <1>1, InvokePrepareEffect
<1>3. CASE EndInvoke(q, "error")
  <2>1. G1.in \subseteq q.fresh
    BY <1>1, <1>2 DEF Computed
  <2> DEFINE st == "error"
  <2>2. st \in {"ok", "error"} /\ EndInvoke(q, st) /\ st # "ok"
    BY <1>3
  <2> HIDE DEF st
  <2> QED BY <1>1, <1>2, <2>1, <2>2, EndInvokeInfers
<1>4. CASE ValuesChange(q) /\ pc' = "run" /\ UNCHANGED <<call, index, last, asked>>
  <2>1. Primary' = q
    BY <1>4 DEF ValuesChange, Primary
  <2>2. SamePlans(Primary, Primary')
    BY <1>2, <2>1 DEF Settles
  <2>3. index' = index /\ last' = last /\ Busy'
    BY <1>4 DEF Busy
  <2>4. Done' = RunBefore(index) /\ Computed' = Computed
    BY <1>1, <2>2, <2>3, SamePlanRun DEF Computed
  <2>5. Result' = "none" /\ Result = "none" /\ Done = RunBefore(index)
    BY <1>1, <2>3 DEF Result, Done
  <2> QED BY <1>1, <1>2, <2>1, <2>3, <2>4, <2>5 DEF Stutters, KeepsValues
<1> QED BY <1>2, <1>3, <1>4

(* The end of the plan ends the inference, or fails it.                    *)
LEMMA InvokeFinishInfers ==
    ASSUME NoHandles, InferenceInv, InvokeFinish
    PROVE  KeepsValues /\ (StartsOver \/ Succeeds \/ Fails)
<1>1. /\ Base /\ Busy /\ Computed \subseteq Primary.fresh /\ model' = model /\ pc = "invoke"
      /\ index > Len(Primary.plan)
  BY DEF InferenceInv, Busy, InvokeFinish
<1>2. index = Len(Primary.plan) + 1
  BY <1>1, PrimaryFacts DEF Base
<1> DEFINE r == EnsureReadable(Primary, G1.out)
<1>3. Known(G1, H1, r.sg) /\ EndInvoke(r.sg, r.status) /\ r.status \in {"ok", "error"}
  BY <1>1, InvokeFinishEffect
<1>4. r.sg.fresh = Primary.fresh
  BY <1>1, NothingToCopy, PrimaryFacts DEF Base
<1>5. Done = DOMAIN Needs /\ G1.out \subseteq Computed
  BY <1>1, <1>2, PlanThrough DEF Done, Computed
<1> HIDE DEF r
<1>6. G1.in \subseteq r.sg.fresh /\ G1.out \subseteq r.sg.fresh
  BY <1>1, <1>4, <1>5 DEF Computed
<1> QED BY <1>1, <1>3, <1>5, <1>6, EndInvokeInfers

(* One node of Invoke is a step of the inference, or fails it.             *)
LEMMA InvokeNodeInfers ==
    ASSUME NoHandles, InferenceInv, InvokeNode
    PROVE  KeepsValues /\ (StartsOver \/ Succeeds \/ Fails \/ \E group : RunsGroup(group))
<1>1. /\ Base /\ Busy /\ Computed \subseteq Primary.fresh /\ model' = model /\ pc = "run"
  BY DEF InferenceInv, Busy, InvokeNode
<1>2. index \in 1 .. Len(Primary.plan) /\ index \in Nat
  BY <1>1, PrimaryFacts DEF Base
<1> DEFINE group == Elements(CurrentNode.runs)
<1>3. /\ group # {} /\ group \subseteq 1 .. NumOriginal(G1) /\ group \cap RunBefore(index) = {}
      /\ RunBefore(index + 1) = RunBefore(index) \cup group
      /\ CurrentNode.outputs \cap G1.in = {}
      /\ OutputsBefore(Primary.nodes, Primary.plan, index + 1)
           = OutputsBefore(Primary.nodes, Primary.plan, index) \cup CurrentNode.outputs
  BY <1>1, <1>2, NodeFacts DEF CurrentNode
<1>4. \A n \in group : Needs[n] \subseteq RunBefore(index) \cup group
  BY <1>1, <1>2, GroupNeeds DEF CurrentNode
<1>5. Fetched.sg.fresh = Primary.fresh /\ FailedNode.fresh = Primary.fresh \ CurrentNode.outputs
  <2> DEFINE ts == {t \in Primary.nodes[Primary.plan[index]].inputs :
                       Primary.delegate[t] \notin {NoDelegate, Primary.nodes[Primary.plan[index]].delegate}}
  <2>1. Fetched = EnsureReadable(Primary, ts)
    BY DEF Fetched, FetchInputs
  <2> HIDE DEF ts
  <2>2. Fetched.sg.fresh = Primary.fresh
    BY <1>1, <2>1, NothingToCopy, PrimaryFacts DEF Base
  <2>3. Fetched.sg \in Subgraphs(G1, H1)
    BY <1>1, InvokeNodeEffect, KnownTyped
  <2>4. FailedNode.fresh = Fetched.sg.fresh \ CurrentNode.outputs
    BY <2>3 DEF FailedNode, Subgraphs
  <2> QED BY <2>2, <2>4
<1> HIDE DEF group
<1>6. G1.in \subseteq Fetched.sg.fresh /\ G1.in \subseteq FailedNode.fresh
  BY <1>1, <1>3, <1>5 DEF Computed
<1>7. ASSUME NEW s, Known(G1, H1, s), G1.in \subseteq s.fresh, EndInvoke(s, "error")
      PROVE  KeepsValues /\ (StartsOver \/ Succeeds \/ Fails)
  <2> DEFINE st == "error"
  <2>1. st \in {"ok", "error"} /\ EndInvoke(s, st) /\ st # "ok"
    BY <1>7
  <2> HIDE DEF st
  <2> QED BY <1>1, <1>7, <2>1, EndInvokeInfers
<1>8. ASSUME NEW resized \in BOOLEAN, Settles(G1, H1, Primary, RanNode(resized)),
             ValuesChange(RanNode(resized)), pc' = "invoke", index' = index + 1
      PROVE  KeepsValues /\ RunsGroup(group)
  <2>1. Primary' = RanNode(resized)
    BY <1>8 DEF ValuesChange, Primary
  <2>2. SamePlans(Primary, Primary')
    BY <1>8, <2>1 DEF Settles
  <2>3. Busy'
    BY <1>8 DEF Busy
  <2>4. /\ Done' = RunBefore(index) \cup group
        /\ Computed' = G1.in \cup OutputsBefore(Primary.nodes, Primary.plan, index) \cup CurrentNode.outputs
    BY <1>1, <1>3, <1>8, <2>2, <2>3, SamePlanRun
  <2>5. Primary'.fresh = Primary.fresh \cup CurrentNode.outputs
    BY <1>1, <1>8, <2>1, RanFresh
  <2>6. KeepsValues
    BY <1>1, <2>4, <2>5 DEF KeepsValues, Computed
  <2>7. Result' = "none" /\ Result = "none" /\ Done = RunBefore(index)
    BY <1>1, <2>3 DEF Result, Done
  <2>8. DOMAIN Needs = 1 .. NumOriginal(G1)
    BY <1>1, PrimaryFacts, GraphFacts DEF Needs
  <2> QED BY <1>1, <1>3, <1>4, <2>3, <2>4, <2>6, <2>7, <2>8 DEF RunsGroup
<1>9. /\ Known(G1, H1, Fetched.sg) /\ Known(G1, H1, FailedNode)
      /\ \/ EndInvoke(Fetched.sg, "error")
         \/ EndInvoke(FailedNode, "error")
         \/ /\ pc' = "invoke" /\ index' = index + 1
            /\ \E resized \in BOOLEAN : /\ Settles(G1, H1, Primary, RanNode(resized))
                                        /\ ValuesChange(RanNode(resized))
  BY <1>1, InvokeNodeEffect
<1> QED BY <1>6, <1>7, <1>8, <1>9

-----------------------------------------------------------------------------
(* The invariant of the refinement holds at the start.                     *)
LEMMA InferenceInvInit ==
    ASSUME Init
    PROVE  InferenceInv
<1>1. Base
  BY BaseInit
<1>2. ~Busy
  BY DEF Init, Busy
<1> QED BY <1>1, <1>2 DEF InferenceInv

(* A call of the client that is not Invoke makes the last result void.     *)
LEMMA ClientForgets ==
    ASSUME pc = "idle", pc' \in {"idle", "crashed"}, NEW op, NEW st, op \notin {"Invoke", "InvokeWithCPUFallback"},
           last' = [op |-> op, status |-> st]
    PROVE  KeepsValues /\ Forgets
<1>1. ~Busy /\ ~Busy'
  BY DEF Busy
<1>2. last'.op = op
  OBVIOUS
<1>3. ~IsInvoke'
  BY <1>2 DEF IsInvoke
<1> QED BY <1>1, <1>3 DEF KeepsValues, Forgets, Result

(* Every step is one of Inference, or leaves its state alone.              *)
LEMMA InferenceStep ==
    ASSUME NoHandles, InferenceInv, [Next]_vars
    PROVE  InferenceInv' /\ [Abstract!Next]_Abstract!vars
<1>0. Base /\ (Busy => Computed \subseteq Primary.fresh)
  BY DEF InferenceInv
<1> DEFINE Mapped == \/ Stutters \/ Begins \/ StartsOver \/ Succeeds \/ Fails \/ Forgets
                     \/ \E group : RunsGroup(group)
<1>13. /\ (Stutters => Mapped) /\ (Begins => Mapped) /\ (StartsOver => Mapped) /\ (Succeeds => Mapped)
      /\ (Fails => Mapped) /\ (Forgets => Mapped) /\ ((\E group : RunsGroup(group)) => Mapped)
  OBVIOUS
<1> HIDE DEF Mapped
<1>1. ASSUME NEW d, ModifyGraph(d) PROVE KeepsValues /\ Mapped
  <2>1. pc = "idle" /\ pc' = "idle" /\ \E st : last' = [op |-> "ModifyGraphWithDelegate", status |-> st]
    BY <1>1 DEF ModifyGraph, Returns
  <2> DEFINE op == "ModifyGraphWithDelegate"
  <2>2. PICK st : last' = [op |-> op, status |-> st]
    BY <2>1
  <2>3. op \notin {"Invoke", "InvokeWithCPUFallback"}
    OBVIOUS
  <2> HIDE DEF op
  <2>4. KeepsValues /\ Forgets
    BY <2>1, <2>2, <2>3, ClientForgets
  <2> QED BY <1>13, <2>4
<1>2. ASSUME AllocateAll PROVE KeepsValues /\ Mapped
  <2>1. /\ pc = "idle" /\ pc' \in {"idle", "crashed"}
        /\ \E st : last' = [op |-> "AllocateTensors", status |-> st]
    BY <1>2 DEF AllocateAll, Returns
  <2> DEFINE op == "AllocateTensors"
  <2>2. PICK st : last' = [op |-> op, status |-> st]
    BY <2>1
  <2>3. op \notin {"Invoke", "InvokeWithCPUFallback"}
    OBVIOUS
  <2> HIDE DEF op
  <2>4. KeepsValues /\ Forgets
    BY <2>1, <2>2, <2>3, ClientForgets
  <2> QED BY <1>13, <2>4
<1>3. ASSUME ResizeInput PROVE KeepsValues /\ Mapped
  <2>1. pc = "idle" /\ pc' = "idle" /\ \E st : last' = [op |-> "ResizeInputTensor", status |-> st]
    BY <1>3 DEF ResizeInput, Returns
  <2> DEFINE op == "ResizeInputTensor"
  <2>2. PICK st : last' = [op |-> op, status |-> st]
    BY <2>1
  <2>3. op \notin {"Invoke", "InvokeWithCPUFallback"}
    OBVIOUS
  <2> HIDE DEF op
  <2>4. KeepsValues /\ Forgets
    BY <2>1, <2>2, <2>3, ClientForgets
  <2> QED BY <1>13, <2>4
<1>4. ASSUME NEW t, SetBufferHandle(t) PROVE KeepsValues /\ Mapped
  <2>1. pc = "idle" /\ pc' = "idle" /\ \E st : last' = [op |-> "SetBufferHandle", status |-> st]
    BY <1>4 DEF SetBufferHandle, Returns
  <2> DEFINE op == "SetBufferHandle"
  <2>2. PICK st : last' = [op |-> op, status |-> st]
    BY <2>1
  <2>3. op \notin {"Invoke", "InvokeWithCPUFallback"}
    OBVIOUS
  <2> HIDE DEF op
  <2>4. KeepsValues /\ Forgets
    BY <2>1, <2>2, <2>3, ClientForgets
  <2> QED BY <1>13, <2>4
<1>5. ASSUME UNCHANGED <<model, sgs, pc, index, last>> PROVE KeepsValues /\ Mapped
  <2>1. /\ Busy' = Busy /\ Done' = Done /\ Result' = Result /\ Computed' = Computed
        /\ Primary' = Primary
    BY <1>5 DEF Busy, Done, Result, RunBefore, Computed, IsInvoke, Outputs, Primary, G1, graphs, OutputsBefore
  <2> QED BY <1>13, <1>0, <2>1 DEF KeepsValues, Stutters
<1>6. ASSUME NEW which, BeginInvoke(which) PROVE KeepsValues /\ Mapped
  <2> DEFINE q == [Primary EXCEPT !.fresh = G1.in, !.buffered = {}]
  <2>1. /\ pc = "idle" /\ pc' = "invoke" /\ index' = 1 /\ model' = model
    BY <1>6 DEF BeginInvoke
  <2>2. ValuesChange(q)
    BY <1>0, <1>6, BeginInvokeEffect
  <2>3. q.fresh = G1.in
    BY <1>0, PrimaryFacts DEF Subgraphs
  <2> HIDE DEF q
  <2>4. ~Busy /\ Busy' /\ Primary'.fresh = G1.in /\ G1' = G1
    BY <2>1, <2>2, <2>3 DEF Busy, ValuesChange, Primary, G1, graphs
  <2>5. 1 .. index' - 1 = {}
    BY <2>1
  <2>6. Done' = {} /\ Computed' = G1.in /\ Result' = "none"
    BY <2>4, <2>5 DEF Done, RunBefore, Computed, OutputsBefore, Result
  <2> QED BY <1>13, <2>4, <2>6 DEF KeepsValues, Begins
<1>7. ASSUME InvokeRefused PROVE KeepsValues /\ Mapped
  <2>1. pc = "idle" /\ pc' = "idle" /\ last' = [op |-> "Invoke", status |-> "error"]
    BY <1>7 DEF InvokeRefused, Returns
  <2>2. last'.op = "Invoke" /\ last'.status = "error"
    BY <2>1
  <2>3. ~Busy'
    BY <2>1 DEF Busy
  <2>4. Done' = {} /\ Result' = "failed"
    BY <2>2, <2>3 DEF Done, Result, IsInvoke
  <2>5. Fails /\ KeepsValues
    BY <2>3, <2>4 DEF KeepsValues, Fails
  <2> QED BY <1>13, <2>5
<1>8. ASSUME InvokeStep PROVE KeepsValues /\ Mapped
  <2>1. CASE InvokePrepare
    BY <1>13, <2>1, InvokePrepareInfers
  <2>2. CASE InvokeNode
    BY <1>13, <2>2, InvokeNodeInfers
  <2>3. CASE InvokeFinish
    BY <1>13, <2>3, InvokeFinishInfers
  <2> QED BY <1>8, <2>1, <2>2, <2>3 DEF InvokeStep
<1>9. model' = model
  BY DEF Next, vars, ModifyGraph, AllocateAll, ResizeInput, SetBufferHandle, Cancel, BeginInvoke,
         InvokeRefused, InvokeStep, InvokePrepare, InvokeNode, InvokeFinish
<1>10. KeepsValues /\ Mapped
  <2>1. CASE Cancel
    BY <1>5, <2>1 DEF Cancel
  <2>2. CASE UNCHANGED vars
    BY <1>5, <2>2 DEF vars
  <2> QED BY <1>1, <1>2, <1>3, <1>4, <1>6, <1>7, <1>8, <2>1, <2>2 DEF Next
<1>11. InferenceInv'
  BY <1>0, <1>10, BaseNext DEF InferenceInv, KeepsValues
<1>12. [Abstract!Next]_Abstract!vars
  BY <1>9, <1>10, AbstractStep DEF Mapped
<1> QED BY <1>11, <1>12

(* Whatever delegates are applied, undone, redone, refused or removed, and *)
(* wherever an inference fails or is cancelled, Invoke runs every node of  *)
(* the model once and in order, and succeeds only with the outputs of the  *)
(* present inputs.  For clients that set no buffer handles: with them, the *)
(* CPU run of InvokeWithCPUFallback may copy the old buffer of a delegate  *)
(* that was removed over a value it has computed (HandedOver).             *)
THEOREM InvokeImplementsInference ==
    ASSUME \A m \in Models : m.handles = {}
    PROVE  Spec => ImplementsInference
<1>0. NoHandles
  BY DEF NoHandles
<1>1. Init => InferenceInv
  BY InferenceInvInit
<1>2. Init => Abstract!Init
  BY AbstractInit
<1>3. InferenceInv /\ [Next]_vars => InferenceInv'
  BY <1>0, InferenceStep
<1>4. InferenceInv /\ [Next]_vars => [Abstract!Next]_Abstract!vars
  BY <1>0, InferenceStep
<1> QED BY <1>1, <1>2, <1>3, <1>4, PTL DEF Spec, ImplementsInference, Abstract!Spec

-----------------------------------------------------------------------------
(* A model whose nodes are prepared without errors, those of delegates at  *)
(* least if the delegates may be applied without it.                       *)
Firm(m) ==
    \A g \in Elements(m.graphs) :
        /\ "cpu_prepare" \notin g.faults
        /\ "kernel_prepare" \in g.faults =>
              (m.delegates \cup Elements(m.lazy)) \cap AllowsDynamic = {}

(* The delegates that there are, and those that subgraphs have.            *)
Appliers == model.delegates \cup Elements(model.lazy)
AppliedBy(ss) == \A i \in DOMAIN graphs : Elements(ss[i].applied) \subseteq Appliers

(* Of a model with one subgraph, its delegates are those that clients were *)
(* told of.                                                                *)
ToldOf(ss, told) == Len(graphs) = 1 => ss[1].applied = told

(* In a firm model no subgraph whose delegates come from the calls is      *)
(* brittle.                                                                *)
LEMMA FirmFacts ==
    ASSUME model \in Models, Firm(model), NEW i \in DOMAIN graphs
    PROVE  /\ "cpu_prepare" \notin graphs[i].faults
           /\ \A s : Elements(s.applied) \subseteq Appliers => ~Brittle(graphs[i], s)
<1>1. graphs[i] \in Elements(model.graphs)
  BY DEF graphs, Elements
<1>2. /\ "cpu_prepare" \notin graphs[i].faults
      /\ "kernel_prepare" \in graphs[i].faults => Appliers \cap AllowsDynamic = {}
  BY <1>1 DEF Firm, Appliers
<1> QED BY <1>2 DEF Brittle

(* A delegate is applied to all subgraphs, or to none, or is refused.      *)
LEMMA FirmModify ==
    ASSUME model \in Models, Firm(model), NEW ss, AllKnown(ss), AppliedBy(ss), NEW told, ToldOf(ss, told),
           NEW d \in Delegates, d \in Appliers, NEW r, ModifiedAll(ss, d, r)
    PROVE  /\ r.status # "error" /\ AppliedBy(r.sgs)
           /\ ToldOf(r.sgs, AskedAfter(told, r.status, d))
<1>0. 1 \in DOMAIN graphs /\ DOMAIN graphs = 1 .. Len(graphs) /\ Len(graphs) \in Nat
  BY ModelFacts
<1>1. r.status # "error"
  BY FirmFacts DEF ModifiedAll, AppliedBy
<1>2. ASSUME NEW i \in DOMAIN graphs PROVE Elements(Append(ss[i].applied, d)) \subseteq Appliers
  <2> DEFINE a == ss[i].applied
  <2>1. a \in Seq(Delegates) /\ Elements(a) \subseteq Appliers
    BY KnownTyped DEF AllKnown, Subgraphs, DelegateLists, AppliedBy
  <2> HIDE DEF a
  <2>2. Elements(Append(a, d)) \subseteq Appliers
    BY <2>1, ElementsAppend
  <2> QED BY <2>2 DEF a
<1>3. \A i \in DOMAIN graphs : \A q : ModifiedTo(i, ss[i], d, "ok", q) => q.applied = Append(ss[i].applied, d)
  BY DEF ModifiedTo, Modified
<1>4. CASE r.status = "ok"
  <2>1. \A i \in DOMAIN graphs : r.sgs[i].applied = Append(ss[i].applied, d)
    BY <1>3, <1>4 DEF ModifiedAll
  <2>2. AppliedBy(r.sgs)
    BY <1>2, <2>1 DEF AppliedBy
  <2>3. ToldOf(r.sgs, AskedAfter(told, r.status, d))
    BY <1>0, <1>4, <2>1 DEF ToldOf, AskedAfter
  <2> QED BY <1>1, <2>2, <2>3
<1>5. CASE r.status = "delegate_error"
  <2>1. \A i \in DOMAIN graphs : r.sgs[i].applied = <<>>
    BY <1>5 DEF ModifiedAll, Restored
  <2>2. Elements(<<>>) = {}
    BY DEF Elements
  <2>3. AppliedBy(r.sgs)
    BY <2>1, <2>2 DEF AppliedBy
  <2>4. AskedAfter(told, r.status, d) = <<>>
    BY <1>5 DEF AskedAfter
  <2> QED BY <1>0, <1>1, <2>1, <2>3, <2>4 DEF ToldOf
<1>6. CASE r.status = "application_error"
  <2>1. PICK m \in DOMAIN graphs : StoppedAt(ss, d, m, r.status, r.sgs)
    BY <1>6 DEF ModifiedAll
  <2>2. r.sgs[m].applied = ss[m].applied
    BY <1>6, <2>1 DEF StoppedAt, ModifiedTo, Modified
  <2>3. ASSUME NEW i \in DOMAIN graphs PROVE Elements(r.sgs[i].applied) \subseteq Appliers
    <3>1. i \in 1 .. m - 1 \/ i = m \/ i \in m + 1 .. Len(graphs)
      BY <1>0
    <3>2. CASE i \in 1 .. m - 1
      BY <1>2, <1>3, <2>1, <3>2 DEF StoppedAt
    <3>3. CASE i = m
      BY <2>2, <3>3 DEF AppliedBy
    <3>4. CASE i \in m + 1 .. Len(graphs)
      BY <2>1, <3>4 DEF StoppedAt, AppliedBy
    <3> QED BY <3>1, <3>2, <3>3, <3>4
  <2>4. Len(graphs) = 1 => m = 1
    BY <1>0
  <2>5. AskedAfter(told, r.status, d) = told
    BY <1>6 DEF AskedAfter
  <2> QED BY <1>1, <2>2, <2>3, <2>4, <2>5 DEF AppliedBy, ToldOf
<1> QED BY <1>1, <1>4, <1>5, <1>6 DEF ModifiedAll

(* Invoke and the calls that change values leave the delegates alone.      *)
LEMMA FirmSettled ==
    ASSUME Base, AppliedBy(sgs), ToldOf(sgs, asked), NEW q, Settles(G1, H1, Primary, q),
           sgs' = [sgs EXCEPT ![1] = q]
    PROVE  AppliedBy(sgs') /\ ToldOf(sgs', asked)
<1>1. /\ sgs'[1] = q /\ (\A i \in DOMAIN graphs : i # 1 => sgs'[i] = sgs[i])
      /\ Primary = sgs[1]
  BY ValuesEffect DEF ValuesChange, Primary
<1>2. q.applied = sgs[1].applied
  BY <1>1 DEF Settles, SamePlans
<1> QED BY <1>1, <1>2 DEF AppliedBy, ToldOf

(* What is always true of a firm model: no delegate is lost.               *)
FirmInv ==
    /\ Base /\ Firm(model) /\ pc # "crashed"
    /\ AppliedBy(sgs) /\ ToldOf(sgs, asked)
    /\ Elements(lazy) \subseteq Elements(model.lazy)

(* The invariant about delegates holds at the start.                       *)
LEMMA FirmInvInit ==
    ASSUME \A m \in Models : Firm(m), Init
    PROVE  FirmInv
<1>1. Base
  BY BaseInit
<1>2. \A i \in DOMAIN graphs : sgs[i].applied = <<>>
  BY DEF Init, NewSubgraph
<1>3. Elements(<<>>) = {} /\ 1 \in DOMAIN graphs
  BY <1>1, ModelFacts DEF Elements, Base
<1> QED BY <1>1, <1>2, <1>3 DEF FirmInv, Init, AppliedBy, ToldOf

(* The subgraphs that AllocateTensors may come to.                         *)
LEMMA FirmLeadOn ==
    ASSUME FirmInv, NEW J, J = {x \in Anything : AppliedBy(x[1]) /\ ToldOf(x[1], x[2])}
    PROVE  /\ LeadsOn(J) /\ <<sgs, asked>> \in J /\ \A x \in J : AllKnown(x[1])
           /\ \A x \in J, d \in Elements(lazy) : \A q \in ModifyAll(x[1], d) : q.status # "error"
           /\ NoDelegate \notin Elements(lazy)
<1>0. Base /\ model \in Models /\ Firm(model) /\ AppliedBy(sgs) /\ ToldOf(sgs, asked)
  BY DEF FirmInv, Base
<1>1. LeadsOn(Anything) /\ <<sgs, asked>> \in Anything
  BY <1>0, AnythingLeadsOn
<1>2. \A x \in J : AllKnown(x[1]) /\ AppliedBy(x[1]) /\ ToldOf(x[1], x[2]) /\ x \in Anything
  BY DEF Anything
<1>3. \A d \in Elements(lazy) : d \in Delegates /\ d \in Appliers
  <2>1. model.lazy \in Seq(Delegates)
    BY <1>0, ModelFacts
  <2>2. \A d \in Elements(model.lazy) : d \in Delegates
    BY <2>1, ElementOfSeq DEF Elements
  <2> QED BY <2>2 DEF FirmInv, Appliers
<1>4. NoDelegate \notin Elements(lazy)
  BY <1>3, SubgraphAssumption
<1>5. ASSUME NEW x \in J, NEW d \in Elements(lazy), NEW q \in ModifyAll(x[1], d)
      PROVE  <<q.sgs, AskedAfter(x[2], q.status, d)>> \in J /\ q.status # "error"
  <2>1. d \in Delegates /\ d \in Appliers /\ d # NoDelegate
    BY <1>3, <1>4
  <2>2. ModifiedAll(x[1], d, q)
    BY <1>0, <1>2, <2>1, ModifyAllFacts
  <2>3. q.status # "error" /\ AppliedBy(q.sgs) /\ ToldOf(q.sgs, AskedAfter(x[2], q.status, d))
    BY <1>0, <1>2, <2>1, <2>2, FirmModify
  <2>4. <<q.sgs, AskedAfter(x[2], q.status, d)>> \in Anything
    BY <1>1, <1>2, <2>1 DEF LeadsOn
  <2> DEFINE told == AskedAfter(x[2], q.status, d)
  <2> HIDE DEF told
  <2>5. <<q.sgs, told>>[1] = q.sgs /\ <<q.sgs, told>>[2] = told
    OBVIOUS
  <2>6. <<q.sgs, told>> \in Anything /\ ToldOf(q.sgs, told)
    BY <2>3, <2>4 DEF told
  <2>7. <<q.sgs, told>> \in J
    BY <2>3, <2>5, <2>6
  <2> QED BY <2>3, <2>7 DEF told
<1>6. <<sgs, asked>> \in J
  <2>1. <<sgs, asked>>[1] = sgs /\ <<sgs, asked>>[2] = asked
    OBVIOUS
  <2> QED BY <1>0, <1>1, <2>1
<1> QED BY <1>2, <1>4, <1>5, <1>6 DEF LeadsOn

-----------------------------------------------------------------------------
(* AllocateTensors of a firm model.                                        *)
LEMMA FirmAllocate ==
    ASSUME FirmInv, AllocateAll
    PROVE  /\ AppliedBy(sgs') /\ ToldOf(sgs', asked') /\ pc' # "crashed" /\ lazy' = <<>>
<1>0. Base /\ model \in Models /\ Firm(model)
  BY DEF FirmInv, Base
<1> DEFINE J == {x \in Anything : AppliedBy(x[1]) /\ ToldOf(x[1], x[2])}
<1>1. /\ LeadsOn(J) /\ <<sgs, asked>> \in J /\ \A x \in J : AllKnown(x[1])
      /\ \A x \in J, d \in Elements(lazy) : \A q \in ModifyAll(x[1], d) : q.status # "error"
      /\ NoDelegate \notin Elements(lazy)
  BY FirmLeadOn
<1>2. \A x \in J : AppliedBy(x[1]) /\ ToldOf(x[1], x[2])
  OBVIOUS
<1> HIDE DEF J
<1>3. PICK r, o : /\ Tried(J, r) /\ AllKnown(r.sgs) /\ lazy' = r.lazy
                  /\ IF r.status = "ok" THEN Allocated(G1, H1, r.sgs[1], o)
                                        ELSE o.status = r.status /\ o.sg = r.sgs[1]
                  /\ sgs'[1] = o.sg
                  /\ \A i \in DOMAIN graphs : i # 1 => sgs'[i] = r.sgs[i]
                  /\ pc' = IF o.status = "crash" THEN "crashed" ELSE "idle"
                  /\ asked' = IF o.status = "delegate_error" THEN <<>> ELSE r.asked
  BY <1>0, <1>1, AllocateAllEffect
<1>4. r.status = "ok" /\ r.lazy = <<>>
  BY <1>1, <1>3 DEF Tried
<1>5. Allocated(G1, H1, r.sgs[1], o)
  BY <1>3, <1>4
<1>6. AppliedBy(r.sgs) /\ ToldOf(r.sgs, r.asked)
  <2> DEFINE x == <<r.sgs, r.asked>>
  <2>1. x \in J /\ x[1] = r.sgs /\ x[2] = r.asked
    BY <1>3 DEF Tried
  <2> HIDE DEF x
  <2> QED BY <1>2, <2>1
<1>7. 1 \in DOMAIN graphs /\ G1 = graphs[1]
  BY <1>0, ModelFacts
<1>8. ~Brittle(G1, r.sgs[1])
  BY <1>0, <1>6, <1>7, FirmFacts DEF AppliedBy
<1>9. \/ o.status = "ok" /\ o.sg.applied = r.sgs[1].applied
      \/ o.status = "delegate_error" /\ o.sg.applied = <<>>
  BY <1>5, <1>8 DEF Allocated, Restored
<1>10. pc' = "idle"
  BY <1>3, <1>9
<1>11. Elements(<<>>) = {}
  BY DEF Elements
<1>12. AppliedBy(sgs') /\ ToldOf(sgs', asked')
  <2>1. CASE o.status = "ok" /\ o.sg.applied = r.sgs[1].applied
    BY <1>3, <1>6, <2>1 DEF AppliedBy, ToldOf
  <2>2. CASE o.status = "delegate_error" /\ o.sg.applied = <<>>
    BY <1>3, <1>6, <1>11, <2>2 DEF AppliedBy, ToldOf
  <2> QED BY <1>9, <2>1, <2>2
<1> QED BY <1>3, <1>4, <1>10, <1>12

(* The end of Invoke: with a fallback there are no delegates any more.     *)
LEMMA FirmEndInvoke ==
    ASSUME FirmInv, Busy, NEW s, Settles(G1, H1, Primary, s), Known(G1, H1, s),
           NEW status \in {"ok", "error"}, EndInvoke(s, status)
    PROVE  /\ AppliedBy(sgs') /\ ToldOf(sgs', asked') /\ pc' # "crashed"
           /\ \/ sgs' = [sgs EXCEPT ![1] = s]
              \/ \A i \in DOMAIN graphs : Restored(graphs[i], sgs'[i]) /\ sgs'[i].state = "invokable"
<1>0. Base /\ model \in Models /\ Firm(model) /\ AppliedBy(sgs) /\ ToldOf(sgs, asked) /\ 1 \in DOMAIN graphs
  BY ModelFacts DEF FirmInv, Base
<1>1. CASE ReturnsAs(s, status)
  <2>1. sgs' = [sgs EXCEPT ![1] = s] /\ asked' = asked /\ pc' = "idle"
    BY <1>1 DEF ReturnsAs, Leaves
  <2> QED BY <1>0, <2>1, FirmSettled
<1>2. ASSUME NEW r, FallsBack(s, r)
      PROVE  /\ AppliedBy(sgs') /\ ToldOf(sgs', asked') /\ pc' # "crashed"
             /\ \A i \in DOMAIN graphs : Restored(graphs[i], sgs'[i]) /\ sgs'[i].state = "invokable"
  <2>1. r.status = "ok"
    BY <1>0, <1>2, FirmFacts DEF FallsBack, RemovedAll
  <2>2. pc' = "invoke" /\ asked' = <<>>
    BY <1>2, <2>1 DEF FallsBack
  <2>3. \A i \in DOMAIN graphs : Restored(graphs[i], sgs'[i]) /\ sgs'[i].state = "invokable"
    BY <1>0, <1>2, <2>1, RetryFacts
  <2>4. Elements(<<>>) = {} /\ \A i \in DOMAIN graphs : sgs'[i].applied = <<>>
    BY <2>3 DEF Elements, Restored
  <2> QED BY <1>0, <2>2, <2>3, <2>4 DEF AppliedBy, ToldOf
<1> QED BY <1>0, <1>1, <1>2, EndInvokeFacts

(* Every step keeps the invariant about delegates.                         *)
LEMMA FirmInvNext ==
    ASSUME FirmInv, [Next]_vars
    PROVE  FirmInv'
<1>0. /\ Base /\ model \in Models /\ Firm(model) /\ AppliedBy(sgs) /\ ToldOf(sgs, asked)
      /\ pc # "crashed" /\ Elements(lazy) \subseteq Elements(model.lazy)
  BY DEF FirmInv, Base
<1> DEFINE Kept == AppliedBy(sgs') /\ ToldOf(sgs', asked') /\ pc' # "crashed" /\ (lazy' = lazy \/ lazy' = <<>>)
<1>1. ASSUME NEW d, ModifyGraph(d) PROVE Kept
  <2>1. PICK r : /\ ModifiedAll(sgs, d, r) /\ sgs' = r.sgs
                 /\ asked' = AskedAfter(asked, r.status, d)
    BY <1>0, <1>1, ModifyGraphEffect
  <2>2. d \in Delegates /\ d \in Appliers /\ pc' = "idle" /\ lazy' = lazy
    BY <1>0, <1>1, ModifyGraphEffect DEF Appliers, ModifyGraph
  <2>3. AppliedBy(r.sgs) /\ ToldOf(r.sgs, AskedAfter(asked, r.status, d))
    BY <1>0, <2>1, <2>2, FirmModify DEF Base
  <2> QED BY <2>1, <2>2, <2>3
<1>2. ASSUME AllocateAll PROVE Kept
  BY <1>2, FirmAllocate
<1>3. ASSUME ResizeInput PROVE Kept
  <2>1. PICK q : /\ sgs'[1] = q /\ (\A i \in DOMAIN graphs : i # 1 => sgs'[i] = sgs[i])
                 /\ q.applied = Primary.applied
    BY <1>0, <1>3, ResizeInputEffect
  <2>2. asked' = asked /\ pc' = "idle" /\ lazy' = lazy
    BY <1>3 DEF ResizeInput
  <2> QED BY <1>0, <2>1, <2>2 DEF AppliedBy, ToldOf, Primary
<1>4. ASSUME NEW t \in model.handles, SetBufferHandle(t) PROVE Kept
  <2>1. PICK q : Settles(G1, H1, Primary, q) /\ sgs' = [sgs EXCEPT ![1] = q]
    BY <1>0, <1>4, SetBufferHandleEffect DEF ValuesChange
  <2>2. asked' = asked /\ pc' = "idle" /\ lazy' = lazy
    BY <1>4 DEF SetBufferHandle
  <2> QED BY <1>0, <2>1, <2>2, FirmSettled
<1>5. ASSUME UNCHANGED <<model, sgs, pc, lazy, asked>> PROVE Kept
  BY <1>0, <1>5 DEF AppliedBy, ToldOf
<1>6. ASSUME NEW which, BeginInvoke(which) PROVE Kept
  <2>1. PICK q : Settles(G1, H1, Primary, q) /\ sgs' = [sgs EXCEPT ![1] = q]
    BY <1>0, <1>6, BeginInvokeEffect DEF ValuesChange
  <2>2. asked' = asked /\ pc' = "invoke" /\ lazy' = lazy
    BY <1>6 DEF BeginInvoke
  <2> QED BY <1>0, <2>1, <2>2, FirmSettled
<1>7. ASSUME InvokeStep PROVE Kept
  <2>1. Busy /\ lazy' = lazy
    BY <1>0, <1>7, InvokeStepEffect
  <2>2. PICK q : /\ Settles(G1, H1, Primary, q) /\ Known(G1, H1, q)
                 /\ \/ ValuesChange(q) /\ asked' = asked
                    \/ \E status \in {"ok", "error"} : EndInvoke(q, status)
    BY <1>0, <1>7, InvokeStepEffect
  <2>3. CASE ValuesChange(q) /\ asked' = asked
    <3>1. pc' \in {"idle", "invoke", "run"}
      BY <1>7 DEF InvokeStep, InvokePrepare, InvokeNode, InvokeFinish, EndInvoke
    <3>2. AppliedBy(sgs') /\ ToldOf(sgs', asked)
      BY <1>0, <2>3, FirmSettled DEF ValuesChange
    <3> QED BY <2>1, <2>3, <3>1, <3>2
  <2>4. CASE \E status \in {"ok", "error"} : EndInvoke(q, status)
    BY <2>1, <2>2, <2>4, FirmEndInvoke
  <2> QED BY <2>2, <2>3, <2>4
<1>8. Kept
  <2>1. CASE Cancel
    BY <1>5, <2>1 DEF Cancel
  <2>2. CASE InvokeRefused
    BY <1>5, <2>2 DEF InvokeRefused
  <2>3. CASE UNCHANGED vars
    BY <1>5, <2>3 DEF vars
  <2> HIDE DEF Kept
  <2> QED BY <1>1, <1>2, <1>3, <1>4, <1>6, <1>7, <2>1, <2>2, <2>3 DEF Next
<1>9. model' = model
  BY DEF Next, vars, ModifyGraph, AllocateAll, ResizeInput, SetBufferHandle, Cancel, BeginInvoke,
         InvokeRefused, InvokeStep, InvokePrepare, InvokeNode, InvokeFinish
<1>10. Base'
  BY <1>0, BaseNext
<1>11. Elements(lazy') \subseteq Elements(model.lazy)
  <2>1. Elements(<<>>) = {}
    BY DEF Elements
  <2> QED BY <1>0, <1>8, <2>1
<1>12. AppliedBy(sgs)' /\ ToldOf(sgs, asked)' /\ Elements(lazy)' \subseteq Elements(model.lazy)'
  BY <1>8, <1>9, <1>11 DEF AppliedBy, ToldOf, Appliers, graphs
<1>13. Firm(model)'
  BY <1>0, <1>9
<1> QED BY <1>8, <1>10, <1>12, <1>13 DEF FirmInv

(* "This re-applies all delegates that were undone" (subgraph.h): when     *)
(* AllocateTensors succeeds, the delegates of a model with one subgraph    *)
(* are those that the client was told of.  Where preparing a node may      *)
(* fail, RedoAllDelegates stops half way and forgets the rest.             *)
THEOREM DelegatesAreKept ==
    ASSUME \A m \in Models : Firm(m)
    PROVE  Spec => []DelegatesKept
<1>1. Init => FirmInv
  BY FirmInvInit
<1>2. FirmInv /\ [Next]_vars => FirmInv'
  BY FirmInvNext
<1>3. FirmInv => DelegatesKept
  <2> SUFFICES ASSUME FirmInv, Len(sgs) = 1
               PROVE  Primary.applied = asked
    BY DEF DelegatesKept
  <2>1. Len(sgs) = Len(graphs)
    BY ListFacts DEF FirmInv, Base, AllKnown
  <2> QED BY <2>1 DEF FirmInv, ToldOf, Primary
<1> QED BY <1>1, <1>2, <1>3, PTL DEF Spec

(* AllocateTensors does not come upon a lazy delegate that it has moved    *)
(* out of its list (interpreter.cc:195): only an error leaves one there.   *)
THEOREM NoLazyDelegateIsNull ==
    ASSUME \A m \in Models : Firm(m)
    PROVE  Spec => [](pc # "crashed" /\ NoDelegate \notin Elements(lazy))
<1>1. Init => FirmInv
  BY FirmInvInit
<1>2. FirmInv /\ [Next]_vars => FirmInv'
  BY FirmInvNext
<1>3. FirmInv => pc # "crashed" /\ NoDelegate \notin Elements(lazy)
  BY FirmLeadOn DEF FirmInv
<1> QED BY <1>1, <1>2, <1>3, PTL DEF Spec

-----------------------------------------------------------------------------
(* A firm model whose clients apply delegates that allow dynamic tensors   *)
(* only before memory is planned or while the graph may be invoked: none   *)
(* of them waits for AllocateTensors.                                      *)
Calm(m) == Firm(m) /\ ~m.late /\ Elements(m.lazy) \cap AllowsDynamic = {}

(* Memory is planned for the plan that there is, or delegates are to be    *)
(* re-applied first.  Subgraphs other than the primary one are not resized,*)
(* and are planned when they can be invoked.                               *)
SettledAt(i, s) ==
    /\ s.undone \/ Planned(s)
    /\ i # 1 => ~s.undone /\ (s.planner # <<>> => s.state # "uninvokable")

SettledAll(ss) == \A i \in DOMAIN graphs : SettledAt(i, ss[i])

CalmInv == FirmInv /\ SettledAll(sgs)

(* A delegate leaves a settled subgraph settled.                           *)
LEMMA CalmModified ==
    ASSUME NEW i, NEW s, SettledAt(i, s), NEW d, d \notin AllowsDynamic \/ s.planner = <<>> \/ s.state # "uninvokable",
           NEW st, st # "error", NEW q, ModifiedTo(i, s, d, st, q)
    PROVE  SettledAt(i, q)
<1>1. PICK o : Modified(graphs[i], HandlesOf(i), s, d, o) /\ o.status = st /\ q = o.sg
  BY DEF ModifiedTo
<1>2. Planned(q) /\ ~q.undone
  BY <1>1 DEF Modified, SettledAt
<1>3. ASSUME i # 1, q.planner # <<>>, q.state = "uninvokable" PROVE FALSE
  <2>1. st = "ok"
    BY <1>1, <1>3 DEF Modified
  <2>2. d \in AllowsDynamic /\ q.planner = s.planner /\ q.state = s.state
    BY <1>1, <1>3, <2>1 DEF Modified
  <2> QED BY <1>3, <2>2 DEF SettledAt
<1> QED BY <1>2, <1>3 DEF SettledAt

(* A subgraph whose delegates are removed is settled.                      *)
LEMMA RestoredSettled ==
    ASSUME NEW i, NEW g, NEW s, Restored(g, s), s.state = "invokable"
    PROVE  SettledAt(i, s)
  BY RestoredPlanned DEF SettledAt

(* A delegate that subgraphs are asked to apply.                           *)
LEMMA CalmModify ==
    ASSUME model \in Models, NEW ss, SettledAll(ss), NEW d, NEW r, ModifiedAll(ss, d, r), r.status # "error",
           d \notin AllowsDynamic \/ ss[1].planner = <<>> \/ ss[1].state # "uninvokable"
    PROVE  SettledAll(r.sgs)
<1>0. 1 \in DOMAIN graphs /\ DOMAIN graphs = 1 .. Len(graphs) /\ Len(graphs) \in Nat
  BY ModelFacts
<1>1. ASSUME NEW i \in DOMAIN graphs, NEW st, st # "error", ModifiedTo(i, ss[i], d, st, r.sgs[i])
      PROVE  SettledAt(i, r.sgs[i])
  <2>1. SettledAt(i, ss[i])
    BY DEF SettledAll
  <2>2. d \notin AllowsDynamic \/ ss[i].planner = <<>> \/ ss[i].state # "uninvokable"
    BY <2>1 DEF SettledAt
  <2> QED BY <1>1, <2>1, <2>2, CalmModified
<1>2. CASE r.status = "ok"
  <2> DEFINE st == "ok"
  <2>1. st # "error" /\ \A i \in DOMAIN graphs : ModifiedTo(i, ss[i], d, st, r.sgs[i])
    BY <1>2 DEF ModifiedAll
  <2> HIDE DEF st
  <2> QED BY <1>1, <2>1 DEF SettledAll
<1>3. CASE r.status = "delegate_error"
  <2>1. \A i \in DOMAIN graphs : Restored(graphs[i], r.sgs[i]) /\ r.sgs[i].state = "invokable"
    BY <1>3 DEF ModifiedAll
  <2> QED BY <2>1, RestoredSettled DEF SettledAll
<1>4. CASE r.status = "application_error"
  <2>1. PICK m \in DOMAIN graphs : StoppedAt(ss, d, m, r.status, r.sgs)
    BY <1>4 DEF ModifiedAll
  <2>2. ASSUME NEW i \in DOMAIN graphs PROVE SettledAt(i, r.sgs[i])
    <3>1. i \in 1 .. m - 1 \/ i = m \/ i \in m + 1 .. Len(graphs)
      BY <1>0
    <3>2. CASE i \in 1 .. m - 1
      <4> DEFINE st == "ok"
      <4>1. st # "error" /\ ModifiedTo(i, ss[i], d, st, r.sgs[i])
        BY <2>1, <3>2 DEF StoppedAt
      <4> HIDE DEF st
      <4> QED BY <1>1, <4>1
    <3>3. CASE i = m
      BY <1>1, <2>1, <3>3 DEF StoppedAt
    <3>4. CASE i \in m + 1 .. Len(graphs)
      BY <2>1, <3>4 DEF StoppedAt, SettledAll
    <3> QED BY <3>1, <3>2, <3>3, <3>4
  <2> QED BY <2>2 DEF SettledAll
<1> QED BY <1>2, <1>3, <1>4 DEF ModifiedAll

(* AllocateTensors, and the lazy delegates before it.                      *)
LEMMA CalmAllocate ==
    ASSUME CalmInv, Calm(model), AllocateAll
    PROVE  SettledAll(sgs')
<1>0. Base /\ model \in Models /\ Firm(model) /\ FirmInv
  BY DEF CalmInv, FirmInv, Base
<1> DEFINE JF == {x \in Anything : AppliedBy(x[1]) /\ ToldOf(x[1], x[2])}
           J == {x \in JF : SettledAll(x[1])}
<1>1. /\ LeadsOn(JF) /\ <<sgs, asked>> \in JF /\ \A x \in JF : AllKnown(x[1])
      /\ \A x \in JF, d \in Elements(lazy) : \A q \in ModifyAll(x[1], d) : q.status # "error"
      /\ NoDelegate \notin Elements(lazy)
  BY <1>0, FirmLeadOn
<1>2. \A x \in JF : AppliedBy(x[1])
  OBVIOUS
<1> HIDE DEF JF
<1>3. \A x \in J : SettledAll(x[1]) /\ x \in JF
  OBVIOUS
<1>4. <<sgs, asked>> \in J
  <2>1. <<sgs, asked>>[1] = sgs
    OBVIOUS
  <2> QED BY <1>1, <2>1 DEF CalmInv
<1>5. ASSUME NEW x \in J, NEW d \in Elements(lazy) \ {NoDelegate}, NEW q \in ModifyAll(x[1], d)
      PROVE  <<q.sgs, AskedAfter(x[2], q.status, d)>> \in J
  <2>1. <<q.sgs, AskedAfter(x[2], q.status, d)>> \in JF /\ q.status # "error" /\ AllKnown(x[1])
    BY <1>1, <1>3 DEF LeadsOn
  <2>2. d \in Delegates /\ d \notin AllowsDynamic
    <3>1. d \in Elements(model.lazy)
      BY <1>0 DEF FirmInv
    <3>2. model.lazy \in Seq(Delegates)
      BY <1>0, ModelFacts
    <3>3. d \in Delegates
      BY <3>1, <3>2, ElementOfSeq DEF Elements
    <3> QED BY <3>1, <3>3 DEF Calm
  <2>3. SettledAll(q.sgs)
    BY <1>0, <1>3, <2>1, <2>2, ModifyAllFacts, CalmModify
  <2> DEFINE told == AskedAfter(x[2], q.status, d)
  <2> HIDE DEF told
  <2>4. <<q.sgs, told>>[1] = q.sgs /\ <<q.sgs, told>> \in JF
    BY <2>1 DEF told
  <2>5. <<q.sgs, told>> \in J
    BY <2>3, <2>4
  <2> QED BY <2>5 DEF told
<1>6. LeadsOn(J) /\ \A x \in J : AllKnown(x[1])
  BY <1>1, <1>3, <1>5 DEF LeadsOn
<1> HIDE DEF J
<1>7. PICK r, o : /\ Tried(J, r) /\ AllKnown(r.sgs) /\ lazy' = r.lazy
                  /\ IF r.status = "ok" THEN Allocated(G1, H1, r.sgs[1], o)
                                        ELSE o.status = r.status /\ o.sg = r.sgs[1]
                  /\ sgs'[1] = o.sg
                  /\ \A i \in DOMAIN graphs : i # 1 => sgs'[i] = r.sgs[i]
  BY <1>0, <1>4, <1>6, AllocateAllEffect
<1>8. r.status = "ok"
  BY <1>1, <1>3, <1>7 DEF Tried
<1>9. SettledAll(r.sgs) /\ AppliedBy(r.sgs)
  <2> DEFINE x == <<r.sgs, r.asked>>
  <2>1. x \in J /\ x[1] = r.sgs
    BY <1>7 DEF Tried
  <2> HIDE DEF x
  <2> QED BY <1>2, <1>3, <2>1
<1>10. 1 \in DOMAIN graphs /\ G1 = graphs[1]
  BY <1>0, ModelFacts
<1>11. ~Brittle(G1, r.sgs[1]) /\ SettledAt(1, r.sgs[1])
  BY <1>0, <1>9, <1>10, FirmFacts DEF AppliedBy, SettledAll
<1>12. Planned(o.sg)
  BY <1>7, <1>8, <1>11 DEF Allocated, SettledAt
<1> QED BY <1>7, <1>9, <1>12 DEF SettledAll, SettledAt

(* Values of tensors do not matter.                                        *)
LEMMA CalmSettles ==
    ASSUME Base, SettledAll(sgs), NEW q, Settles(G1, H1, Primary, q), sgs' = [sgs EXCEPT ![1] = q]
    PROVE  SettledAll(sgs')
<1>1. /\ sgs'[1] = q /\ (\A i \in DOMAIN graphs : i # 1 => sgs'[i] = sgs[i])
      /\ Primary = sgs[1]
  BY ValuesEffect DEF ValuesChange, Primary
<1>2. SamePlans(sgs[1], q)
  BY <1>1 DEF Settles
<1>3. SettledAt(1, sgs[1]) => SettledAt(1, q)
  BY <1>2 DEF SettledAt, SamePlans, Planned
<1> QED BY <1>1, <1>3 DEF SettledAll

(* Every step keeps the subgraphs settled.                                 *)
LEMMA CalmInvNext ==
    ASSUME CalmInv, Calm(model), [Next]_vars
    PROVE  CalmInv'
<1>0. Base /\ model \in Models /\ Firm(model) /\ FirmInv /\ SettledAll(sgs) /\ 1 \in DOMAIN graphs
  BY ModelFacts DEF CalmInv, FirmInv, Base
<1>1. ASSUME NEW d, ModifyGraph(d) PROVE SettledAll(sgs')
  <2>1. PICK r : ModifiedAll(sgs, d, r) /\ sgs' = r.sgs
    BY <1>0, <1>1, ModifyGraphEffect
  <2>2. d \in Delegates /\ d \in Appliers
    BY <1>0, <1>1, ModifyGraphEffect DEF Appliers
  <2>3. r.status # "error"
    BY <1>0, <2>1, <2>2, FirmModify DEF Base, FirmInv
  <2>4. d \notin AllowsDynamic \/ sgs[1].planner = <<>> \/ sgs[1].state # "uninvokable"
    BY <1>1 DEF ModifyGraph, Calm, Primary
  <2> QED BY <1>0, <2>1, <2>3, <2>4, CalmModify
<1>2. ASSUME ResizeInput PROVE SettledAll(sgs')
  <2>1. PICK q : /\ sgs'[1] = q /\ (\A i \in DOMAIN graphs : i # 1 => sgs'[i] = sgs[i])
                 /\ Planned(Primary) \/ Primary.undone => Planned(q) \/ q.undone
    BY <1>0, <1>2, ResizeInputEffect
  <2> QED BY <1>0, <2>1 DEF SettledAll, SettledAt, Primary
<1>3. ASSUME NEW t \in model.handles, SetBufferHandle(t) PROVE SettledAll(sgs')
  <2>1. PICK q : Settles(G1, H1, Primary, q) /\ sgs' = [sgs EXCEPT ![1] = q]
    BY <1>0, <1>3, SetBufferHandleEffect DEF ValuesChange
  <2> QED BY <1>0, <2>1, CalmSettles
<1>4. ASSUME NEW which, BeginInvoke(which) PROVE SettledAll(sgs')
  <2>1. PICK q : Settles(G1, H1, Primary, q) /\ sgs' = [sgs EXCEPT ![1] = q]
    BY <1>0, <1>4, BeginInvokeEffect DEF ValuesChange
  <2> QED BY <1>0, <2>1, CalmSettles
<1>5. ASSUME InvokeStep PROVE SettledAll(sgs')
  <2>1. Busy
    BY <1>0, <1>5, InvokeStepEffect
  <2>2. PICK q : /\ Settles(G1, H1, Primary, q) /\ Known(G1, H1, q)
                 /\ ValuesChange(q) \/ \E status \in {"ok", "error"} : EndInvoke(q, status)
    BY <1>0, <1>5, InvokeStepEffect
  <2>3. \/ sgs' = [sgs EXCEPT ![1] = q]
        \/ \A i \in DOMAIN graphs : Restored(graphs[i], sgs'[i]) /\ sgs'[i].state = "invokable"
    BY <1>0, <2>1, <2>2, FirmEndInvoke DEF ValuesChange
  <2> QED BY <1>0, <2>2, <2>3, CalmSettles, RestoredSettled DEF SettledAll
<1>6. ASSUME sgs' = sgs PROVE SettledAll(sgs')
  BY <1>0, <1>6
<1>7. SettledAll(sgs')
  <2>1. CASE Cancel
    BY <1>6, <2>1 DEF Cancel
  <2>2. CASE InvokeRefused
    BY <1>6, <2>2 DEF InvokeRefused
  <2>3. CASE UNCHANGED vars
    BY <1>6, <2>3 DEF vars
  <2>4. CASE AllocateAll
    BY <2>4, CalmAllocate
  <2> QED BY <1>1, <1>2, <1>3, <1>4, <1>5, <2>1, <2>2, <2>3, <2>4 DEF Next
<1>8. model' = model
  BY DEF Next, vars, ModifyGraph, AllocateAll, ResizeInput, SetBufferHandle, Cancel, BeginInvoke,
         InvokeRefused, InvokeStep, InvokePrepare, InvokeNode, InvokeFinish
<1>9. FirmInv'
  BY <1>0, FirmInvNext
<1>10. SettledAll(sgs)'
  BY <1>7, <1>8 DEF SettledAll, graphs
<1> QED BY <1>9, <1>10 DEF CalmInv

(* A graph that may be invoked has memory planned for the execution plan   *)
(* that it has, not for one of before a delegate came or went              *)
(* (ExecuteAllocations of memory_planner.h).  The planner is made once, so *)
(* a delegate that allows dynamic tensors and comes while memory was       *)
(* planned before and the graph is not invokable breaks this.              *)
THEOREM InvokablesArePlanned ==
    ASSUME \A m \in Models : Calm(m)
    PROVE  Spec => []InvokableIsPlanned
<1>0. \A m \in Models : Firm(m)
  BY DEF Calm
<1>1. Init => CalmInv
  <2> SUFFICES ASSUME Init PROVE CalmInv
    OBVIOUS
  <2>1. FirmInv
    BY <1>0, FirmInvInit
  <2>2. \A i \in DOMAIN graphs : sgs[i].planner = <<>> /\ ~sgs[i].undone
    BY DEF Init, NewSubgraph
  <2> QED BY <2>1, <2>2 DEF CalmInv, SettledAll, SettledAt, Planned
<1>2. CalmInv /\ [Next]_vars => CalmInv'
  BY CalmInvNext DEF CalmInv, FirmInv, Base
<1>3. CalmInv => InvokableIsPlanned
  <2> SUFFICES ASSUME CalmInv, NEW i \in DOMAIN sgs, sgs[i].state # "uninvokable"
               PROVE  sgs[i].planner = <<sgs[i].plan>>
    BY DEF InvokableIsPlanned
  <2>1. i \in DOMAIN graphs
    BY ListFacts DEF CalmInv, FirmInv, Base, AllKnown
  <2>2. Sound(graphs[i], HandlesOf(i), sgs[i])
    BY <2>1 DEF CalmInv, FirmInv, Base, AllKnown, Known
  <2>3. sgs[i].planner # <<>> /\ ~sgs[i].undone
    BY <2>2 DEF Sound, AppliedOrder
  <2> QED BY <2>1, <2>3 DEF CalmInv, SettledAll, SettledAt, Planned
<1> QED BY <1>1, <1>2, <1>3, PTL DEF Spec

-----------------------------------------------------------------------------
(* RunsPrepared: Invoke comes to no node whose preparation is not for the  *)
(* shapes of now, whatever was delegated, undone, resized or removed       *)
(* before, and whatever sizes dynamic outputs turn out to have.            *)
THEOREM RunsArePrepared ==
    ASSUME \A m \in Models : Regular(m.graphs[1])
    PROVE  Spec => []RunsPrepared
<1>1. Base => RunsPrepared
  <2> SUFFICES ASSUME Base, pc = "run" PROVE Primary.plan[index] \in Primary.ready
    BY DEF RunsPrepared
  <2>1. Regular(G1)
    BY DEF Base, G1, graphs
  <2>2. Known(G1, H1, Primary) /\ Sound(G1, H1, Primary) /\ Primary.next_to_prepare \in Nat
    BY PrimaryFacts, SoundFacts DEF Known, Sound
  <2>3. Primary.state # "uninvokable" /\ index \in 1 .. Primary.next_to_prepare - 1
    <3>1. index \in 1 .. Len(Primary.plan) + 1 /\ index < Primary.next_to_prepare /\ Primary.state # "uninvokable"
      BY <2>1 DEF Base, Busy
    <3> QED BY <2>2, <3>1, PrimaryFacts
  <2>4. PreparedTo(G1, Primary, Primary.next_to_prepare)
    BY <2>1, <2>2, <2>3 DEF Known, Fit, PreparedFar
  <2> QED BY <2>3, <2>4 DEF PreparedTo, PreparedNode
<1> QED BY <1>1, BaseAlways, PTL
=============================================================================
