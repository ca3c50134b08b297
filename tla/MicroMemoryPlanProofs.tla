------------------------- MODULE MicroMemoryPlanProofs -------------------------
(***************************************************************************)
(* Proofs about MicroMemoryPlan, for every model, alignment and number of  *)
(* buffers: the lifetimes that AllocationInfoBuilder finds cover the uses  *)
(* of each tensor, the planner is used by its operations only, and so no   *)
(* operator overwrites what it or a later one still reads.                 *)
(***************************************************************************)
EXTENDS MicroMemoryPlan, OpsProofs

-----------------------------------------------------------------------------
(* Lifetimes.  The loop over the operators has visited k of them, the last *)
(* ones of the plan, when it knows of the lifetime l what Visited says.    *)
Lifetime(g) == [tensor : Tensors(g), first_created : Nat \cup {-1},
                last_used : Nat \cup {-1}, needs_allocating : BOOLEAN]

InputOf(g, t, i)  == t \in g.ops[i + 1].inputs
OutputOf(g, t, i) == t \in g.ops[i + 1].outputs

Visited(g, k, l) ==
    LET n == Len(g.ops)
    IN  /\ l.needs_allocating = (l.tensor \notin g.preset \cup g.variables)
        /\ l.tensor \in g.inputs => l.first_created = 0
        /\ l.tensor \in g.outputs => l.last_used >= n - 1
        /\ \A i \in n - k .. n - 1 : InputOf(g, l.tensor, i) => l.last_used >= i
        /\ l.last_used # -1 =>
              l.tensor \in g.outputs \/ \E i \in n - k .. n - 1 : InputOf(g, l.tensor, i)
        /\ \A i \in n - k .. n - 1 : OutputOf(g, l.tensor, i) => l.first_created \in 0 .. i
        /\ l.tensor \in OperatorOnly(g) =>
              /\ \A i \in n - k .. n - 1 : InputOf(g, l.tensor, i) => l.first_created = i
              /\ (\A i \in n - k .. n - 1 : ~InputOf(g, l.tensor, i)) => l.first_created = -1

(* What IsModel says of the operators.                                     *)
LEMMA ModelFacts ==
    ASSUME NEW g, IsModel(g)
    PROVE  /\ Len(g.ops) \in Nat /\ Len(g.bytes) \in Nat /\ Len(g.scratch) \in Nat
           /\ \A i \in 0 .. Len(g.ops) - 1 :
                 /\ g.ops[i + 1].inputs \subseteq Tensors(g)
                 /\ g.ops[i + 1].outputs \subseteq Tensors(g)
           /\ \A t \in Tensors(g) : g.bytes[t] \in Nat
           /\ \A s \in 1 .. Len(g.scratch) :
                 g.scratch[s].node \in 0 .. Len(g.ops) - 1 /\ g.scratch[s].bytes \in Nat
           /\ \A t \in OperatorOnly(g), i, j \in 0 .. Len(g.ops) - 1 :
                 InputOf(g, t, i) =>
                    /\ \E u \in g.inputs : InputOf(g, u, i)
                    /\ InputOf(g, t, j) => i = j
                    /\ ~OutputOf(g, t, j)
           /\ \A t \in OperatorOnly(g) : t \notin g.inputs \cup g.preset \cup g.variables
<1> DEFINE n == Len(g.ops)
           Op == [inputs : SUBSET Tensors(g), outputs : SUBSET Tensors(g)]
           Request1 == [node : 0 .. n - 1, bytes : Nat]
<1>1. g.ops \in Seq(Op) /\ g.scratch \in Seq(Request1)
  BY DEF IsModel
<1> HIDE DEF Op, Request1
<1>2. n \in Nat /\ \A k \in 1 .. n : /\ g.ops[k].inputs \subseteq Tensors(g)
                                     /\ g.ops[k].outputs \subseteq Tensors(g)
  <2>1. n \in Nat /\ \A k \in 1 .. n : g.ops[k] \in Op
    BY <1>1, LenProperties
  <2> QED BY <2>1 DEF Op
<1>3. Len(g.bytes) \in Nat /\ \A t \in Tensors(g) : g.bytes[t] \in Nat
  BY DEF IsModel, Tensors
<1>4. /\ Len(g.scratch) \in Nat
      /\ \A s \in 1 .. Len(g.scratch) : g.scratch[s].node \in 0 .. n - 1 /\ g.scratch[s].bytes \in Nat
  <2>1. Len(g.scratch) \in Nat /\ \A s \in 1 .. Len(g.scratch) : g.scratch[s] \in Request1
    BY <1>1, LenProperties
  <2> QED BY <2>1 DEF Request1
<1>5. \A i \in 0 .. n - 1 : i + 1 \in 1 .. n
  BY <1>2
<1>6. ASSUME NEW t \in OperatorOnly(g), NEW i \in 0 .. n - 1, NEW j \in 0 .. n - 1,
             InputOf(g, t, i)
      PROVE  /\ \E u \in g.inputs : InputOf(g, u, i)
             /\ InputOf(g, t, j) => i = j
             /\ ~OutputOf(g, t, j)
  <2>1. i + 1 \in 1 .. n /\ j + 1 \in 1 .. n
    BY <1>5
  <2>2. /\ g.ops[i + 1].inputs \cap g.inputs # {}
        /\ \A m \in (1 .. n) \ {i + 1} : t \notin g.ops[m].inputs
    BY <1>6, <2>1 DEF IsModel, InputOf
  <2>3. InputOf(g, t, j) => j + 1 = i + 1
    BY <2>1, <2>2 DEF InputOf
  <2>4. t \notin g.ops[j + 1].outputs
    BY <2>1 DEF OperatorOnly
  <2> QED BY <2>2, <2>3, <2>4 DEF InputOf, OutputOf
<1>7. \A t \in OperatorOnly(g) : t \notin g.inputs \cup g.preset \cup g.variables
  BY DEF OperatorOnly
<1> QED BY <1>2, <1>3, <1>4, <1>5, <1>6, <1>7

(* A visit of operator i, the k-th visit, of the lifetime l.               *)
LEMMA VisitOfLifetime ==
    ASSUME NEW g, IsModel(g), NEW k \in 1 .. Len(g.ops), NEW i, i = Len(g.ops) - k,
           NEW l \in Lifetime(g), Visited(g, k - 1, l), NEW starts \in BOOLEAN,
           l.tensor \in OperatorOnly(g) /\ InputOf(g, l.tensor, i) => starts
    PROVE  LET m == WrittenBy(g.ops[i + 1], i, ReadBy(g.ops[i + 1], i, starts, l))
           IN  m \in Lifetime(g) /\ m.tensor = l.tensor /\ Visited(g, k, m)
<1> DEFINE n  == Len(g.ops)
           op == g.ops[i + 1]
           t  == l.tensor
           r  == ReadBy(op, i, starts, l)
           m  == WrittenBy(op, i, r)
<1>1. /\ n \in Nat /\ i \in 0 .. n - 1 /\ n - (k - 1) = i + 1 /\ n - k = i
      /\ \A j \in i .. n - 1 : j = i \/ j \in i + 1 .. n - 1
  BY ModelFacts
<1>2. /\ t \in Tensors(g) /\ l.first_created \in Nat \cup {-1} /\ l.last_used \in Nat \cup {-1}
      /\ l.needs_allocating \in BOOLEAN
  BY DEF Lifetime
<1>3. /\ r \in Lifetime(g) /\ r.tensor = t /\ r.needs_allocating = l.needs_allocating
      /\ r.first_created = IF InputOf(g, t, i) /\ starts /\ l.needs_allocating
                              /\ l.first_created = -1 THEN i ELSE l.first_created
      /\ r.last_used = IF InputOf(g, t, i) /\ (l.last_used = -1 \/ l.last_used < i)
                       THEN i ELSE l.last_used
  <2> DEFINE first == IF starts /\ l.needs_allocating /\ l.first_created = -1
                      THEN i ELSE l.first_created
             last  == IF l.last_used = -1 \/ l.last_used < i THEN i ELSE l.last_used
  <2>1. first \in Nat \cup {-1} /\ last \in Nat \cup {-1}
    BY <1>1, <1>2
  <2>2. CASE InputOf(g, t, i)
    <3>1. r = [l EXCEPT !.first_created = first, !.last_used = last]
      BY <2>2 DEF ReadBy, InputOf
    <3> HIDE DEF first, last, r
    <3>2. /\ r \in Lifetime(g) /\ r.tensor = t /\ r.needs_allocating = l.needs_allocating
          /\ r.first_created = first /\ r.last_used = last
      BY <2>1, <3>1 DEF Lifetime
    <3> QED BY <2>2, <3>2 DEF first, last
  <2>3. CASE ~InputOf(g, t, i)
    BY <2>3 DEF ReadBy, InputOf
  <2> QED BY <2>2, <2>3
<1> HIDE DEF r
<1>4. /\ m \in Lifetime(g) /\ m.tensor = t /\ m.needs_allocating = l.needs_allocating
      /\ m.first_created = IF OutputOf(g, t, i) /\ (r.first_created = -1 \/ r.first_created > i)
                           THEN i ELSE r.first_created
      /\ m.last_used = r.last_used
  <2> DEFINE late == OutputOf(g, t, i) /\ (r.first_created = -1 \/ r.first_created > i)
  <2>1. CASE late
    <3>1. m = [r EXCEPT !.first_created = i] /\ i \in Nat
      BY <1>1, <1>3, <2>1 DEF WrittenBy, OutputOf
    <3> HIDE DEF m, late
    <3>2. m \in Lifetime(g) /\ m.tensor = r.tensor /\ m.needs_allocating = r.needs_allocating
          /\ m.first_created = i /\ m.last_used = r.last_used
      BY <1>3, <3>1 DEF Lifetime
    <3> QED BY <1>3, <2>1, <3>2 DEF late
  <2>2. CASE ~late
    <3>1. m = r
      BY <1>3, <2>2 DEF WrittenBy, OutputOf
    <3> QED BY <1>3, <2>2, <3>1
  <2> QED BY <2>1, <2>2
<1> HIDE DEF m, op
<1> USE DEF Visited
<1>5. m.needs_allocating = (t \notin g.preset \cup g.variables)
  BY <1>4, Zenon
<1>6. t \in g.inputs => m.first_created = 0
  BY <1>1, <1>3, <1>4
<1>7. m.last_used >= l.last_used /\ (InputOf(g, t, i) => m.last_used >= i)
  BY <1>1, <1>2, <1>3, <1>4
<1>8. m.last_used \in Int /\ l.last_used \in Int
  BY <1>2, <1>4 DEF Lifetime
<1>9. t \in g.outputs => m.last_used >= n - 1
  BY <1>1, <1>7, <1>8
<1>10. \A j \in i .. n - 1 : InputOf(g, t, j) => m.last_used >= j
  BY <1>1, <1>7, <1>8
<1>a. m.last_used # -1 => t \in g.outputs \/ \E j \in i .. n - 1 : InputOf(g, t, j)
  <2>1. i \in i .. n - 1 /\ \A j \in i + 1 .. n - 1 : j \in i .. n - 1
    BY <1>1
  <2>2. CASE InputOf(g, t, i)
    BY <2>1, <2>2
  <2>3. CASE ~InputOf(g, t, i)
    <3>1. m.last_used = l.last_used
      BY <1>3, <1>4, <2>3
    <3>2. l.last_used # -1 =>
             t \in g.outputs \/ \E j \in n - (k - 1) .. n - 1 : InputOf(g, t, j)
      BY Zenon
    <3>3. l.last_used # -1 => t \in g.outputs \/ \E j \in i + 1 .. n - 1 : InputOf(g, t, j)
      <4> HIDE DEF t, n
      <4> QED BY <1>1, <3>2
    <3> HIDE DEF Visited
    <3> QED BY <2>1, <3>1, <3>3
  <2> QED BY <2>2, <2>3
<1>11. ASSUME NEW j \in i .. n - 1, OutputOf(g, t, j) PROVE m.first_created \in 0 .. j
  <2>1. j = i \/ l.first_created \in 0 .. j
    BY <1>1, <1>11
  <2> HIDE DEF Visited
  <2>2. i \in Nat /\ j \in Nat /\ i <= j
    BY <1>1
  <2>3. j = i \/ r.first_created \in 0 .. j
    BY <1>2, <1>3, <2>1, <2>2
  <2> QED BY <1>2, <1>3, <1>4, <1>11, <2>2, <2>3 DEF Lifetime
<1>12. ASSUME t \in OperatorOnly(g)
       PROVE  /\ \A j \in i .. n - 1 : InputOf(g, t, j) => m.first_created = j
              /\ (\A j \in i .. n - 1 : ~InputOf(g, t, j)) => m.first_created = -1
  <2>1. t \notin g.preset \cup g.variables /\ l.needs_allocating
    BY <1>12, ModelFacts
  <2>2. i .. n - 1 \subseteq 0 .. n - 1
    BY <1>1
  <2>3. ASSUME NEW j \in i .. n - 1, InputOf(g, t, j) PROVE m.first_created = j
    <3>1. ~OutputOf(g, t, i)
      BY <1>1, <1>12, <2>2, <2>3, ModelFacts
    <3>2. CASE j = i
      <4>1. \A a \in i + 1 .. n - 1 : ~InputOf(g, t, a)
        BY <1>1, <1>12, <2>2, <2>3, <3>2, ModelFacts
      <4>2. l.first_created = -1
        BY <1>1, <1>12, <4>1
      <4> QED BY <1>3, <1>4, <1>12, <2>1, <2>3, <3>1, <3>2, <4>2
    <3>3. CASE j # i
      <4>1. j \in i + 1 .. n - 1 /\ ~InputOf(g, t, i)
        BY <1>1, <1>12, <2>2, <2>3, <3>3, ModelFacts
      <4>2. l.first_created = j
        BY <1>1, <1>12, <2>3, <4>1
      <4> QED BY <1>3, <1>4, <3>1, <4>1, <4>2
    <3> QED BY <3>2, <3>3
  <2>4. ASSUME \A j \in i .. n - 1 : ~InputOf(g, t, j) PROVE m.first_created = -1
    <3>1. ~InputOf(g, t, i) /\ \A j \in i + 1 .. n - 1 : ~InputOf(g, t, j)
      <4>1. i \in i .. n - 1 /\ \A j \in i + 1 .. n - 1 : j \in i .. n - 1
        BY <1>1
      <4> QED BY <2>4, <4>1, Zenon
    <3>2. ~OutputOf(g, t, i)
      <4>1. i + 1 \in 1 .. n
        BY <1>1
      <4> QED BY <1>12, <4>1 DEF OperatorOnly, OutputOf
    <3>3. l.first_created = -1
      BY <1>1, <1>12, <3>1
    <3> QED BY <1>3, <1>4, <3>1, <3>2, <3>3
  <2> QED BY <2>3, <2>4
<1>13. Visited(g, k, m)
  BY <1>1, <1>4, <1>5, <1>6, <1>9, <1>10, <1>a, <1>11, <1>12
<1> QED BY <1>4, <1>13 DEF m, r, op

(* The loop over the operators, from the lifetimes of inputs and outputs.  *)
LEMMA LifetimesFound ==
    ASSUME NEW g, IsModel(g)
    PROVE  \E used \in SUBSET Lifetime(g) :
              /\ \A t \in Tensors(g) : \E l \in used : l.tensor = t
              /\ \A l, m \in used : l.tensor = m.tensor => l = m
              /\ \A l \in used : Visited(g, Len(g.ops), l)
              /\ Lifetimes(g) = {[l EXCEPT !.needs_allocating = @ /\ ~IsReadOnly(l)] : l \in used}
<1> DEFINE n    == Len(g.ops)
           L    == SUBSET Lifetime(g)
           seq  == [k \in 1 .. n |-> k]
           base == InitialLifetimes(g)
           step == [k \in 1 .. n |-> [acc \in L |-> Visit(g, acc, n - k)]]
           After(f) == [k \in 0 .. Len(seq) |->
                          IF k = 0 THEN base ELSE Visit(g, f[k - 1], n - seq[k])]
           found == CHOOSE f : f = After(f)
<1>1. n \in Nat /\ Len(seq) = n /\ \A k \in 1 .. n : seq[k] = k
  <2>1. n \in Nat
    BY ModelFacts
  <2> HIDE DEF n
  <2>2. seq \in [1 .. n -> Nat]
    BY <2>1
  <2> QED BY <2>1, <2>2, FunctionIsSeq
<1> DEFINE Start(t) == [tensor |-> t,
                        first_created |-> IF t \in g.inputs THEN 0 ELSE -1,
                        last_used |-> IF t \in g.outputs THEN Len(g.ops) - 1 ELSE -1,
                        needs_allocating |-> t \notin g.preset \cup g.variables]
<1>a. base = {Start(t) : t \in Tensors(g)}
  BY DEF InitialLifetimes
<1>b. ASSUME NEW t \in Tensors(g)
      PROVE  /\ Start(t).tensor = t
             /\ Start(t).first_created = (IF t \in g.inputs THEN 0 ELSE -1)
             /\ Start(t).last_used = (IF t \in g.outputs THEN n - 1 ELSE -1)
             /\ Start(t).needs_allocating = (t \notin g.preset \cup g.variables)
             /\ Start(t) \in Lifetime(g)
  <2>1. n - 1 \in Nat \cup {-1}
    BY <1>1
  <2> DEFINE x == IF t \in g.inputs THEN 0 ELSE -1
             y == IF t \in g.outputs THEN Len(g.ops) - 1 ELSE -1
             z == t \notin g.preset \cup g.variables
  <2>2. x \in Nat \cup {-1} /\ y \in Nat \cup {-1} /\ z \in BOOLEAN
    BY <2>1
  <2>3. Start(t) = [tensor |-> t, first_created |-> x, last_used |-> y, needs_allocating |-> z]
    OBVIOUS
  <2> HIDE DEF x, y, z, Start
  <2>4. /\ Start(t).tensor = t /\ Start(t).first_created = x /\ Start(t).last_used = y
        /\ Start(t).needs_allocating = z /\ Start(t) \in Lifetime(g)
    BY <2>2, <2>3 DEF Lifetime
  <2> QED BY <2>4 DEF x, y, z
<1> HIDE DEF Start
<1>2. base \in L
  BY <1>a, <1>b
<1>3. ASSUME NEW k \in 1 .. n, NEW acc \in L PROVE Visit(g, acc, n - k) \in L
  <2> DEFINE i  == n - k
             op == g.ops[i + 1]
  <2>1. i \in Nat
    BY <1>1
  <2> HIDE DEF i, op
  <2>2. ASSUME NEW l \in Lifetime(g), NEW starts \in BOOLEAN
        PROVE  ReadBy(op, i, starts, l) \in Lifetime(g)
    BY <2>1 DEF Lifetime, ReadBy
  <2>3. ASSUME NEW l \in Lifetime(g)
        PROVE  WrittenBy(op, i, l) \in Lifetime(g)
    BY <2>1 DEF Lifetime, WrittenBy
  <2> DEFINE starts == \E l \in acc : l.tensor \in op.inputs /\ l.first_created = 0
  <2>4. Visit(g, acc, i) = {WrittenBy(op, i, ReadBy(op, i, starts, l)) : l \in acc}
    BY DEF Visit, op
  <2>5. starts \in BOOLEAN
    OBVIOUS
  <2> HIDE DEF starts
  <2> QED BY <2>2, <2>3, <2>4, <2>5 DEF i
<1>4. \E f : f = After(f)
  <2>1. step \in Steps(L, n)
    BY <1>3 DEF Steps
  <2>2. PICK f : IsIteration(f, L, n, base, step)
    <3> HIDE DEF step, n, L, base
    <3> QED BY <1>1, <1>2, <2>1, IterationExists, Zenon
  <2>3. f \in [0 .. n -> L] /\ f[0] = base /\ \A k \in 1 .. n : f[k] = step[k][f[k - 1]]
    BY <2>2 DEF IsIteration
  <2>4. \A k \in 1 .. n : f[k - 1] \in L
    BY <1>1, <2>3
  <2>5. \A k \in 1 .. n : f[k] = Visit(g, f[k - 1], n - seq[k])
    BY <1>1, <2>3, <2>4
  <2>6. \A k \in 0 .. n : k = 0 \/ k \in 1 .. n
    BY <1>1
  <2> HIDE DEF seq, base, step, L, n
  <2>7. f = After(f)
    BY <1>1, <2>3, <2>5, <2>6
  <2> QED BY <2>7
<1>5. found = After(found)
  <2> HIDE DEF After
  <2> QED BY <1>4
<1>6. Lifetimes(g) = {[l EXCEPT !.needs_allocating = @ /\ ~IsReadOnly(l)] : l \in found[Len(seq)]}
  BY DEF Lifetimes, Fold
<1> HIDE DEF found, seq, base, n, L
<1>7. found[0] = base /\ \A k \in 1 .. n : found[k] = Visit(g, found[k - 1], n - k)
  BY <1>1, <1>5
<1> DEFINE Right(k) == /\ found[k] \in L
                       /\ \A t \in Tensors(g) : \E l \in found[k] : l.tensor = t
                       /\ \A l, m \in found[k] : l.tensor = m.tensor => l = m
                       /\ \A l \in found[k] : Visited(g, k, l)
           T == {k \in 0 .. n : Right(k)}
<1>8. 0 \in T
  <2>1. \A l, m \in base : l.tensor = m.tensor => l = m
    BY <1>a, <1>b
  <2>2. \A t \in Tensors(g) : \E l \in base : l.tensor = t
    BY <1>a, <1>b
  <2>3. ASSUME NEW l \in base PROVE Visited(g, 0, l)
    <3>1. n - 0 .. n - 1 = {} /\ n - 1 >= n - 1
      BY <1>1
    <3>2. PICK t \in Tensors(g) : l = Start(t)
      BY <1>a
    <3>3. t \in OperatorOnly(g) => t \notin g.inputs
      BY DEF OperatorOnly
    <3> QED BY <1>b, <3>1, <3>2, <3>3 DEF Visited, n
  <2> QED BY <1>1, <1>2, <1>7, <2>1, <2>2, <2>3
<1>9. ASSUME NEW k \in 1 .. n, k - 1 \in T PROVE k \in T
  <2> DEFINE i   == n - k
             op  == g.ops[i + 1]
             acc == found[k - 1]
             starts == \E l \in acc : l.tensor \in op.inputs /\ l.first_created = 0
             Next1(l) == WrittenBy(op, i, ReadBy(op, i, starts, l))
  <2>1. /\ acc \in SUBSET Lifetime(g)
        /\ \A t \in Tensors(g) : \E l \in acc : l.tensor = t
        /\ \A l, m \in acc : l.tensor = m.tensor => l = m
        /\ \A l \in acc : Visited(g, k - 1, l)
    BY <1>9 DEF L
  <2>2. i \in 0 .. n - 1
    BY <1>1
  <2>3. found[k] = {Next1(l) : l \in acc}
    BY <1>7 DEF Visit
  <2>4. starts \in BOOLEAN
    OBVIOUS
  <2>5. ASSUME NEW l \in acc
        PROVE  Next1(l) \in Lifetime(g) /\ Next1(l).tensor = l.tensor /\ Visited(g, k, Next1(l))
    <3>1. l.tensor \in OperatorOnly(g) /\ InputOf(g, l.tensor, i) => starts
      <4> SUFFICES ASSUME l.tensor \in OperatorOnly(g), InputOf(g, l.tensor, i) PROVE starts
        OBVIOUS
      <4>1. PICK u \in g.inputs : InputOf(g, u, i)
        BY <2>2, ModelFacts DEF n
      <4>2. u \in Tensors(g)
        BY DEF IsModel
      <4>3. PICK m \in acc : m.tensor = u
        BY <2>1, <4>2
      <4>4. m.first_created = 0
        BY <2>1, <4>3 DEF Visited
      <4> QED BY <4>1, <4>3, <4>4 DEF InputOf
    <3> HIDE DEF starts, acc
    <3>2. /\ k \in 1 .. Len(g.ops) /\ i = Len(g.ops) - k /\ l \in Lifetime(g)
          /\ Visited(g, k - 1, l)
      BY <2>1 DEF n
    <3> HIDE DEF i
    <3> QED BY <2>4, <3>1, <3>2, VisitOfLifetime
  <2> HIDE DEF Next1, acc
  <2>6. found[k] \in L
    BY <2>3, <2>5 DEF L
  <2>7. \A t \in Tensors(g) : \E l \in found[k] : l.tensor = t
    BY <2>1, <2>3, <2>5
  <2>8. \A l, m \in found[k] : l.tensor = m.tensor => l = m
    BY <2>1, <2>3, <2>5
  <2>9. \A l \in found[k] : Visited(g, k, l)
    BY <2>3, <2>5
  <2> QED BY <2>6, <2>7, <2>8, <2>9
<1>10. n \in T
  <2> HIDE DEF T
  <2>1. \A k \in 0 .. n : k \in T
    BY <1>1, <1>8, <1>9, UpTo
  <2> QED BY <1>1, <2>1
<1>11. Right(n) /\ found[n] \in SUBSET Lifetime(g)
  BY <1>10 DEF L
<1>12. /\ \A t \in Tensors(g) : \E l \in found[n] : l.tensor = t
       /\ \A l, m \in found[n] : l.tensor = m.tensor => l = m
       /\ \A l \in found[n] : Visited(g, Len(g.ops), l)
       /\ Lifetimes(g) = {[l EXCEPT !.needs_allocating = @ /\ ~IsReadOnly(l)] : l \in found[n]}
  BY <1>1, <1>6, <1>11 DEF n
<1> QED BY <1>11, <1>12, Zenon

-----------------------------------------------------------------------------
(* The AllocationInfo array.                                               *)
Info == [bytes : Nat, needs_allocating : BOOLEAN, first_created : Nat \cup {-1},
         last_used : Nat \cup {-1}, offline_offset : Nat \cup {-1}]

(* The AllocationInfo a of tensor t covers its uses.                       *)
Covers(g, t, a) ==
    LET own == t \notin g.preset \cup g.variables
    IN  /\ a.bytes = g.bytes[t]
        /\ a.needs_allocating => own /\ a.first_created \in Nat /\ a.last_used \in Nat
        /\ own /\ t \in g.inputs => a.needs_allocating /\ a.first_created = 0
        /\ t \in g.outputs => a.last_used >= Len(g.ops) - 1
        /\ a.last_used # -1 =>
              t \in g.outputs \/ \E i \in 0 .. Len(g.ops) - 1 : InputOf(g, t, i)
        /\ \A i \in 0 .. Len(g.ops) - 1 :
              /\ InputOf(g, t, i) => a.last_used >= i
              /\ own /\ OutputOf(g, t, i) => a.needs_allocating /\ a.first_created \in 0 .. i
              /\ t \in OperatorOnly(g) /\ InputOf(g, t, i) =>
                    a.needs_allocating /\ a.first_created = i

(* The AllocationInfo of a tensor is that of its lifetime.                 *)
LEMMA TensorInfoCovers ==
    ASSUME NEW g, IsModel(g), ~InfoFails(g), NEW t \in Tensors(g)
    PROVE  LET a == TensorInfo(g, CHOOSE l \in Lifetimes(g) : l.tensor = t)
           IN  a \in Info /\ Covers(g, t, a)
<1> DEFINE n == Len(g.ops)
           l == CHOOSE x \in Lifetimes(g) : x.tensor = t
           a == TensorInfo(g, l)
           Kept(m) == [m EXCEPT !.needs_allocating = @ /\ ~IsReadOnly(m)]
<1>1. PICK used \in SUBSET Lifetime(g) :
            /\ \A u \in Tensors(g) : \E m \in used : m.tensor = u
            /\ \A m \in used : Visited(g, Len(g.ops), m)
            /\ Lifetimes(g) = {Kept(m) : m \in used}
  BY LifetimesFound
<1>2. ASSUME NEW m \in used
      PROVE  /\ Kept(m) \in Lifetime(g) /\ Kept(m).tensor = m.tensor
             /\ Kept(m).first_created = m.first_created /\ Kept(m).last_used = m.last_used
             /\ Kept(m).needs_allocating = (m.needs_allocating /\ ~IsReadOnly(m))
  <2> DEFINE z == m.needs_allocating /\ ~IsReadOnly(m)
  <2>1. z \in BOOLEAN /\ m \in Lifetime(g)
    OBVIOUS
  <2>2. Kept(m) = [m EXCEPT !.needs_allocating = z]
    BY Zenon
  <2> HIDE DEF z, Kept
  <2>3. /\ Kept(m) \in Lifetime(g) /\ Kept(m).tensor = m.tensor /\ Kept(m).needs_allocating = z
        /\ Kept(m).first_created = m.first_created /\ Kept(m).last_used = m.last_used
    BY <2>1, <2>2 DEF Lifetime
  <2> QED BY <2>3 DEF z
<1> HIDE DEF Kept
<1>3. l \in Lifetimes(g) /\ l.tensor = t
  BY <1>1, <1>2
<1> HIDE DEF l
<1>4. PICK m \in used : l = Kept(m)
  BY <1>1, <1>3
<1>5. /\ m.tensor = t /\ l.first_created = m.first_created /\ l.last_used = m.last_used
      /\ l.needs_allocating = (m.needs_allocating /\ ~IsReadOnly(m))
      /\ Visited(g, n, m) /\ m \in Lifetime(g) /\ l \in Lifetime(g)
  BY <1>1, <1>2, <1>3, <1>4
<1>6. g.bytes[t] \in Nat /\ n \in Nat
  BY ModelFacts
<1>7. (IF g.offline = <<>> THEN -1 ELSE g.offline[t]) \in Nat \cup {-1}
  <2>1. g.offline \in Seq(Nat \cup {-1}) /\ (g.offline # <<>> => Len(g.offline) = Len(g.bytes))
    BY DEF IsModel, InfoFails
  <2> QED BY <2>1 DEF Tensors
<1>8. /\ a.bytes = g.bytes[t] /\ a.needs_allocating = l.needs_allocating
      /\ a.first_created = l.first_created /\ a.last_used = l.last_used
      /\ a \in Info
  <2> DEFINE o == IF g.offline = <<>> THEN -1 ELSE g.offline[t]
  <2>1. a = [bytes |-> g.bytes[t], needs_allocating |-> l.needs_allocating,
             first_created |-> l.first_created, last_used |-> l.last_used, offline_offset |-> o]
    BY <1>3 DEF TensorInfo
  <2>2. o \in Nat \cup {-1}
    BY <1>7
  <2> HIDE DEF o, a
  <2> QED BY <1>5, <1>6, <2>1, <2>2 DEF Lifetime, Info
<1>9. l.needs_allocating => l.first_created # -1 /\ l.last_used # -1
  BY <1>3 DEF InfoFails
<1>10. /\ l.first_created \in Nat \cup {-1} /\ l.last_used \in Nat \cup {-1}
       /\ m.needs_allocating = (t \notin g.preset \cup g.variables)
  BY <1>5 DEF Lifetime, Visited
<1> DEFINE own == t \notin g.preset \cup g.variables
<1>11. own /\ l.first_created # -1 => l.needs_allocating
  BY <1>5, <1>10 DEF IsReadOnly
<1>12. l.needs_allocating => own /\ l.first_created \in Nat /\ l.last_used \in Nat
  BY <1>5, <1>9, <1>10
<1>13. /\ t \in g.inputs => l.first_created = 0
       /\ t \in g.outputs => l.last_used >= n - 1
       /\ \A i \in n - n .. n - 1 : InputOf(g, t, i) => l.last_used >= i
       /\ l.last_used # -1 => t \in g.outputs \/ \E i \in n - n .. n - 1 : InputOf(g, t, i)
       /\ \A i \in n - n .. n - 1 : OutputOf(g, t, i) => l.first_created \in 0 .. i
       /\ t \in OperatorOnly(g) => \A i \in n - n .. n - 1 : InputOf(g, t, i) => l.first_created = i
  BY <1>5 DEF Visited
<1>14. n - n = 0 /\ \A i \in 0 .. n - 1 : i # -1 /\ \A j \in 0 .. i : j # -1
  BY <1>6
<1>15. t \in OperatorOnly(g) => own
  BY DEF OperatorOnly
<1> HIDE DEF a, own
<1>16. own /\ t \in g.inputs => l.needs_allocating /\ l.first_created = 0
  BY <1>11, <1>13
<1>17. ASSUME NEW i \in 0 .. n - 1
       PROVE  /\ InputOf(g, t, i) => l.last_used >= i
              /\ own /\ OutputOf(g, t, i) => l.needs_allocating /\ l.first_created \in 0 .. i
              /\ t \in OperatorOnly(g) /\ InputOf(g, t, i) =>
                    l.needs_allocating /\ l.first_created = i
  BY <1>11, <1>13, <1>14, <1>15
<1>18. Covers(g, t, a)
  BY <1>8, <1>12, <1>13, <1>14, <1>16, <1>17 DEF Covers, own
<1> QED BY <1>8, <1>18 DEF a, l

(* The array has the tensors, then the scratch buffers.                    *)
LEMMA InfoFacts ==
    ASSUME NEW g, IsModel(g), ~InfoFails(g)
    PROVE  /\ AllocationInfo(g) \in Seq(Info)
           /\ Len(AllocationInfo(g)) = Len(g.bytes) + Len(g.scratch)
           /\ \A t \in Tensors(g) : Covers(g, t, AllocationInfo(g)[t])
           /\ \A s \in 1 .. Len(g.scratch) :
                 AllocationInfo(g)[Len(g.bytes) + s] = ScratchInfo(g.scratch[s])
           /\ \A x \in 1 .. Len(AllocationInfo(g)) :
                 AllocationInfo(g)[x].needs_allocating =>
                    /\ AllocationInfo(g)[x].first_created \in Nat
                    /\ AllocationInfo(g)[x].last_used \in Nat
<1> DEFINE nt == Len(g.bytes)
           ns == Len(g.scratch)
           A == [t \in Tensors(g) |-> TensorInfo(g, CHOOSE l \in Lifetimes(g) : l.tensor = t)]
           B == [s \in 1 .. ns |-> ScratchInfo(g.scratch[s])]
           all == AllocationInfo(g)
<1>1. nt \in Nat /\ ns \in Nat
  BY ModelFacts
<1>2. all = A \o B
  BY DEF AllocationInfo
<1>3. A \in [1 .. nt -> Info] /\ \A t \in 1 .. nt : Covers(g, t, A[t])
  BY TensorInfoCovers DEF Tensors
<1>4. ASSUME NEW s \in 1 .. ns
      PROVE  /\ ScratchInfo(g.scratch[s]) \in Info /\ B[s] = ScratchInfo(g.scratch[s])
             /\ B[s].first_created \in Nat /\ B[s].last_used \in Nat
  <2>1. g.scratch[s].bytes \in Nat /\ g.scratch[s].node \in Nat
    BY ModelFacts
  <2> QED BY <2>1 DEF ScratchInfo, Info
<1>5. B \in [1 .. ns -> Info]
  BY <1>4
<1> HIDE DEF A, B, all, nt, ns
<1>6. A \in Seq(Info) /\ Len(A) = nt /\ B \in Seq(Info) /\ Len(B) = ns
  BY <1>1, <1>3, <1>5, FunctionIsSeq
<1>7. /\ all \in Seq(Info) /\ Len(all) = nt + ns
      /\ \A x \in 1 .. nt + ns : all[x] = IF x <= nt THEN A[x] ELSE B[x - nt]
  BY <1>2, <1>6, ConcatProperties
<1>8. \A t \in 1 .. nt : all[t] = A[t]
  BY <1>1, <1>7
<1>9. \A s \in 1 .. ns : all[nt + s] = B[s]
  BY <1>1, <1>7
<1>10. \A x \in 1 .. nt + ns : x \in 1 .. nt \/ (x - nt \in 1 .. ns /\ all[x] = B[x - nt])
  BY <1>1, <1>7
<1>11. \A x \in 1 .. nt + ns :
          all[x].needs_allocating => all[x].first_created \in Nat /\ all[x].last_used \in Nat
  BY <1>3, <1>4, <1>8, <1>10 DEF Covers
<1> QED BY <1>3, <1>4, <1>7, <1>8, <1>9, <1>11 DEF Tensors, all, nt, ns

-----------------------------------------------------------------------------
(* planner_index: how many of the first i elements of s need allocating.   *)
Index(s, i) == Fold(LAMBDA n, a : IF a.needs_allocating THEN n + 1 ELSE n, 0, SubSeq(s, 1, i))

(* The loop of CommitPlan counts up at each element that needs allocating. *)
LEMMA IndexCounts ==
    ASSUME NEW s \in Seq(Info)
    PROVE  /\ Index(s, 0) = 0
           /\ \A i \in 0 .. Len(s) : Index(s, i) \in Nat
           /\ \A i \in 1 .. Len(s) :
                 Index(s, i) = IF s[i].needs_allocating THEN Index(s, i - 1) + 1 ELSE Index(s, i - 1)
<1> DEFINE n == Len(s)
           step == [k \in 1 .. n |-> [m \in Nat |-> IF s[k].needs_allocating THEN m + 1 ELSE m]]
<1>1. n \in Nat
  BY LenProperties
<1>2. 0 \in Nat /\ step \in Steps(Nat, n)
  BY DEF Steps
<1>3. PICK c : IsIteration(c, Nat, n, 0, step)
  <2> HIDE DEF step, n
  <2> QED BY <1>1, <1>2, IterationExists, Zenon
<1>4. c \in [0 .. n -> Nat] /\ c[0] = 0
  BY <1>3 DEF IsIteration
<1>5. \A k \in 1 .. n : k - 1 \in 0 .. n /\ k \in 0 .. n
  BY <1>1
<1>6. \A k \in 1 .. n : c[k] = IF s[k].needs_allocating THEN c[k - 1] + 1 ELSE c[k - 1]
  BY <1>3, <1>5 DEF IsIteration
<1> HIDE DEF step
<1>7. ASSUME NEW i \in 0 .. n PROVE Index(s, i) = c[i]
  <2> DEFINE sub == SubSeq(s, 1, i)
             After(f) == [k \in 0 .. Len(sub) |->
                            IF k = 0 THEN 0
                            ELSE IF sub[k].needs_allocating THEN f[k - 1] + 1 ELSE f[k - 1]]
             found == CHOOSE f : f = After(f)
  <2>1. /\ sub \in Seq(Info) /\ Len(sub) = i /\ \A k \in 1 .. i : sub[k] = s[k]
        /\ i \in Nat /\ 0 .. i \subseteq 0 .. n /\ 1 .. i \subseteq 1 .. n
    <3>1. i \in Nat /\ 1 \in 1 .. n + 1 /\ 0 .. i \subseteq 0 .. n /\ 1 .. i \subseteq 1 .. n
      BY <1>1
    <3>2. \A k \in 1 .. i : s[k] \in Info
      BY <3>1, LenProperties
    <3>3. /\ SubSeq(s, 1, i) \in Seq(Info)
          /\ Len(SubSeq(s, 1, i)) = i
          /\ \A k \in 1 .. i : SubSeq(s, 1, i)[k] = s[k]
      BY <1>1, <3>1, <3>2, SubSeqProperties
    <3> QED BY <3>1, <3>3
  <2>2. Index(s, i) = found[Len(sub)]
    BY DEF Index, Fold
  <2> HIDE DEF sub
  <2>3. \E f : f = After(f)
    <3> DEFINE f == [k \in 0 .. i |-> c[k]]
    <3>1. \A k \in 1 .. i : k - 1 \in 0 .. i /\ k # 0 /\ k \in 1 .. n
      BY <2>1
    <3>2. \A k \in 0 .. i : k = 0 \/ k \in 1 .. i
      BY <2>1
    <3>3. f = After(f)
      BY <1>4, <1>6, <2>1, <3>1, <3>2
    <3> QED BY <3>3
  <2>4. found = After(found)
    <3> HIDE DEF After
    <3> QED BY <2>3
  <2> HIDE DEF found
  <2>5. /\ found[0] = 0
        /\ \A k \in 1 .. i : found[k] = IF s[k].needs_allocating THEN found[k - 1] + 1
                                                                 ELSE found[k - 1]
    BY <2>1, <2>4
  <2> DEFINE T == {k \in 0 .. i : found[k] = c[k]}
  <2>6. 0 \in T
    BY <1>4, <2>1, <2>5
  <2>7. ASSUME NEW k \in 1 .. i, k - 1 \in T PROVE k \in T
    BY <1>6, <2>1, <2>5, <2>7
  <2>8. i \in T
    <3> HIDE DEF T
    <3>1. \A k \in 0 .. i : k \in T
      BY <2>1, <2>6, <2>7, UpTo
    <3> QED BY <2>1, <3>1
  <2> QED BY <2>1, <2>2, <2>8
<1>8. 0 \in 0 .. n
  BY <1>1
<1> HIDE DEF n
<1>9. /\ Index(s, 0) = 0
      /\ \A i \in 0 .. n : Index(s, i) \in Nat
      /\ \A i \in 1 .. n :
            Index(s, i) = IF s[i].needs_allocating THEN Index(s, i - 1) + 1 ELSE Index(s, i - 1)
  BY <1>4, <1>5, <1>6, <1>7, <1>8
<1> QED BY <1>9 DEF n

(* Elements that need allocating have numbers of their own, from 1 on.     *)
LEMMA IndexRises ==
    ASSUME NEW s \in Seq(Info), NEW i \in 0 .. Len(s), NEW j \in 0 .. i
    PROVE  /\ Index(s, j) <= Index(s, i)
           /\ j > 0 /\ s[j].needs_allocating => Index(s, j) >= 1
           /\ j < i /\ s[i].needs_allocating => Index(s, j) < Index(s, i)
<1> DEFINE n == Len(s)
           Rises(a) == \A b \in 0 .. a : Index(s, b) <= Index(s, a)
           T == {a \in 0 .. n : Rises(a)}
<1>1. n \in Nat /\ \A a \in 0 .. n : Index(s, a) \in Nat
  BY LenProperties, IndexCounts
<1>2. \A a \in 1 .. n : /\ a \in 0 .. n /\ a - 1 \in 0 .. n
                        /\ \A b \in 0 .. a : b = a \/ b \in 0 .. a - 1
                        /\ 0 .. a \subseteq 0 .. n
  BY <1>1
<1>3. 0 \in T
  BY <1>1
<1>4. ASSUME NEW a \in 1 .. n, a - 1 \in T PROVE a \in T
  <2>1. Index(s, a - 1) <= Index(s, a)
    BY <1>1, <1>2, IndexCounts
  <2>2. ASSUME NEW b \in 0 .. a PROVE Index(s, b) <= Index(s, a)
    <3>1. CASE b = a
      BY <1>1, <1>2, <3>1
    <3>2. CASE b \in 0 .. a - 1
      BY <1>1, <1>2, <1>4, <2>1, <3>2
    <3> QED BY <1>2, <3>1, <3>2
  <2> QED BY <1>2, <2>2
<1>5. \A a \in 0 .. n : a \in T
  <2> HIDE DEF T
  <2> QED BY <1>1, <1>3, <1>4, UpTo
<1>6. Index(s, j) <= Index(s, i)
  BY <1>5
<1>7. j > 0 /\ s[j].needs_allocating => Index(s, j) >= 1
  BY <1>1, IndexCounts
<1>8. ASSUME j < i, s[i].needs_allocating PROVE Index(s, j) < Index(s, i)
  <2>1. i \in 1 .. n /\ i - 1 \in 0 .. n /\ j \in 0 .. i - 1 /\ j \in 0 .. n
    BY <1>1, <1>8
  <2>2. Index(s, j) <= Index(s, i - 1)
    BY <1>5, <2>1
  <2>3. Index(s, i) = Index(s, i - 1) + 1
    BY <1>8, <2>1, IndexCounts
  <2> QED BY <1>1, <2>1, <2>2, <2>3
<1> QED BY <1>6, <1>7, <1>8

-----------------------------------------------------------------------------
(* The planner, and its proofs for the requests of the models.             *)
PP == INSTANCE GreedyMemoryPlannerProofs WITH Requirements <- Requests

(* A size is rounded up.                                                   *)
LEMMA SizeCovers ==
    ASSUME NEW size \in Nat
    PROVE  AlignSizeUp(size) \in Nat /\ AlignSizeUp(size) >= size
<1> DEFINE p == size + (BufferAlign - 1)
           m == (p \div BufferAlign) * BufferAlign
<1>1. BufferAlign \in Nat \ {0} /\ p \in Nat
  BY MicroPlanAssumption
<1>2. m \in Int /\ m <= p /\ p < m + BufferAlign
  <2> HIDE DEF p
  <2> QED BY <1>1
<1>3. AlignSizeUp(size) = m
  BY DEF AlignSizeUp
<1> HIDE DEF m
<1> QED BY <1>1, <1>2, <1>3

(* What CreatePlan asks the planner for is in its range.                   *)
LEMMA RequestsFit ==
    /\ \A g \in Graphs : ~InfoFails(g) =>
          \A x \in 1 .. Len(AllocationInfo(g)) : AllocationInfo(g)[x].needs_allocating =>
             Request(AllocationInfo(g)[x]) \in Requests
    /\ \A a \in Info : a.needs_allocating /\ a.first_created \in Nat /\ a.last_used \in Nat =>
          Request(a) \in PP!BufferRequirements
    /\ Requests \subseteq PP!BufferRequirements
<1>1. \A g \in Graphs : ~InfoFails(g) =>
        \A x \in 1 .. Len(AllocationInfo(g)) : AllocationInfo(g)[x].needs_allocating =>
           Request(AllocationInfo(g)[x]) \in Requests
  BY DEF Requests, Elements
<1>2. ASSUME NEW a \in Info, a.needs_allocating, a.first_created \in Nat, a.last_used \in Nat
      PROVE  Request(a) \in PP!BufferRequirements
  <2>1. AlignSizeUp(a.bytes) \in Nat /\ a.offline_offset \in Nat \cup {-1}
    BY SizeCovers DEF Info
  <2> QED BY <1>2, <2>1 DEF Request, PP!BufferRequirements, PP!kOnlinePlannedBuffer
<1>3. ASSUME NEW r \in Requests PROVE r \in PP!BufferRequirements
  <2>1. PICK g \in Graphs : /\ ~InfoFails(g)
                            /\ \E b \in Elements(AllocationInfo(g)) :
                                  b.needs_allocating /\ r = Request(b)
    BY DEF Requests
  <2>2. PICK x \in 1 .. Len(AllocationInfo(g)) :
           AllocationInfo(g)[x].needs_allocating /\ r = Request(AllocationInfo(g)[x])
    BY <2>1 DEF Elements
  <2>3. IsModel(g)
    BY MicroPlanAssumption
  <2>4. AllocationInfo(g)[x] \in Info
    <3> DEFINE all == AllocationInfo(g)
    <3>1. all \in Seq(Info) /\ x \in 1 .. Len(all)
      BY <2>1, <2>3, InfoFacts
    <3> HIDE DEF all
    <3>2. all[x] \in Info
      BY <3>1
    <3> QED BY <3>2 DEF all
  <2>5. AllocationInfo(g)[x].first_created \in Nat /\ AllocationInfo(g)[x].last_used \in Nat
    BY <2>1, <2>2, <2>3, InfoFacts
  <2> QED BY <1>2, <2>2, <2>4, <2>5
<1> QED BY <1>1, <1>2, <1>3

(* The assumptions of the greedy planner hold here.                        *)
LEMMA PlannerUsable == Requests \subseteq PP!BufferRequirements /\ MaxBuffers \in Nat
  BY RequestsFit, MicroPlanAssumption

PlannerHolds == PP!PlannerInv /\ PP!OfflineKept

(* A step of the planner keeps what is proved of it.                       *)
LEMMA PlannerKeeps ==
    ASSUME PlannerHolds, [P!Next]_P!vars
    PROVE  PlannerHolds'
<1>1. [PP!Next]_PP!vars
  BY DEF P!Next, PP!Next, P!vars, PP!vars, P!AddBuffer, PP!AddBuffer,
      P!CalculateOffsetsIfNeeded, PP!CalculateOffsetsIfNeeded, P!SearchStep, PP!SearchStep,
      P!PassEntry, PP!PassEntry, P!PlaceBuffer, PP!PlaceBuffer, P!Unplaced, PP!Unplaced,
      P!Placed, PP!Placed, P!Ids, PP!Ids, P!Wanted, PP!Wanted, P!Before, PP!Before,
      P!Online, PP!Online, P!kOnlinePlannedBuffer, PP!kOnlinePlannedBuffer,
      P!NextSimultaneouslyActiveBuffer, PP!NextSimultaneouslyActiveBuffer,
      P!DoesEntryOverlapInTime, PP!DoesEntryOverlapInTime, P!TooSmall, PP!TooSmall,
      P!EntryEnd, PP!EntryEnd, P!PlaceOffset, PP!PlaceOffset,
      P!InsertionPoint, PP!InsertionPoint, P!Insert, PP!Insert
<1>2. PP!PlannerInv'
  BY <1>1, PP!PlannerStep, PlannerUsable DEF PlannerHolds
<1>3. PP!OfflineKept'
  BY <1>1, PP!OfflineStep, PlannerUsable DEF PlannerHolds
<1> QED BY <1>2, <1>3 DEF PlannerHolds

-----------------------------------------------------------------------------
(* The planner has the requests of the first k elements of info.           *)
Filled(k) ==
    /\ Len(requirements) = Index(info, k)
    /\ \A i \in 1 .. k : info[i].needs_allocating => requirements[Index(info, i)] = Request(info[i])

Built == pc \in {"create", "plan", "ready", "run"} => ~InfoFails(graph) /\ info = AllocationInfo(graph)

Creating ==
    /\ pc = "info" => requirements = <<>> /\ ~searching /\ at = 1
    /\ pc = "create" => at \in 1 .. Len(info) + 1 /\ ~searching /\ Filled(at - 1)

Planning ==
    pc \in {"plan", "ready", "run"} => Filled(Len(info)) /\ (requirements = <<>> \/ ~need)

Committed ==
    pc \in {"ready", "run"} =>
        /\ ~searching
        /\ data = [i \in 1 .. Len(info) |-> IF info[i].needs_allocating
                                            THEN offsets[Index(info, i)] ELSE NullData]

PlanInv ==
    /\ graph \in Graphs /\ pc \in {"info", "failed", "create", "plan", "ready", "run"}
    /\ PlannerHolds /\ Built /\ Creating /\ Planning /\ Committed

(* What the invariant says of info, once it is built.                      *)
LEMMA BuiltFacts ==
    ASSUME PlanInv, pc \in {"create", "plan", "ready", "run"}
    PROVE  /\ info = AllocationInfo(graph) /\ IsModel(graph) /\ ~InfoFails(graph)
           /\ info \in Seq(Info) /\ Len(info) \in Nat
           /\ Len(info) = Len(graph.bytes) + Len(graph.scratch)
           /\ 1 .. Len(info) = 1 .. Len(graph.bytes) + Len(graph.scratch)
<1>1. info = AllocationInfo(graph) /\ IsModel(graph) /\ ~InfoFails(graph)
  BY MicroPlanAssumption DEF PlanInv, Built
<1>2. info \in Seq(Info) /\ Len(info) = Len(graph.bytes) + Len(graph.scratch)
  BY <1>1, InfoFacts
<1>3. 1 .. Len(info) = 1 .. Len(graph.bytes) + Len(graph.scratch)
  BY <1>2, Zenon
<1> QED BY <1>1, <1>2, <1>3, LenProperties

(* Tensors come first in info, scratch buffers after them.                 *)
LEMMA Numbering ==
    ASSUME NEW nt \in Nat, NEW ns \in Nat
    PROVE  /\ 1 .. nt \subseteq 1 .. nt + ns
           /\ \A s \in 1 .. ns : nt + s \in 1 .. nt + ns
           /\ \A z \in 1 .. nt + ns : z \in 1 .. nt \/ (z - nt \in 1 .. ns /\ z = nt + (z - nt))
  OBVIOUS

(* Every step is one of the planner's, or leaves the planner as it is.     *)
LEMMA StepUsesPlanner ==
    ASSUME PlanInv, [Next]_vars
    PROVE  [P!Next]_P!vars
<1>1. CASE CreatePlan
  <2>1. CASE info[at].needs_allocating /\ Len(requirements) < MaxBuffers
    <3>1. P!AddBuffer(Request(info[at])) /\ pc = "create" /\ at \in 1 .. Len(info)
      <4>1. P!AddBuffer(Request(info[at])) /\ pc = "create" /\ at <= Len(info)
        BY <1>1, <2>1, Zenon DEF CreatePlan
      <4>2. at \in 1 .. Len(info) + 1 /\ Len(info) \in Nat
        BY <4>1, BuiltFacts DEF PlanInv, Creating
      <4> QED BY <4>1, <4>2
    <3>2. Request(info[at]) \in Requests
      BY <2>1, <3>1, BuiltFacts, RequestsFit DEF PlanInv
    <3> QED BY <3>1, <3>2 DEF P!Next
  <2>2. CASE ~(info[at].needs_allocating /\ Len(requirements) < MaxBuffers)
    BY <1>1, <2>2 DEF CreatePlan, planner, P!vars
  <2> QED BY <2>1, <2>2
<1>2. CASE GetMaximumMemorySize
  BY <1>2 DEF GetMaximumMemorySize, planner, P!vars, P!Next
<1>3. CASE Search
  BY <1>3 DEF Search, P!Next
<1>4. CASE BuildInfo \/ CommitPlan \/ SetInputs \/ InvokeNode \/ InvokeDone
  BY <1>4 DEF BuildInfo, CommitPlan, SetInputs, InvokeNode, InvokeDone, planner, P!vars
<1>5. CASE UNCHANGED vars
  BY <1>5 DEF vars, planner, P!vars
<1> QED BY <1>1, <1>2, <1>3, <1>4, <1>5 DEF Next, CommitStaticMemoryPlan

(* A new planner, and no plan yet.                                         *)
LEMMA PlanInit == Init => PlanInv
<1> SUFFICES ASSUME Init PROVE PlanInv
  OBVIOUS
<1>1. PP!Init
  BY DEF Init, P!Init, PP!Init
<1>2. PP!PlannerInv
  BY <1>1, PP!PlannerInit, PlannerUsable
<1>3. PP!OfflineKept
  BY <1>1 DEF PP!Init, PP!OfflineKept
<1>4. Built /\ Creating /\ Planning /\ Committed
  BY DEF Init, P!Init, Built, Creating, Planning, Committed
<1> QED BY <1>2, <1>3, <1>4 DEF Init, PlanInv, PlannerHolds

(* One more element of info is dealt with.                                 *)
LEMMA CreateFills ==
    ASSUME PlanInv, CreatePlan, at' = at + 1
    PROVE  at + 1 \in 1 .. Len(info) + 1 /\ \A k \in {at} : Filled(k)'
<1> DEFINE n == Len(info)
           r == Request(info[at])
<1>1. /\ pc = "create" /\ at \in 1 .. n /\ n \in Nat /\ info' = info /\ info \in Seq(Info)
      /\ Filled(at - 1)
  BY BuiltFacts DEF CreatePlan, PlanInv, Creating
<1>2. /\ at \in 0 .. n /\ at - 1 \in 0 .. n /\ at + 1 \in 1 .. n + 1 /\ at' # at
      /\ \A i \in 1 .. at : i = at \/ i \in 1 .. at - 1
      /\ \A i \in 1 .. at - 1 : i \in 0 .. at - 1 /\ i > 0
  BY <1>1
<1>3. requirements \in Seq(PP!BufferRequirements) /\ Len(requirements) \in Nat
  BY DEF PlanInv, PlannerHolds, PP!PlannerInv, PP!TypeOK
<1>4. CASE ~info[at].needs_allocating
  <2>1. requirements' = requirements /\ Index(info, at) = Index(info, at - 1)
    BY <1>1, <1>4, IndexCounts DEF CreatePlan, planner
  <2>2. Len(requirements') = Index(info, at)
    BY <1>1, <2>1 DEF Filled
  <2>3. \A i \in 1 .. at : info[i].needs_allocating =>
           requirements'[Index(info, i)] = Request(info[i])
    BY <1>1, <1>2, <1>4, <2>1 DEF Filled
  <2> QED BY <1>1, <1>2, <2>2, <2>3 DEF Filled
<1>5. CASE info[at].needs_allocating
  <2>1. requirements' = Append(requirements, r) /\ Index(info, at) = Index(info, at - 1) + 1
    BY <1>1, <1>2, <1>5, IndexCounts DEF CreatePlan, P!AddBuffer
  <2>2. r \in PP!BufferRequirements
    <3>1. r \in Requests
      BY <1>1, <1>5, BuiltFacts, RequestsFit DEF PlanInv
    <3> QED BY <3>1, RequestsFit
  <2> HIDE DEF r
  <2>3. /\ Len(requirements') = Len(requirements) + 1
        /\ requirements'[Len(requirements) + 1] = r
        /\ \A k \in 1 .. Len(requirements) : requirements'[k] = requirements[k]
    BY <1>3, <2>1, <2>2, AppendProperties
  <2>4. Len(requirements) + 1 = Index(info, at)
    BY <1>1, <2>1 DEF Filled
  <2>5. ASSUME NEW i \in 1 .. at - 1, info[i].needs_allocating
        PROVE  requirements'[Index(info, i)] = Request(info[i])
    <3>1. Index(info, i) <= Index(info, at - 1) /\ Index(info, i) >= 1
      BY <1>1, <1>2, <2>5, IndexRises
    <3>2. Index(info, i) \in Nat
      BY <1>1, <1>2, IndexCounts
    <3>3. Index(info, i) \in 1 .. Len(requirements)
      BY <1>1, <1>3, <3>1, <3>2 DEF Filled
    <3> QED BY <1>1, <2>3, <2>5, <3>3 DEF Filled
  <2>6. \A i \in 1 .. at : info[i].needs_allocating =>
           requirements'[Index(info, i)] = Request(info[i])
    BY <1>2, <2>3, <2>4, <2>5 DEF r
  <2> QED BY <1>1, <1>2, <2>3, <2>4, <2>6 DEF Filled
<1> QED BY <1>2, <1>4, <1>5

(* Every step keeps the invariant.                                         *)
LEMMA PlanStep ==
    ASSUME PlanInv, [Next]_vars
    PROVE  PlanInv'
<1>1. PlannerHolds'
  BY StepUsesPlanner, PlannerKeeps DEF PlanInv
<1> USE DEF PlanInv
<1>2. CASE BuildInfo
  <2>1. /\ pc = "info" /\ requirements' = requirements /\ searching' = searching /\ at' = at
        /\ graph' = graph /\ requirements = <<>> /\ ~searching /\ at = 1
    BY <1>2 DEF BuildInfo, planner, Creating
  <2>2. CASE InfoFails(graph)
    BY <1>1, <1>2, <2>1, <2>2 DEF BuildInfo, Built, Creating, Planning, Committed
  <2>3. CASE ~InfoFails(graph)
    <3>1. pc' = "create" /\ info' = AllocationInfo(graph)
      BY <1>2, <2>3 DEF BuildInfo
    <3>2. info' \in Seq(Info)
      BY <2>3, <3>1, InfoFacts, MicroPlanAssumption
    <3>3. Len(info') \in Nat /\ Index(info', 0) = 0
      BY <3>2, IndexCounts, LenProperties
    <3>4. at' \in 1 .. Len(info') + 1 /\ at' - 1 = 0
      BY <2>1, <3>3
    <3>5. \A k \in {0} : Filled(k)'
      BY <2>1, <3>3 DEF Filled
    <3>6. Creating'
      BY <2>1, <3>1, <3>4, <3>5 DEF Creating
    <3>7. Built' /\ Planning' /\ Committed'
      BY <2>1, <2>3, <3>1 DEF Built, Planning, Committed
    <3> QED BY <1>1, <2>1, <3>1, <3>6, <3>7
  <2> QED BY <2>2, <2>3
<1>3. CASE CreatePlan
  <2>1. /\ pc = "create" /\ graph' = graph /\ info' = info /\ data' = data
        /\ ~searching /\ searching' = searching
        /\ (at' = at + 1 /\ pc' = pc) \/ pc' = "failed"
    BY <1>3 DEF CreatePlan, Creating, planner, P!AddBuffer
  <2>2. CASE at' = at + 1 /\ pc' = pc
    <3>1. at' \in 1 .. Len(info') + 1 /\ \A k \in {at} : Filled(k)'
      BY <1>3, <2>1, <2>2, CreateFills
    <3>2. at \in Int
      BY <2>1 DEF Creating
    <3>3. \A k \in {at' - 1} : k = at /\ Filled(k)'
      BY <2>2, <3>1, <3>2
    <3>4. Creating'
      BY <2>1, <2>2, <3>1, <3>3 DEF Creating
    <3>5. Built' /\ Planning' /\ Committed'
      BY <2>1, <2>2 DEF Built, Planning, Committed
    <3> QED BY <1>1, <2>1, <2>2, <3>4, <3>5
  <2>3. CASE pc' = "failed"
    BY <1>1, <2>1, <2>3 DEF Built, Creating, Planning, Committed
  <2> QED BY <2>1, <2>2, <2>3
<1>4. CASE GetMaximumMemorySize
  <2>1. /\ pc = "create" /\ pc' = "plan" /\ graph' = graph /\ info' = info /\ at > Len(info)
        /\ requirements' = requirements
        /\ requirements = <<>> \/ ~need'
    BY <1>4 DEF GetMaximumMemorySize, planner, P!CalculateOffsetsIfNeeded
  <2>2. at - 1 = Len(info) /\ Filled(at - 1)
    <3>1. Len(info) \in Nat /\ at \in 1 .. Len(info) + 1 /\ Filled(at - 1)
      BY <2>1, BuiltFacts DEF Creating
    <3> QED BY <2>1, <3>1
  <2>3. Filled(Len(info))'
    BY <2>1, <2>2 DEF Filled
  <2> QED BY <1>1, <2>1, <2>3 DEF Built, Creating, Planning, Committed
<1>5. CASE Search
  <2>1. /\ pc = "plan" /\ pc' = pc /\ graph' = graph /\ info' = info
        /\ requirements' = requirements /\ need' = need
    BY <1>5 DEF Search, P!SearchStep, P!PassEntry, P!PlaceBuffer
  <2>2. Planning'
    BY <2>1 DEF Planning, Filled
  <2> QED BY <1>1, <2>1, <2>2 DEF Built, Creating, Committed
<1>6. CASE CommitPlan
  <2>1. /\ pc = "plan" /\ pc' = "ready" /\ graph' = graph /\ info' = info /\ ~searching
        /\ requirements' = requirements /\ need' = need /\ searching' = searching
        /\ offsets' = offsets
        /\ data' = [i \in 1 .. Len(info) |-> IF info[i].needs_allocating
                                             THEN offsets[Index(info, i)] ELSE NullData]
    BY <1>6 DEF CommitPlan, planner, PlannerIndex, Index
  <2>2. Planning' /\ Committed'
    BY <2>1 DEF Planning, Filled, Committed
  <2> QED BY <1>1, <2>1, <2>2 DEF Built, Creating
<1>7. CASE SetInputs \/ InvokeNode \/ InvokeDone
  <2>1. /\ pc \in {"ready", "run"} /\ pc' \in {"ready", "run"}
        /\ graph' = graph /\ info' = info /\ data' = data
        /\ requirements' = requirements /\ need' = need /\ searching' = searching
        /\ offsets' = offsets
    BY <1>7 DEF SetInputs, InvokeNode, InvokeDone, planner
  <2>2. Planning' /\ Committed'
    BY <2>1 DEF Planning, Filled, Committed
  <2> QED BY <1>1, <2>1, <2>2 DEF Built, Creating
<1>8. CASE UNCHANGED vars
  <2>1. /\ pc' = pc /\ graph' = graph /\ info' = info /\ data' = data /\ at' = at
        /\ requirements' = requirements /\ need' = need /\ searching' = searching
        /\ offsets' = offsets
    BY <1>8 DEF vars, planner
  <2> QED BY <1>1, <2>1 DEF Built, Creating, Planning, Filled, Committed
<1> QED BY <1>2, <1>3, <1>4, <1>5, <1>6, <1>7, <1>8 DEF Next, CommitStaticMemoryPlan

(* PlanInv is an inductive invariant.                                      *)
LEMMA PlanInvariant == Spec => []PlanInv
  BY PlanInit, PlanStep, PTL DEF Spec

-----------------------------------------------------------------------------
(* An element of info with memory: its buffer in the planner.              *)
LEMMA BufferOf ==
    ASSUME PlanInv, pc \in {"ready", "run"}, NEW x \in 1 .. Len(info), info[x].needs_allocating
    PROVE  /\ Index(info, x) \in PP!Ids /\ requirements[Index(info, x)] = Request(info[x])
           /\ data[x] = offsets[Index(info, x)] /\ data[x] \in Nat /\ data[x] # NullData
           /\ PP!UpToDate /\ requirements # <<>>
           /\ info[x].bytes \in Nat /\ requirements[Index(info, x)].size >= info[x].bytes
           /\ requirements[Index(info, x)].size \in Nat
<1> DEFINE b == Index(info, x)
<1>1. /\ info \in Seq(Info) /\ Len(info) \in Nat /\ Filled(Len(info)) /\ ~searching
      /\ requirements = <<>> \/ ~need
  BY BuiltFacts DEF PlanInv, Planning, Committed
<1>2. b \in Nat /\ b >= 1 /\ b <= Index(info, Len(info)) /\ Index(info, Len(info)) \in Nat
  <2>1. x \in 0 .. Len(info) /\ Len(info) \in 0 .. Len(info) /\ x > 0
    BY <1>1
  <2> QED BY <1>1, <2>1, IndexCounts, IndexRises
<1>3. b \in PP!Ids /\ requirements[b] = Request(info[x])
  BY <1>1, <1>2 DEF Filled, PP!Ids
<1>4. requirements # <<>>
  BY <1>2, <1>3 DEF PP!Ids
<1>5. PP!UpToDate
  BY <1>1, <1>4 DEF PP!UpToDate
<1>6. data[x] = offsets[b]
  BY DEF PlanInv, Committed
<1>7. offsets[b] \in Nat
  <2>1. b \in PP!Placed
    BY <1>3, <1>5 DEF PlanInv, PlannerHolds, PP!PlannerInv, PP!PlanComplete, PP!Unplaced
  <2>2. PICK k \in 1 .. Len(entries) : entries[k].requirements_index = b
    BY <2>1 DEF PP!Placed
  <2>3. entries[k].offset \in Nat /\ entries[k].offset = offsets[b]
    <3>1. PP!TypeOK /\ PP!Recorded
      BY DEF PlanInv, PlannerHolds, PP!PlannerInv
    <3> QED BY <2>2, <3>1, PP!Fields, PlannerUsable DEF PP!Recorded
  <2> QED BY <2>3
<1>8. info[x].bytes \in Nat
  <2>1. info[x] \in Info
    BY <1>1, LenProperties
  <2> QED BY <2>1 DEF Info
<1>9. /\ info[x].bytes \in Nat /\ requirements[b].size >= info[x].bytes
      /\ requirements[b].size \in Nat
  <2>1. requirements[b].size = AlignSizeUp(info[x].bytes)
    BY <1>3 DEF Request
  <2> QED BY <1>8, <2>1, SizeCovers
<1> QED BY <1>3, <1>4, <1>5, <1>6, <1>7, <1>9 DEF NullData

(* Tensors and scratch buffers end inside of what the planner asks for.    *)
THEOREM PlansInside == Spec => []InsidePlan
<1>1. PlanInv => InsidePlan
  <2> SUFFICES ASSUME PlanInv, pc \in {"ready", "run"}, NEW x \in DOMAIN data, data[x] # NullData
               PROVE  data[x] + info[x].bytes <= P!GetMaximumMemorySize
    BY DEF InsidePlan
  <2>1. x \in 1 .. Len(info) /\ info[x].needs_allocating
    BY DEF PlanInv, Committed
  <2> DEFINE b == Index(info, x)
  <2>2. /\ b \in PP!Ids /\ data[x] = offsets[b] /\ data[x] \in Nat
        /\ PP!UpToDate /\ requirements # <<>> /\ info[x].bytes \in Nat
        /\ requirements[b].size >= info[x].bytes /\ requirements[b].size \in Nat
    BY <2>1, BufferOf
  <2> HIDE DEF b
  <2>3. PP!End(b) <= PP!GetMaximumMemorySize /\ PP!GetMaximumMemorySize \in Nat
    BY <2>2, PP!MaximumIsHighest, PP!MaximumFound, PlannerUsable
    DEF PlanInv, PlannerHolds, PP!HighWaterMark
  <2>4. P!GetMaximumMemorySize = PP!GetMaximumMemorySize
    BY DEF P!GetMaximumMemorySize, PP!GetMaximumMemorySize, P!EntryEnd, PP!EntryEnd, P!Fold, PP!Fold
  <2>5. PP!End(b) = data[x] + requirements[b].size
    BY <2>2 DEF PP!End
  <2> QED BY <2>2, <2>3, <2>4, <2>5
<1> QED BY <1>1, PlanInvariant, PTL

-----------------------------------------------------------------------------
(* The client or one of the first k operators writes x.                    *)
Written(x, k) ==
    x \in graph.inputs \/ \E i \in 0 .. k - 1 : x \in graph.ops[i + 1].outputs \cup ScratchOf(i)

(* What was written for the operator that runs, or a later one, is there.  *)
Live ==
    pc = "run" =>
        /\ at \in 0 .. Len(graph.ops)
        /\ \A x \in 1 .. Len(info) :
              info[x].needs_allocating /\ Written(x, at) /\ info[x].last_used >= at - 1 =>
                 x \in intact

(* Elements of info that are in use at the same time share no bytes.       *)
LEMMA InfoApart ==
    ASSUME PlanInv, pc \in {"ready", "run"}, NEW x \in 1 .. Len(info), NEW y \in 1 .. Len(info),
           x # y, info[x].needs_allocating, info[y].needs_allocating,
           info[x].first_created <= info[y].last_used, info[y].first_created <= info[x].last_used
    PROVE  ~ShareBytes(x, y)
<1> SUFFICES ASSUME ShareBytes(x, y) PROVE FALSE
  OBVIOUS
<1> DEFINE b == Index(info, x)
           c == Index(info, y)
<1>1. /\ info = AllocationInfo(graph) /\ IsModel(graph) /\ ~InfoFails(graph)
      /\ info \in Seq(Info) /\ Len(info) \in Nat
      /\ Len(info) = Len(graph.bytes) + Len(graph.scratch)
  BY BuiltFacts
<1>2. /\ b \in PP!Ids /\ requirements[b] = Request(info[x]) /\ data[x] = offsets[b]
      /\ c \in PP!Ids /\ requirements[c] = Request(info[y]) /\ data[y] = offsets[c]
      /\ PP!UpToDate
  BY BufferOf
<1>3. /\ data[x] \in Nat /\ info[x].bytes \in Nat
      /\ requirements[b].size >= info[x].bytes /\ requirements[b].size \in Nat
      /\ data[y] \in Nat /\ info[y].bytes \in Nat
      /\ requirements[c].size >= info[y].bytes /\ requirements[c].size \in Nat
  BY BufferOf
<1>4. b # c
  <2>1. /\ x \in 0 .. Len(info) /\ y \in 0 .. Len(info)
        /\ (x \in 0 .. y /\ x < y) \/ (y \in 0 .. x /\ y < x)
    <3>1. Len(info) \in Nat
      BY <1>1
    <3> QED BY <3>1
  <2>2. Index(info, x) \in Nat /\ Index(info, y) \in Nat
    BY <1>1, <2>1, IndexCounts
  <2>3. b < c \/ c < b
    BY <1>1, <2>1, IndexRises
  <2> QED BY <2>2, <2>3
<1>5. /\ data[x] < data[y] + info[y].bytes /\ data[y] < data[x] + info[x].bytes
  BY DEF ShareBytes
<1>6. /\ requirements[b].first_time_used = info[x].first_created
      /\ requirements[b].last_time_used = info[x].last_used
      /\ requirements[c].first_time_used = info[y].first_created
      /\ requirements[c].last_time_used = info[y].last_used
      /\ requirements[b].offline_offset = info[x].offline_offset
      /\ requirements[c].offline_offset = info[y].offline_offset
  BY <1>2 DEF Request
<1> HIDE DEF b, c
<1>7. PP!Overlap(b, offsets[b], c, offsets[c])
  BY <1>2, <1>3, <1>5, <1>6 DEF PP!Overlap
<1>8. ~PP!Online(b) /\ ~PP!Online(c)
  <2>1. b \in PP!Placed /\ c \in PP!Placed
    BY <1>2 DEF PlanInv, PlannerHolds, PP!PlannerInv, PP!PlanComplete, PP!Unplaced
  <2> QED BY <1>4, <1>7, <2>1 DEF PlanInv, PlannerHolds, PP!PlannerInv, PP!PlacedApart
<1>9. /\ data[x] = info[x].offline_offset /\ info[x].offline_offset # -1
      /\ data[y] = info[y].offline_offset /\ info[y].offline_offset # -1
  BY <1>2, <1>6, <1>8
  DEF PlanInv, PlannerHolds, PP!OfflineKept, PP!UpToDate, PP!Online, PP!kOnlinePlannedBuffer
<1>10. ASSUME NEW z \in 1 .. Len(info), info[z].offline_offset # -1 PROVE z \in Tensors(graph)
  <2>1. Len(graph.bytes) \in Nat /\ Len(graph.scratch) \in Nat
    BY <1>1, ModelFacts
  <2> SUFFICES ASSUME z \notin Tensors(graph) PROVE FALSE
    OBVIOUS
  <2> DEFINE s == z - Len(graph.bytes)
  <2>2. s \in 1 .. Len(graph.scratch) /\ z = Len(graph.bytes) + s
    <3>1. z \in 1 .. Len(graph.bytes) + Len(graph.scratch) /\ z \notin 1 .. Len(graph.bytes)
      BY BuiltFacts, Zenon DEF Tensors
    <3> QED BY <2>1, <3>1, Numbering, Zenon
  <2>3. info[z] = ScratchInfo(graph.scratch[s])
    BY <1>1, <2>2, InfoFacts
  <2> QED BY <1>10, <2>3 DEF ScratchInfo
<1>11. x \in Tensors(graph) /\ y \in Tensors(graph)
  BY <1>9, <1>10
<1>12. \/ info[x].last_used < info[y].first_created \/ info[y].last_used < info[x].first_created
       \/ info[x].offline_offset + info[x].bytes <= info[y].offline_offset
       \/ info[y].offline_offset + info[y].bytes <= info[x].offline_offset
  <2>1. OfflineApart(graph)
    BY <1>1, MicroPlanAssumption DEF PlanInv
  <2> QED BY <1>1, <1>9, <1>11, <2>1 DEF OfflineApart
<1>13. /\ info[x].first_created \in Nat /\ info[x].last_used \in Nat
       /\ info[y].first_created \in Nat /\ info[y].last_used \in Nat
  BY <1>1, InfoFacts
<1> DEFINE dx == data[x]
           dy == data[y]
           nx == info[x].bytes
           ny == info[y].bytes
<1>14. dx \in Nat /\ dy \in Nat /\ nx \in Nat /\ ny \in Nat
  BY <1>3
<1>15. dx + nx <= dy \/ dy + ny <= dx
  BY <1>9, <1>12, <1>13
<1>16. dx < dy + ny /\ dy < dx + nx
  BY <1>5
<1> HIDE DEF dx, dy, nx, ny
<1> QED BY <1>14, <1>15, <1>16

(* What operator i writes is in use while it runs.                         *)
LEMMA WriteTimes ==
    ASSUME PlanInv, pc \in {"ready", "run"}, NEW i \in 0 .. Len(graph.ops) - 1,
           NEW x \in graph.ops[i + 1].outputs \cup ScratchOf(i)
    PROVE  /\ x \in 1 .. Len(info)
           /\ x \in graph.preset \cup graph.variables \/ info[x].needs_allocating
           /\ info[x].needs_allocating => info[x].first_created <= i /\ i <= info[x].last_used
<1> DEFINE n == Len(graph.ops)
<1>1. /\ info = AllocationInfo(graph) /\ IsModel(graph) /\ ~InfoFails(graph)
      /\ Len(info) = Len(graph.bytes) + Len(graph.scratch)
      /\ Len(graph.bytes) \in Nat /\ Len(graph.scratch) \in Nat /\ n \in Nat
  BY BuiltFacts, ModelFacts
<1>2. \A z \in 1 .. Len(info) :
         info[z].needs_allocating => info[z].first_created \in Nat /\ info[z].last_used \in Nat
  BY <1>1, InfoFacts
<1>3. \A t \in Tensors(graph) : t \in 1 .. Len(info) /\ Covers(graph, t, info[t])
  <2>1. \A t \in Tensors(graph) : Covers(graph, t, info[t])
    BY <1>1, InfoFacts
  <2>2. \A t \in 1 .. Len(graph.bytes) : t \in 1 .. Len(graph.bytes) + Len(graph.scratch)
    BY <1>1, Numbering, Zenon
  <2> QED BY <2>1, <2>2, BuiltFacts, Zenon DEF Tensors
<1>4. CASE OutputOf(graph, x, i)
  <2>1. x \in Tensors(graph)
    BY <1>1, <1>4, ModelFacts DEF OutputOf
  <2>2. x \in 1 .. Len(info) /\ Covers(graph, x, info[x])
    BY <1>3, <2>1
  <2>3. x \notin graph.preset \cup graph.variables => info[x].needs_allocating
    BY <1>4, <2>2 DEF Covers
  <2>4. ASSUME info[x].needs_allocating
        PROVE  info[x].first_created <= i /\ i <= info[x].last_used
    <3>1. /\ info[x].first_created \in 0 .. i /\ info[x].last_used \in Nat
          /\ x \in graph.outputs => info[x].last_used >= n - 1
          /\ x \in graph.outputs \/ \E j \in 0 .. n - 1 : InputOf(graph, x, j)
          /\ \A j \in 0 .. n - 1 : InputOf(graph, x, j) => info[x].last_used >= j
      <4>1. info[x].last_used \in Nat
        BY <1>2, <2>2, <2>4
      <4>2. info[x].last_used # -1
        BY <4>1
      <4> QED BY <1>4, <2>2, <2>4, <4>1, <4>2 DEF Covers
    <3>2. CASE x \in graph.outputs
      <4>1. info[x].last_used >= n - 1 /\ n \in Nat
        BY <1>1, <3>1, <3>2
      <4> QED BY <3>1, <4>1
    <3>3. ASSUME NEW j \in 0 .. n - 1, InputOf(graph, x, j)
          PROVE  i < j
      <4>1. i + 1 \in 1 .. n /\ j + 1 \in 1 .. n
        BY <1>1
      <4>2. i + 1 < j + 1
        BY <1>1, <1>4, <3>3, <4>1 DEF IsModel, InputOf, OutputOf
      <4> QED BY <4>2
    <3>4. CASE x \notin graph.outputs
      <4>1. PICK j \in 0 .. n - 1 : InputOf(graph, x, j)
        BY <3>1, <3>4
      <4>2. i < j /\ info[x].last_used >= j
        BY <3>1, <3>3, <4>1
      <4>3. j \in Int /\ i \in Int
        OBVIOUS
      <4> QED BY <3>1, <4>2, <4>3
    <3> QED BY <3>2, <3>4
  <2> QED BY <2>2, <2>3, <2>4
<1>5. CASE x \in OperatorOnly(graph) /\ InputOf(graph, x, i)
  <2>1. x \in Tensors(graph)
    BY <1>5 DEF OperatorOnly
  <2>2. x \in 1 .. Len(info) /\ Covers(graph, x, info[x])
    BY <1>3, <2>1
  <2> QED BY <1>5, <2>2 DEF Covers
<1>6. ASSUME NEW s \in 1 .. Len(graph.scratch), graph.scratch[s].node = i,
             x = Len(graph.bytes) + s
      PROVE  x \in 1 .. Len(info) /\ info[x].needs_allocating
             /\ info[x].first_created <= i /\ i <= info[x].last_used
  <2>1. info[x] = ScratchInfo(graph.scratch[s])
    BY <1>1, <1>6, InfoFacts
  <2>2. x \in 1 .. Len(info)
    <3>1. Len(graph.bytes) + s \in 1 .. Len(graph.bytes) + Len(graph.scratch)
      BY <1>1, Numbering, Zenon
    <3> QED BY <1>6, <3>1, BuiltFacts, Zenon
  <2>3. info[x].needs_allocating /\ info[x].first_created = i /\ info[x].last_used = i
    BY <1>6, <2>1 DEF ScratchInfo
  <2> QED BY <2>2, <2>3
<1> QED BY <1>4, <1>5, <1>6 DEF ScratchOf, InputOf, OutputOf

(* What is written was not in use before, and has memory.                  *)
LEMMA WrittenTimes ==
    ASSUME PlanInv, pc \in {"ready", "run"}, NEW k \in 0 .. Len(graph.ops), NEW x, Written(x, k)
    PROVE  /\ x \in 1 .. Len(info)
           /\ x \in graph.preset \cup graph.variables \/ info[x].needs_allocating
           /\ info[x].needs_allocating =>
                 info[x].first_created = 0 \/ info[x].first_created < k
<1>1. CASE x \in graph.inputs
  <2>1. x \in Tensors(graph) /\ IsModel(graph)
    BY <1>1, BuiltFacts DEF IsModel
  <2>2. Covers(graph, x, info[x])
    BY <2>1, BuiltFacts, InfoFacts
  <2>3. x \in 1 .. Len(info)
    <3>1. x \in 1 .. Len(graph.bytes) /\ Len(graph.bytes) \in Nat /\ Len(graph.scratch) \in Nat
      BY <2>1, ModelFacts DEF Tensors
    <3>2. x \in 1 .. Len(graph.bytes) + Len(graph.scratch)
      BY <3>1, Numbering, Zenon
    <3> QED BY <3>2, BuiltFacts, Zenon
  <2> QED BY <1>1, <2>2, <2>3 DEF Covers
<1>2. ASSUME NEW i \in 0 .. k - 1, x \in graph.ops[i + 1].outputs \cup ScratchOf(i)
      PROVE  /\ x \in 1 .. Len(info)
             /\ x \in graph.preset \cup graph.variables \/ info[x].needs_allocating
             /\ info[x].needs_allocating => info[x].first_created < k
  <2>1. Len(graph.ops) \in Nat
    BY BuiltFacts, ModelFacts
  <2>2. i \in 0 .. Len(graph.ops) - 1 /\ i < k
    BY <2>1
  <2>3. /\ x \in 1 .. Len(info)
        /\ x \in graph.preset \cup graph.variables \/ info[x].needs_allocating
        /\ info[x].needs_allocating => info[x].first_created <= i
    BY <1>2, <2>2, WriteTimes
  <2>4. info[x].needs_allocating => info[x].first_created \in Nat
    BY <2>3, BuiltFacts, InfoFacts
  <2>5. info[x].needs_allocating => info[x].first_created < k
    BY <2>2, <2>3, <2>4
  <2> QED BY <2>3, <2>5
<1> QED BY <1>1, <1>2 DEF Written

(* The client writes the inputs, or operator i what WriteTimes is about: W *)
(* is in use at time i, and so is what is kept.                            *)
LEMMA WriteKeeps ==
    ASSUME PlanInv, pc \in {"ready", "run"}, NEW i \in Nat, NEW W \in SUBSET (1 .. Len(info)),
           Write(W),
           \A y \in W : info[y].needs_allocating =>
                           info[y].first_created <= i /\ i <= info[y].last_used,
           NEW x \in 1 .. Len(info), info[x].needs_allocating, x \in intact \/ x \in W,
           info[x].first_created <= i, i <= info[x].last_used
    PROVE  x \in intact'
<1> DEFINE placed == {y \in W : data[y] # NullData}
<1>1. intact' = {y \in intact \cup placed : \A z \in placed \ {y} : ~ShareBytes(y, z)}
  BY DEF Write
<1>2. x \in intact \cup placed
  BY BufferOf
<1>3. ASSUME NEW z \in placed \ {x} PROVE ~ShareBytes(x, z)
  <2>1. z \in W /\ z \in 1 .. Len(info) /\ data[z] # NullData /\ z # x
    OBVIOUS
  <2>2. info[z].needs_allocating
    BY <2>1 DEF PlanInv, Committed
  <2>3. info[z].first_created <= i /\ i <= info[z].last_used
    BY <2>1, <2>2
  <2>4. /\ info[x].first_created \in Nat /\ info[x].last_used \in Nat
        /\ info[z].first_created \in Nat /\ info[z].last_used \in Nat
    BY <2>1, <2>2, BuiltFacts, InfoFacts
  <2>5. info[x].first_created <= info[z].last_used /\ info[z].first_created <= info[x].last_used
    BY <2>3, <2>4
  <2> QED BY <2>1, <2>2, <2>5, InfoApart
<1> HIDE DEF placed
<1> QED BY <1>1, <1>2, <1>3

(* What the client writes is what it did not have to write before.         *)
LEMMA SetInputsLive ==
    ASSUME PlanInv, SetInputs
    PROVE  Live'
<1>1. /\ pc = "ready" /\ Write(graph.inputs) /\ at' = 0 /\ graph' = graph /\ info' = info
      /\ pc \in {"ready", "run"}
  BY DEF SetInputs
<1>2. Len(graph.ops) \in Nat /\ 0 \in 0 .. Len(graph.ops) /\ 0 .. 0 - 1 = {} /\ 0 \in Nat
  BY <1>1, BuiltFacts, ModelFacts
<1>3. \A x \in graph.inputs : Written(x, 0)
  BY DEF Written
<1>4. \A x \in graph.inputs :
         /\ x \in 1 .. Len(info)
         /\ info[x].needs_allocating => info[x].first_created <= 0 /\ 0 <= info[x].last_used
  <2> SUFFICES ASSUME NEW x \in graph.inputs
               PROVE  /\ x \in 1 .. Len(info)
                      /\ info[x].needs_allocating =>
                            info[x].first_created <= 0 /\ 0 <= info[x].last_used
    OBVIOUS
  <2>1. x \in 1 .. Len(info)
    BY <1>1, <1>2, <1>3, WrittenTimes
  <2>2. info[x].needs_allocating => info[x].first_created \in Nat /\ info[x].last_used \in Nat
    BY <1>1, <2>1, BuiltFacts, InfoFacts
  <2>3. info[x].needs_allocating => info[x].first_created = 0 \/ info[x].first_created < 0
    BY <1>1, <1>2, <1>3, WrittenTimes
  <2> QED BY <2>1, <2>2, <2>3
<1>5. ASSUME NEW x \in 1 .. Len(info), info[x].needs_allocating, x \in graph.inputs
      PROVE  x \in intact'
  <2>1. graph.inputs \in SUBSET (1 .. Len(info))
    BY <1>4
  <2> QED BY <1>1, <1>2, <1>4, <1>5, <2>1, WriteKeeps
<1>6. ASSUME NEW x, Written(x, at)' PROVE x \in graph.inputs
  BY <1>1, <1>2, <1>6 DEF Written
<1> QED BY <1>1, <1>2, <1>5, <1>6 DEF Live

(* What operator at writes was not in use by it or by a later one.         *)
LEMMA InvokeLive ==
    ASSUME PlanInv, Live, InvokeNode
    PROVE  Live'
<1> DEFINE n == Len(graph.ops)
           W == graph.ops[at + 1].outputs \cup ScratchOf(at)
<1>1. /\ pc = "run" /\ at < n /\ Write(W) /\ at' = at + 1 /\ graph' = graph /\ info' = info
      /\ pc \in {"ready", "run"}
  BY DEF InvokeNode
<1>2. n \in Nat /\ at \in 0 .. n /\ at \in Nat /\ at \in 0 .. n - 1 /\ at + 1 \in 0 .. n
  <2>1. n \in Nat /\ at \in 0 .. n /\ at < n
    BY <1>1, BuiltFacts, ModelFacts DEF Live
  <2> QED BY <2>1
<1>3. \A y \in W : /\ y \in 1 .. Len(info)
                   /\ info[y].needs_allocating =>
                         info[y].first_created <= at /\ at <= info[y].last_used
  BY <1>1, <1>2, WriteTimes
<1> HIDE DEF W
<1>4. ASSUME NEW x \in 1 .. Len(info), info[x].needs_allocating,
             x \in W \/ Written(x, at), info[x].last_used >= at
      PROVE  x \in intact'
  <2>1. info[x].first_created \in Nat /\ info[x].last_used \in Nat
    BY <1>1, <1>4, BuiltFacts, InfoFacts
  <2>2. info[x].first_created <= at
    <3>1. CASE x \in W
      BY <1>3, <1>4, <3>1
    <3>2. CASE Written(x, at)
      <4>1. info[x].first_created = 0 \/ info[x].first_created < at
        BY <1>1, <1>2, <1>4, <3>2, WrittenTimes
      <4> QED BY <1>2, <2>1, <4>1
    <3> QED BY <1>4, <3>1, <3>2
  <2>3. x \in intact \/ x \in W
    <3>1. info[x].last_used >= at - 1
      BY <1>2, <1>4, <2>1
    <3> QED BY <1>1, <1>4, <3>1 DEF Live
  <2>4. W \in SUBSET (1 .. Len(info)) /\ at <= info[x].last_used
    BY <1>2, <1>3, <1>4, <2>1
  <2> QED BY <1>1, <1>2, <1>3, <1>4, <2>2, <2>3, <2>4, WriteKeeps
<1>5. ASSUME NEW x, Written(x, at)' PROVE x \in W \/ Written(x, at)
  <2>1. \A i \in 0 .. (at + 1) - 1 : i = at \/ i \in 0 .. at - 1
    BY <1>2
  <2>2. x \in graph.inputs \/ \E i \in 0 .. (at + 1) - 1 :
                                x \in graph.ops[i + 1].outputs \cup ScratchOf(i)
    BY <1>1, <1>5 DEF Written, ScratchOf
  <2> QED BY <2>1, <2>2 DEF Written, W
<1>6. \A u \in Int : u >= (at + 1) - 1 => u >= at
  BY <1>2
<1>7. ASSUME NEW x \in 1 .. Len(info), info[x].needs_allocating, Written(x, at)',
             info[x].last_used >= (at + 1) - 1
      PROVE  x \in intact'
  <2>1. info[x].last_used \in Nat
    BY <1>1, <1>7, BuiltFacts, InfoFacts
  <2>2. info[x].last_used >= at
    BY <1>2, <1>7, <2>1
  <2> QED BY <1>4, <1>5, <1>7, <2>2
<1> QED BY <1>1, <1>2, <1>7 DEF Live

(* Live is an inductive invariant, with PlanInv.                           *)
LEMMA LiveStep ==
    ASSUME PlanInv, Live, [Next]_vars
    PROVE  Live'
<1>1. CASE SetInputs
  BY <1>1, SetInputsLive
<1>2. CASE InvokeNode
  BY <1>2, InvokeLive
<1>3. CASE CommitStaticMemoryPlan \/ InvokeDone
  <2>1. pc' # "run"
    BY <1>3 DEF CommitStaticMemoryPlan, BuildInfo, CreatePlan, GetMaximumMemorySize, Search,
                CommitPlan, InvokeDone
  <2> QED BY <2>1 DEF Live
<1>4. CASE UNCHANGED vars
  <2>1. pc' = pc /\ at' = at /\ graph' = graph /\ info' = info /\ intact' = intact
    BY <1>4 DEF vars
  <2> QED BY <2>1 DEF Live, Written, ScratchOf
<1> QED BY <1>1, <1>2, <1>3, <1>4 DEF Next

(* While an operator runs, none of its inputs, outputs and scratch buffers *)
(* is overwritten, by it or by one before it, and the outputs of the graph *)
(* are there when all have run: lifetimes and plan of CommitStaticMemory-  *)
(* Plan are right for every model.                                         *)
THEOREM OperandsSafe == Spec => []OperandsHeld
<1>1. ASSUME PlanInv, Live PROVE OperandsHeld
  <2> DEFINE n == Len(graph.ops)
  <2> SUFFICES ASSUME pc = "run", at > 0
               PROVE  /\ \A x \in graph.ops[at].inputs \cup graph.ops[at].outputs
                                     \cup ScratchOf(at - 1) : Held(x)
                      /\ at = n => \A x \in graph.outputs : Held(x)
    BY DEF OperandsHeld
  <2>1. /\ n \in Nat /\ at \in 0 .. n /\ IsModel(graph) /\ pc \in {"ready", "run"}
        /\ info = AllocationInfo(graph) /\ ~InfoFails(graph)
    BY <1>1, BuiltFacts, ModelFacts DEF Live
  <2>2. /\ at - 1 \in 0 .. n - 1 /\ at - 1 \in 0 .. at - 1 /\ (at - 1) + 1 = at /\ at \in 1 .. n
    BY <2>1
  <2>3. ASSUME NEW x, Written(x, at),
               x \in 1 .. Len(info) /\ info[x].needs_allocating => info[x].last_used >= at - 1
        PROVE  Held(x)
    BY <1>1, <2>1, <2>3, WrittenTimes DEF Live, Held
  <2>4. ASSUME NEW x \in graph.ops[at].outputs \cup ScratchOf(at - 1) PROVE Held(x)
    <3>1. x \in graph.ops[(at - 1) + 1].outputs \cup ScratchOf(at - 1)
      BY <2>2, <2>4
    <3>2. info[x].needs_allocating => at - 1 <= info[x].last_used
      BY <1>1, <2>1, <2>2, <3>1, WriteTimes
    <3>3. x \in 1 .. Len(info) /\ info[x].needs_allocating => info[x].last_used \in Nat
      BY <2>1, InfoFacts
    <3>4. x \in 1 .. Len(info) /\ info[x].needs_allocating => info[x].last_used >= at - 1
      BY <2>1, <3>2, <3>3
    <3>5. Written(x, at)
      BY <2>2, <3>1 DEF Written
    <3> QED BY <2>3, <3>4, <3>5
  <2>5. ASSUME NEW x \in Tensors(graph), x \notin graph.preset \cup graph.variables,
               x \notin OperatorOnly(graph)
        PROVE  x \in graph.inputs \/ \E k \in 1 .. n : x \in graph.ops[k].outputs
    BY <2>5 DEF OperatorOnly
  <2>6. ASSUME NEW k \in 1 .. at, NEW x \in graph.ops[k].outputs PROVE Written(x, at)
    <3>1. k - 1 \in 0 .. at - 1 /\ (k - 1) + 1 = k
      BY <2>1
    <3> QED BY <3>1 DEF Written
  <2>7. ASSUME NEW x \in graph.ops[at].inputs PROVE Held(x)
    <3>1. InputOf(graph, x, at - 1) /\ x \in Tensors(graph)
      BY <2>1, <2>2, ModelFacts DEF InputOf
    <3>2. CASE x \in OperatorOnly(graph)
      BY <2>2, <2>4, <2>7, <3>2 DEF ScratchOf
    <3>3. CASE x \in graph.preset \cup graph.variables
      BY <3>3 DEF Held
    <3>4. CASE x \notin OperatorOnly(graph) /\ x \notin graph.preset \cup graph.variables
      <4>1. info[x].last_used >= at - 1
        BY <2>1, <2>2, <3>1, InfoFacts DEF Covers
      <4>2. ASSUME NEW k \in 1 .. n, x \in graph.ops[k].outputs PROVE k \in 1 .. at
        <5>1. k < at
          BY <2>1, <2>2, <2>7, <4>2 DEF IsModel
        <5> QED BY <2>1, <5>1
      <4>3. Written(x, at)
        BY <2>5, <2>6, <3>1, <3>4, <4>2 DEF Written
      <4> QED BY <2>3, <4>1, <4>3
    <3> QED BY <3>2, <3>3, <3>4
  <2>8. ASSUME at = n, NEW x \in graph.outputs PROVE Held(x)
    <3>1. x \in Tensors(graph)
      BY <2>1 DEF IsModel
    <3>2. info[x].last_used >= at - 1
      BY <2>1, <2>8, <3>1, InfoFacts DEF Covers
    <3>3. CASE x \in OperatorOnly(graph)
      <4>1. PICK k \in 1 .. n : x \in graph.ops[k].inputs
        BY <2>1, <3>3 DEF IsModel
      <4>2. k - 1 \in 0 .. at - 1 /\ (k - 1) + 1 = k
        BY <2>1, <2>8
      <4>3. x \in ScratchOf(k - 1)
        BY <3>3, <4>1, <4>2 DEF ScratchOf
      <4>4. Written(x, at)
        BY <4>2, <4>3 DEF Written
      <4> QED BY <2>3, <3>2, <4>4
    <3>4. CASE x \in graph.preset \cup graph.variables
      BY <3>4 DEF Held
    <3>5. CASE x \notin OperatorOnly(graph) /\ x \notin graph.preset \cup graph.variables
      <4>1. Written(x, at)
        BY <2>5, <2>6, <2>8, <3>1, <3>5 DEF Written
      <4> QED BY <2>3, <3>2, <4>1
    <3> QED BY <3>3, <3>4, <3>5
  <2> QED BY <2>4, <2>7, <2>8
<1>2. Init => Live
  BY DEF Init, Live
<1> QED BY <1>1, <1>2, LiveStep, PlanInvariant, PTL DEF Spec


-----------------------------------------------------------------------------
(* A plan is refused only for a graph that has no lifetimes or offsets, or *)
(* when the planner has no room for one more buffer.                       *)
RefusedRightly == pc = "failed" => InfoFails(graph) \/ Index(info, Len(info)) > MaxBuffers

(* CreatePlan fails at an element that is one too many.                    *)
LEMMA CreateRefuses ==
    ASSUME PlanInv, CreatePlan, pc' = "failed"
    PROVE  Index(info, Len(info)) > MaxBuffers
<1>1. /\ pc = "create" /\ at <= Len(info) /\ info[at].needs_allocating
      /\ ~(Len(requirements) < MaxBuffers)
  BY DEF CreatePlan
<1>2. info \in Seq(Info) /\ Len(info) \in Nat /\ at \in 1 .. Len(info) + 1 /\ Filled(at - 1)
  BY <1>1, BuiltFacts DEF PlanInv, Creating
<1>3. at \in 1 .. Len(info) /\ at - 1 \in 0 .. Len(info) /\ at \in 0 .. Len(info)
      /\ Len(info) \in 0 .. Len(info)
  BY <1>1, <1>2
<1>4. Index(info, at) = Index(info, at - 1) + 1 /\ Len(requirements) = Index(info, at - 1)
      /\ Index(info, at - 1) \in Nat /\ Index(info, Len(info)) \in Nat
  BY <1>1, <1>2, <1>3, IndexCounts DEF Filled
<1>5. Index(info, at) <= Index(info, Len(info))
  BY <1>2, <1>3, IndexRises
<1> QED BY <1>1, <1>4, <1>5, PlannerUsable

(* Every step keeps RefusedRightly.                                        *)
LEMMA RefusedStep ==
    ASSUME PlanInv, RefusedRightly, [Next]_vars
    PROVE  RefusedRightly'
<1> USE DEF RefusedRightly
<1>1. CASE BuildInfo
  BY <1>1 DEF BuildInfo
<1>2. CASE CreatePlan
  <2>1. pc = "create" /\ (pc' = pc \/ pc' = "failed") /\ info' = info
    BY <1>2 DEF CreatePlan
  <2>2. CASE pc' = "failed"
    BY <1>2, <2>1, <2>2, CreateRefuses
  <2> QED BY <2>1, <2>2
<1>3. CASE GetMaximumMemorySize \/ Search \/ CommitPlan \/ SetInputs \/ InvokeNode \/ InvokeDone
  BY <1>3 DEF GetMaximumMemorySize, Search, CommitPlan, SetInputs, InvokeNode, InvokeDone
<1>4. CASE UNCHANGED vars
  BY <1>4 DEF vars
<1> QED BY <1>1, <1>2, <1>3, <1>4 DEF Next, CommitStaticMemoryPlan

(* For every model, a plan that is not refused has a buffer for everything *)
(* that needs memory, and what is in use at the same time is apart.        *)
THEOREM PlansComplete == Spec => []AllPlanned
<1>1. Init => RefusedRightly
  BY DEF Init, RefusedRightly
<1>2. PlanInv /\ RefusedRightly /\ [Next]_vars => RefusedRightly'
  BY RefusedStep
<1>3. PlanInv /\ RefusedRightly => AllPlanned
  <2> SUFFICES ASSUME PlanInv, RefusedRightly PROVE AllPlanned
    OBVIOUS
  <2>1. pc \in {"plan", "ready", "run"} => Len(requirements) = PlannerIndex(Len(info))
    BY DEF PlanInv, Planning, Filled, PlannerIndex, Index
  <2>2. ASSUME pc \in {"ready", "run"}, NEW x \in DOMAIN info, NEW y \in DOMAIN info, x # y,
               info[x].needs_allocating, info[y].needs_allocating, UsedTogether(x, y)
        PROVE  ~ShareBytes(x, y)
    <3>1. x \in 1 .. Len(info) /\ y \in 1 .. Len(info)
      BY <2>2, BuiltFacts
    <3> QED BY <2>2, <3>1, InfoApart DEF UsedTogether
  <2>3. pc = "failed" => InfoFails(graph) \/ PlannerIndex(Len(info)) > MaxBuffers
    BY DEF RefusedRightly, PlannerIndex, Index
  <2> QED BY <2>1, <2>2, <2>3 DEF AllPlanned
<1> QED BY <1>1, <1>2, <1>3, PlanInvariant, PTL DEF Spec
=============================================================================
