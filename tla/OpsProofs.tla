----------------------------- MODULE OpsProofs --------------------------------
(***************************************************************************)
(* Lemmas that the proofs of several components rest on: sequences, and    *)
(* loops as folds.  A fold is a function f on 0 .. n with f[k] made from   *)
(* f[k - 1]; that there is one, and what every f[k] satisfies, is shown by *)
(* induction, stated over sets and functions.  The operators of            *)
(* PartitionOps are such loops: their subsets are epochs that cover the    *)
(* plan.                                                                   *)
(***************************************************************************)
EXTENDS PartitionOps, SequenceTheorems, WellFoundedInduction, TLAPS

(* Every nonempty set of numbers has a smallest one.                       *)
LEMMA Smallest ==
    ASSUME NEW T \in SUBSET Nat, T # {}
    PROVE  \E x \in T : \A y \in T : ~(y < x)
<1> DEFINE R == OpToRel(<, Nat)
<1>1. IsWellFoundedOn(R, Nat)
  BY NatLessThanWellFounded
<1>2. \A x, y \in Nat : y < x => <<y, x>> \in R
  BY DEF OpToRel
<1> HIDE DEF R
<1>3. PICK x \in T : \A y \in T : ~(<<y, x>> \in R)
  BY <1>1, WFMin
<1> QED BY <1>2, <1>3

(* Induction on 0 .. n, for a set T of numbers.                            *)
LEMMA UpTo ==
    ASSUME NEW n \in Nat, NEW T, 0 \in T, \A k \in 1 .. n : k - 1 \in T => k \in T
    PROVE  \A k \in 0 .. n : k \in T
<1> SUFFICES ASSUME NEW k \in 0 .. n, k \notin T PROVE FALSE
  OBVIOUS
<1> DEFINE B == {j \in 0 .. n : j \notin T}
<1>1. B \in SUBSET Nat /\ B # {}
  OBVIOUS
<1>2. PICK x \in B : \A y \in B : ~(y < x)
  BY <1>1, Smallest
<1>3. x \in 1 .. n /\ x - 1 \in 0 .. n
  BY <1>2
<1> QED BY <1>2, <1>3

(* A loop of n iterations, the k-th of which turns a into step[k][a], and  *)
(* what it has, if it starts with base, after each of them.                *)
Steps(A, n) == [1 .. n -> [A -> A]]

IsIteration(f, A, n, base, step) ==
    f \in [0 .. n -> A] /\ f[0] = base /\ \A k \in 1 .. n : f[k] = step[k][f[k - 1]]

(* A loop has a result after each iteration.                               *)
LEMMA IterationExists ==
    ASSUME NEW A, NEW base \in A, NEW n \in Nat, NEW step \in Steps(A, n)
    PROVE  \E f : IsIteration(f, A, n, base, step)
<1> DEFINE Good(m, f) == f[0] = base /\ \A k \in 1 .. m : f[k] = step[k][f[k - 1]]
           T == {m \in 0 .. n : \E f \in [0 .. m -> A] : Good(m, f)}
<1> USE DEF Steps
<1>1. 0 \in T
  <2> DEFINE f0 == [k \in 0 .. 0 |-> base]
  <2>1. f0 \in [0 .. 0 -> A] /\ Good(0, f0)
    OBVIOUS
  <2> HIDE DEF f0, Good
  <2> QED BY <2>1
<1>2. ASSUME NEW m \in 1 .. n, m - 1 \in T PROVE m \in T
  <2>1. PICK f \in [0 .. m - 1 -> A] : Good(m - 1, f)
    BY <1>2
  <2> DEFINE g == [k \in 0 .. m |-> IF k = m THEN step[m][f[m - 1]] ELSE f[k]]
  <2>2. f[m - 1] \in A /\ step[m][f[m - 1]] \in A
    OBVIOUS
  <2>3. \A k \in 0 .. m : k = m \/ k \in 0 .. m - 1
    OBVIOUS
  <2>4. g \in [0 .. m -> A]
    BY <2>2, <2>3
  <2>5. g[0] = base /\ \A k \in 1 .. m : g[k] = step[k][g[k - 1]]
    BY <2>1, <2>3
  <2>6. Good(m, g)
    BY <2>5
  <2> HIDE DEF g, Good
  <2> QED BY <2>4, <2>6
<1>3. n \in T
  <2> HIDE DEF T
  <2>1. \A m \in 0 .. n : m \in T
    BY <1>1, <1>2, UpTo
  <2> QED BY <2>1
<1> QED BY <1>3 DEF IsIteration

(* A function on 1 .. n is a sequence of length n.                         *)
LEMMA FunctionIsSeq ==
    ASSUME NEW S, NEW n \in Nat, NEW f \in [1 .. n -> S]
    PROVE  f \in Seq(S) /\ Len(f) = n
<1>1. [1 .. n -> S] \in {[1 .. k -> S] : k \in Nat}
  BY Zenon
<1>2. f \in Seq(S)
  BY <1>1, SeqDef, Zenon
<1>3. DOMAIN f = 1 .. n
  OBVIOUS
<1> QED BY <1>2, <1>3

(* The members of a sequence that has got one more.                        *)
LEMMA ElementsAppend ==
    ASSUME NEW S, NEW s \in Seq(S), NEW e \in S
    PROVE  Elements(Append(s, e)) = Elements(s) \cup {e}
<1>1. /\ Len(s) \in Nat /\ Len(Append(s, e)) = Len(s) + 1
      /\ \A i \in 1 .. Len(s) : Append(s, e)[i] = s[i]
      /\ Append(s, e)[Len(s) + 1] = e
  BY AppendProperties, LenProperties
<1>2. 1 .. Len(s) + 1 = (1 .. Len(s)) \cup {Len(s) + 1}
  BY <1>1
<1> QED BY <1>1, <1>2 DEF Elements

(* A sequence with e inserted in front of its k-th element.                *)
WithInserted(s, k, e) == SubSeq(s, 1, k - 1) \o <<e>> \o SubSeq(s, k, Len(s))

(* What is in front stays, the rest moves up by one.                       *)
LEMMA Inserted ==
    ASSUME NEW S, NEW s \in Seq(S), NEW k \in 1 .. Len(s) + 1, NEW e \in S
    PROVE  /\ WithInserted(s, k, e) \in Seq(S)
           /\ Len(WithInserted(s, k, e)) = Len(s) + 1
           /\ \A j \in 1 .. Len(s) + 1 :
                 WithInserted(s, k, e)[j] = IF j < k THEN s[j] ELSE IF j = k THEN e ELSE s[j - 1]
<1> DEFINE a == SubSeq(s, 1, k - 1)
           b == SubSeq(s, k, Len(s))
<1>1. /\ a \in Seq(S) /\ Len(a) = k - 1
      /\ \A j \in 1 .. k - 1 : a[j] = s[j]
  BY SubSeqProperties
<1>2. /\ b \in Seq(S) /\ Len(b) = Len(s) - k + 1
      /\ \A j \in 1 .. Len(s) - k + 1 : b[j] = s[k + j - 1]
  BY SubSeqProperties
<1> DEFINE c == a \o <<e>>
<1>3. /\ c \in Seq(S) /\ Len(c) = k
      /\ \A j \in 1 .. k : c[j] = IF j < k THEN s[j] ELSE e
  BY <1>1
<1> HIDE DEF a, b, c
<1>4. /\ c \o b \in Seq(S)
      /\ Len(c \o b) = Len(c) + Len(b)
      /\ \A j \in 1 .. Len(c) + Len(b) :
            (c \o b)[j] = IF j <= Len(c) THEN c[j] ELSE b[j - Len(c)]
  BY <1>2, <1>3, ConcatProperties
<1>5. /\ Len(c \o b) = Len(s) + 1
      /\ \A j \in 1 .. Len(s) + 1 :
            (c \o b)[j] = IF j < k THEN s[j] ELSE IF j = k THEN e ELSE s[j - 1]
  BY <1>2, <1>3, <1>4
<1> QED BY <1>4, <1>5 DEF WithInserted, a, b, c

-----------------------------------------------------------------------------
(* The states of a loop that is known to go on from any state of A.        *)
LEMMA RunStays ==
    ASSUME NEW A, NEW n \in Nat, NEW run, NEW step \in Steps(A, n), run[0] \in A,
           \A k \in 1 .. n : run[k - 1] \in A => run[k] = step[k][run[k - 1]]
    PROVE  \A k \in 0 .. n : run[k] \in A
<1> DEFINE T == {k \in 0 .. n : run[k] \in A}
<1>1. 0 \in T
  OBVIOUS
<1>2. ASSUME NEW k \in 1 .. n, k - 1 \in T PROVE k \in T
  BY <1>2 DEF Steps
<1> HIDE DEF T
<1>3. \A k \in 0 .. n : k \in T
  BY <1>1, <1>2, UpTo
<1> QED BY <1>3 DEF T

-----------------------------------------------------------------------------
(* Partitions of an execution plan.  A list of nodes of the plan, of one   *)
(* type, that may run one after the other behind the nodes of before.      *)
IsEpoch(plan, in, out, claimed, type, before, ns) ==
    /\ ns \in Seq(Elements(plan))
    /\ \A i, j \in 1 .. Len(ns) : ns[i] = ns[j] => i = j
    /\ \A i \in 1 .. Len(ns) :
          /\ ns[i] \notin before /\ TypeIn(claimed, ns[i]) = type
          /\ ReadyAfter(plan, in, out, before \cup {ns[j] : j \in 1 .. i - 1}, ns[i])

(* The step of a pass.                                                     *)
JoinedTo(plan, in, out, claimed, type, before, ns, n) ==
    IF /\ n \notin before \cup Elements(ns)
       /\ TypeIn(claimed, n) = type
       /\ ReadyAfter(plan, in, out, before \cup Elements(ns), n)
    THEN Append(ns, n) ELSE ns

(* A node that joins makes a longer list of the same kind.                 *)
LEMMA JoinKeepsEpoch ==
    ASSUME NEW plan, NEW in, NEW out, NEW claimed, NEW type, NEW before,
           NEW ns, IsEpoch(plan, in, out, claimed, type, before, ns), NEW n \in Elements(plan)
    PROVE  /\ IsEpoch(plan, in, out, claimed, type, before,
                      JoinedTo(plan, in, out, claimed, type, before, ns, n))
           /\ Elements(ns) \subseteq Elements(JoinedTo(plan, in, out, claimed, type, before, ns, n))
           /\ n \notin before /\ TypeIn(claimed, n) = type /\ ReadyAfter(plan, in, out, before, n)
              => n \in Elements(JoinedTo(plan, in, out, claimed, type, before, ns, n))
<1> DEFINE E == Elements(plan)
           qs == JoinedTo(plan, in, out, claimed, type, before, ns, n)
           Joins == /\ n \notin before \cup Elements(ns)
                    /\ TypeIn(claimed, n) = type
                    /\ ReadyAfter(plan, in, out, before \cup Elements(ns), n)
<1>1. CASE ~Joins
  <2>1. qs = ns
    BY <1>1 DEF JoinedTo
  <2>2. ReadyAfter(plan, in, out, before, n) => ReadyAfter(plan, in, out, before \cup Elements(ns), n)
    BY DEF ReadyAfter
  <2>3. n \notin before /\ TypeIn(claimed, n) = type /\ ReadyAfter(plan, in, out, before, n)
        => n \in Elements(ns)
    BY <1>1, <2>2
  <2> QED BY <2>1, <2>3
<1>2. CASE Joins
  <2> HIDE DEF E
  <2>0. ns \in Seq(E) /\ n \in E
    BY DEF IsEpoch, E
  <2>1. qs = Append(ns, n)
    BY <1>2 DEF JoinedTo
  <2>2. /\ qs \in Seq(E) /\ Len(qs) = Len(ns) + 1 /\ qs[Len(ns) + 1] = n
        /\ \A i \in 1 .. Len(ns) : qs[i] = ns[i]
        /\ Len(ns) \in Nat
    BY <2>0, <2>1, AppendProperties, LenProperties
  <2>3. Elements(qs) = Elements(ns) \cup {n}
    BY <2>0, <2>1, ElementsAppend
  <2> HIDE DEF qs
  <2>4. \A i \in 1 .. Len(qs) : i \in 1 .. Len(ns) \/ i = Len(ns) + 1
    BY <2>2
  <2>5. \A i \in 1 .. Len(ns) : {qs[j] : j \in 1 .. i - 1} = {ns[j] : j \in 1 .. i - 1}
    BY <2>2
  <2>6. {qs[j] : j \in 1 .. (Len(ns) + 1) - 1} = Elements(ns)
    BY <2>2 DEF Elements
  <2>7. \A i \in 1 .. Len(ns) : ns[i] # n
    BY <1>2 DEF Elements
  <2>8. \A i, j \in 1 .. Len(qs) : qs[i] = qs[j] => i = j
    BY <2>2, <2>4, <2>7 DEF IsEpoch
  <2>9. ASSUME NEW i \in 1 .. Len(qs)
        PROVE  /\ qs[i] \notin before /\ TypeIn(claimed, qs[i]) = type
               /\ ReadyAfter(plan, in, out, before \cup {qs[j] : j \in 1 .. i - 1}, qs[i])
    <3>1. CASE i \in 1 .. Len(ns)
      BY <3>1, <2>2, <2>5 DEF IsEpoch
    <3>2. CASE i = Len(ns) + 1
      BY <3>2, <1>2, <2>2, <2>6
    <3> QED BY <2>4, <3>1, <3>2
  <2>10. IsEpoch(plan, in, out, claimed, type, before, qs)
    BY <2>2, <2>8, <2>9 DEF IsEpoch, E
  <2> QED BY <2>3, <2>10 DEF qs
<1> QED BY <1>1, <1>2

-----------------------------------------------------------------------------
(* A pass keeps what the list has, and the first node of the type that is  *)
(* ready joins it.                                                         *)
LEMMA PassKeepsEpoch ==
    ASSUME NEW plan, Len(plan) \in Nat, NEW in, NEW out, NEW claimed, NEW type, NEW before,
           NEW ns, IsEpoch(plan, in, out, claimed, type, before, ns)
    PROVE  LET qs == PassOver(plan, in, out, claimed, type, before, ns)
           IN  /\ IsEpoch(plan, in, out, claimed, type, before, qs)
               /\ \A k \in 1 .. Len(plan) :
                     plan[k] \notin before /\ TypeIn(claimed, plan[k]) = type
                        /\ ReadyAfter(plan, in, out, before, plan[k]) => plan[k] \in Elements(qs)
<1> DEFINE n == Len(plan)
           E == Elements(plan)
           A == {x \in Seq(E) : IsEpoch(plan, in, out, claimed, type, before, x)}
           J(x, k) == JoinedTo(plan, in, out, claimed, type, before, x, plan[k])
           step == [k \in 1 .. n |-> [x \in A |-> J(x, k)]]
           After(f) == [k \in 0 .. n |-> IF k = 0 THEN ns
                          ELSE IF /\ plan[k] \notin before \cup Elements(f[k - 1])
                                  /\ TypeIn(claimed, plan[k]) = type
                                  /\ ReadyAfter(plan, in, out, before \cup Elements(f[k - 1]), plan[k])
                               THEN Append(f[k - 1], plan[k])
                               ELSE f[k - 1]]
           run == CHOOSE f : f = After(f)
<1>1. PassOver(plan, in, out, claimed, type, before, ns) = run[n]
  BY DEF PassOver, Fold
<1>2. ns \in A
  BY DEF IsEpoch
<1>3. ASSUME NEW f, NEW k \in 1 .. n PROVE After(f)[k] = J(f[k - 1], k)
  BY DEF JoinedTo
<1>4. ASSUME NEW f PROVE After(f)[0] = ns /\ After(f) = [k \in 0 .. n |-> After(f)[k]]
  OBVIOUS
<1> HIDE DEF After
<1>5. ASSUME NEW k \in 1 .. n, NEW x \in A
      PROVE  /\ J(x, k) \in A /\ Elements(x) \subseteq Elements(J(x, k))
             /\ plan[k] \notin before /\ TypeIn(claimed, plan[k]) = type
                      /\ ReadyAfter(plan, in, out, before, plan[k]) => plan[k] \in Elements(J(x, k))
  <2>1. plan[k] \in E
    BY DEF Elements
  <2>2. IsEpoch(plan, in, out, claimed, type, before, x)
    OBVIOUS
  <2>3. /\ IsEpoch(plan, in, out, claimed, type, before, J(x, k)) /\ Elements(x) \subseteq Elements(J(x, k))
        /\ plan[k] \notin before /\ TypeIn(claimed, plan[k]) = type
                      /\ ReadyAfter(plan, in, out, before, plan[k]) => plan[k] \in Elements(J(x, k))
    BY <2>1, <2>2, JoinKeepsEpoch
  <2> QED BY <2>3 DEF IsEpoch
<1> HIDE DEF J
<1>6. step \in Steps(A, n)
  BY <1>5 DEF Steps
<1>7. ASSUME NEW k \in 1 .. n, NEW x \in A PROVE step[k][x] = J(x, k)
  OBVIOUS
<1> HIDE DEF A, step
<1>8. run = After(run)
  <2>1. PICK f : IsIteration(f, A, n, ns, step)
    BY <1>2, <1>6, IterationExists
  <2>2. f \in [0 .. n -> A] /\ f[0] = ns /\ \A k \in 1 .. n : f[k - 1] \in A /\ f[k] = J(f[k - 1], k)
    BY <1>7, <2>1 DEF IsIteration
  <2>3. \A k \in 0 .. n : f[k] = After(f)[k]
    BY <1>3, <1>4, <2>2
  <2>4. f = After(f)
    BY <1>4, <2>2, <2>3
  <2> QED BY <2>4
<1> HIDE DEF run
<1>9. run[0] = ns /\ \A k \in 1 .. n : run[k] = J(run[k - 1], k)
  BY <1>3, <1>4, <1>8
<1>10. \A k \in 0 .. n : run[k] \in A
  BY <1>2, <1>6, <1>7, <1>9, RunStays
<1>11. ASSUME NEW j \in 1 .. n, plan[j] \notin before, TypeIn(claimed, plan[j]) = type,
              ReadyAfter(plan, in, out, before, plan[j])
       PROVE  plan[j] \in Elements(run[n])
  <2> DEFINE T == {k \in 0 .. n : k >= j => plan[j] \in Elements(run[k])}
  <2>1. 0 \in T
    OBVIOUS
  <2>2. ASSUME NEW k \in 1 .. n, k - 1 \in T PROVE k \in T
    <3>1. run[k - 1] \in A /\ run[k] = J(run[k - 1], k)
      BY <1>9, <1>10
    <3>2. CASE k = j
      BY <1>5, <1>11, <3>1, <3>2
    <3>3. CASE k # j
      BY <1>5, <2>2, <3>1, <3>3
    <3> QED BY <3>2, <3>3
  <2> HIDE DEF T
  <2>3. \A k \in 0 .. n : k \in T
    BY <2>1, <2>2, UpTo
  <2>4. n \in T
    BY <2>3
  <2> QED BY <2>4 DEF T
<1>12. run[n] \in A
  BY <1>10
<1> QED BY <1>1, <1>11, <1>12 DEF A

(* All the passes for a subset.                                            *)
EpochFrom(plan, in, out, claimed, type, before) ==
    Fold(LAMBDA ns, k : PassOver(plan, in, out, claimed, type, before, ns), <<>>, plan)

(* The passes over the plan make an epoch, and no node that is ready and   *)
(* of its type is left outside.                                            *)
LEMMA PassesMakeEpoch ==
    ASSUME NEW plan, Len(plan) \in Nat, NEW in, NEW out, NEW claimed, NEW type, NEW before
    PROVE  LET qs == EpochFrom(plan, in, out, claimed, type, before)
           IN  /\ IsEpoch(plan, in, out, claimed, type, before, qs)
               /\ \A k \in 1 .. Len(plan) :
                     plan[k] \notin before /\ TypeIn(claimed, plan[k]) = type
                        /\ ReadyAfter(plan, in, out, before, plan[k]) => plan[k] \in Elements(qs)
<1> DEFINE n == Len(plan)
           E == Elements(plan)
           A == {x \in Seq(E) : IsEpoch(plan, in, out, claimed, type, before, x)}
           P(x) == PassOver(plan, in, out, claimed, type, before, x)
           step == [k \in 1 .. n |-> [x \in A |-> P(x)]]
           After(f) == [k \in 0 .. n |-> IF k = 0 THEN <<>>
                          ELSE PassOver(plan, in, out, claimed, type, before, f[k - 1])]
           run == CHOOSE f : f = After(f)
<1>1. EpochFrom(plan, in, out, claimed, type, before) = run[n]
  BY DEF EpochFrom, Fold
<1>2. <<>> \in A
  <2>1. <<>> \in Seq(E) /\ Len(<<>>) = 0
    OBVIOUS
  <2>2. \A i \in 1 .. Len(<<>>) : FALSE
    BY <2>1
  <2> QED BY <2>1, <2>2 DEF IsEpoch
<1>3. ASSUME NEW f, NEW k \in 1 .. n PROVE After(f)[k] = P(f[k - 1])
  OBVIOUS
<1>4. ASSUME NEW f PROVE After(f)[0] = <<>> /\ After(f) = [k \in 0 .. n |-> After(f)[k]]
  OBVIOUS
<1> HIDE DEF After
<1>5. ASSUME NEW x \in A
      PROVE  /\ P(x) \in A
             /\ \A k \in 1 .. Len(plan) :
                   plan[k] \notin before /\ TypeIn(claimed, plan[k]) = type
                      /\ ReadyAfter(plan, in, out, before, plan[k]) => plan[k] \in Elements(P(x))
  <2>1. IsEpoch(plan, in, out, claimed, type, before, x)
    OBVIOUS
  <2>2. /\ IsEpoch(plan, in, out, claimed, type, before, P(x))
        /\ \A k \in 1 .. Len(plan) :
                   plan[k] \notin before /\ TypeIn(claimed, plan[k]) = type
                      /\ ReadyAfter(plan, in, out, before, plan[k]) => plan[k] \in Elements(P(x))
    BY <2>1, PassKeepsEpoch
  <2> QED BY <2>2 DEF IsEpoch
<1> HIDE DEF P
<1>6. step \in Steps(A, n)
  BY <1>5 DEF Steps
<1>7. ASSUME NEW k \in 1 .. n, NEW x \in A PROVE step[k][x] = P(x)
  OBVIOUS
<1> HIDE DEF A, step
<1>8. run = After(run)
  <2>1. PICK f : IsIteration(f, A, n, <<>>, step)
    BY <1>2, <1>6, IterationExists
  <2>2. f \in [0 .. n -> A] /\ f[0] = <<>> /\ \A k \in 1 .. n : f[k - 1] \in A /\ f[k] = P(f[k - 1])
    BY <1>7, <2>1 DEF IsIteration
  <2>3. \A k \in 0 .. n : f[k] = After(f)[k]
    BY <1>3, <1>4, <2>2
  <2>4. f = After(f)
    BY <1>4, <2>2, <2>3
  <2> QED BY <2>4
<1> HIDE DEF run
<1>9. run[0] = <<>> /\ \A k \in 1 .. n : run[k] = P(run[k - 1])
  BY <1>3, <1>4, <1>8
<1>10. \A k \in 0 .. n : run[k] \in A
  BY <1>2, <1>6, <1>7, <1>9, RunStays
<1>11. ASSUME NEW j \in 1 .. n, plan[j] \notin before, TypeIn(claimed, plan[j]) = type,
              ReadyAfter(plan, in, out, before, plan[j])
       PROVE  plan[j] \in Elements(run[n])
  <2>1. n \in 1 .. n /\ n - 1 \in 0 .. n
    OBVIOUS
  <2>2. run[n - 1] \in A /\ run[n] = P(run[n - 1])
    BY <1>9, <1>10, <2>1
  <2> QED BY <1>5, <1>11, <2>2
<1>12. run[n] \in A
  BY <1>10
<1> QED BY <1>1, <1>11, <1>12 DEF A

(* In a plan in the order of its dependencies a node that is left means    *)
(* another subset, with the first such node.                               *)
InOrder(plan, in, out) ==
    /\ Len(plan) \in Nat
    /\ \A j, k \in 1 .. Len(plan) : plan[j] = plan[k] => j = k
    /\ \A j, k \in 1 .. Len(plan) : out[plan[j]] \cap in[plan[k]] # {} => j < k

(* The next subset is an epoch, and the first node of the plan that is not *)
(* taken yet is in it.                                                     *)
LEMMA NextNodesFacts ==
    ASSUME NEW plan, NEW in, NEW out, InOrder(plan, in, out), NEW claimed, NEW before
    PROVE  LET ns == NextNodes(plan, in, out, claimed, before)
           IN  /\ ns # <<>> => \E type : /\ IsEpoch(plan, in, out, claimed, type, before, ns)
                                         /\ Len(ns) \in Nat \ {0}
               /\ \A k \in 1 .. Len(plan) :
                     plan[k] \notin before /\ (\A j \in 1 .. k - 1 : plan[j] \in before)
                        => ns # <<>> /\ plan[k] \in Elements(ns)
<1> DEFINE n == Len(plan)
           Open(k) == plan[k] \notin before /\ ReadyAfter(plan, in, out, before, plan[k])
           IsFirst(k) == Open(k) /\ \A j \in 1 .. k - 1 : ~Open(j)
           first == CHOOSE k \in 1 .. n : IsFirst(k)
           type == TypeIn(claimed, plan[first])
           qs == EpochFrom(plan, in, out, claimed, type, before)
           ns == NextNodes(plan, in, out, claimed, before)
<1>1. n \in Nat
  BY DEF InOrder
<1>2. ns = IF \A k \in 1 .. n : ~Open(k) THEN <<>> ELSE qs
  BY DEF NextNodes, EpochFrom
<1>3. (\E k \in 1 .. n : Open(k)) => first \in 1 .. n /\ IsFirst(first)
  <2> SUFFICES ASSUME NEW l \in 1 .. n, Open(l) PROVE \E k \in 1 .. n : IsFirst(k)
    OBVIOUS
  <2> DEFINE B == {j \in 1 .. n : Open(j)}
  <2> HIDE DEF Open
  <2>1. B \in SUBSET Nat /\ B # {}
    BY <1>1
  <2>2. PICK x \in B : \A y \in B : ~(y < x)
    BY <2>1, Smallest
  <2>3. \A j \in 1 .. x - 1 : j \in 1 .. n /\ j < x
    BY <1>1, <2>2
  <2> QED BY <2>2, <2>3
<1>4. /\ IsEpoch(plan, in, out, claimed, type, before, qs)
      /\ \A k \in 1 .. n :
            plan[k] \notin before /\ TypeIn(claimed, plan[k]) = type
               /\ ReadyAfter(plan, in, out, before, plan[k]) => plan[k] \in Elements(qs)
  BY <1>1, PassesMakeEpoch
<1>5. (\E k \in 1 .. n : Open(k)) => plan[first] \in Elements(qs)
  BY <1>3, <1>4
<1>6. Len(qs) \in Nat /\ (qs = <<>> <=> Len(qs) = 0)
  <2>1. qs \in Seq(Elements(plan))
    BY <1>4 DEF IsEpoch
  <2> HIDE DEF qs
  <2> QED BY <2>1, EmptySeq, LenProperties
<1>7. \A k \in 1 .. n : plan[k] \in Elements(qs) => qs # <<>>
  <2> HIDE DEF qs
  <2> QED BY <1>6 DEF Elements
<1>8. ASSUME NEW k \in 1 .. n, plan[k] \notin before, \A j \in 1 .. k - 1 : plan[j] \in before
      PROVE  ns # <<>> /\ plan[k] \in Elements(ns)
  <2>1. ReadyAfter(plan, in, out, before, plan[k])
    <3>1. ASSUME NEW m \in Elements(plan), out[m] \cap in[plan[k]] # {} PROVE m \in before
      <4>1. PICK j \in 1 .. n : m = plan[j]
        BY DEF Elements
      <4>2. j < k
        BY <3>1, <4>1 DEF InOrder
      <4>3. j \in 1 .. k - 1
        BY <1>1, <4>2
      <4> QED BY <1>8, <4>1, <4>3
    <3> QED BY <3>1 DEF ReadyAfter
  <2>2. IsFirst(k)
    BY <1>8, <2>1
  <2>3. first \in 1 .. n /\ IsFirst(first)
    BY <1>3, <2>2
  <2>4. first = k
    <3> HIDE DEF Open, first
    <3>1. first < k => first \in 1 .. k - 1
      BY <2>3
    <3>2. k < first => k \in 1 .. first - 1
      BY <2>3
    <3> QED BY <1>1, <2>2, <2>3, <3>1, <3>2
  <2> QED BY <1>2, <1>5, <1>7, <2>2, <2>4
<1>9. ns # <<>> => IsEpoch(plan, in, out, claimed, type, before, ns) /\ Len(ns) \in Nat \ {0}
  BY <1>2, <1>4, <1>6
<1> HIDE DEF ns, type
<1> QED BY <1>8, <1>9 DEF ns

-----------------------------------------------------------------------------
(* Subsets, each one ready behind those before it.                         *)
BeforeSubset(subsets, k) == UNION {Elements(subsets[l]) : l \in 1 .. k - 1}

IsCut(plan, in, out, claimed, subsets) ==
    /\ subsets \in Seq(Seq(Elements(plan)))
    /\ \A k \in 1 .. Len(subsets) :
          /\ Len(subsets[k]) \in Nat \ {0}
          /\ \E type : IsEpoch(plan, in, out, claimed, type, BeforeSubset(subsets, k), subsets[k])

Cuts(plan, in, out, claimed) ==
    {c \in [subsets : Seq(Seq(Elements(plan))), done : SUBSET Elements(plan)] :
        /\ IsCut(plan, in, out, claimed, c.subsets)
        /\ c.done = BeforeSubset(c.subsets, Len(c.subsets) + 1)}

(* The step of Partition.                                                  *)
CutFurther(plan, in, out, claimed, c) ==
    LET ns == NextNodes(plan, in, out, claimed, c.done)
    IN  IF ns = <<>> THEN c
        ELSE [subsets |-> Append(c.subsets, ns), done |-> c.done \cup Elements(ns)]

(* One more subset: the cut stays a cut, and the first node that was left  *)
(* is taken.                                                               *)
LEMMA CutFurtherKeeps ==
    ASSUME NEW plan, NEW in, NEW out, InOrder(plan, in, out), NEW claimed,
           NEW c \in Cuts(plan, in, out, claimed)
    PROVE  /\ CutFurther(plan, in, out, claimed, c) \in Cuts(plan, in, out, claimed)
           /\ c.done \subseteq CutFurther(plan, in, out, claimed, c).done
           /\ \A k \in 1 .. Len(plan) : (\A j \in 1 .. k - 1 : plan[j] \in c.done)
                => plan[k] \in CutFurther(plan, in, out, claimed, c).done
<1> DEFINE E == Elements(plan)
           ns == NextNodes(plan, in, out, claimed, c.done)
           q == CutFurther(plan, in, out, claimed, c)
           m == Len(c.subsets)
<1>1. /\ c.subsets \in Seq(Seq(E)) /\ IsCut(plan, in, out, claimed, c.subsets)
      /\ c.done \subseteq E /\ c.done = BeforeSubset(c.subsets, m + 1)
  BY DEF Cuts
<1>2. /\ ns # <<>> => \E type : IsEpoch(plan, in, out, claimed, type, c.done, ns)
                                /\ Len(ns) \in Nat \ {0}
      /\ \A k \in 1 .. Len(plan) :
            plan[k] \notin c.done /\ (\A j \in 1 .. k - 1 : plan[j] \in c.done)
               => ns # <<>> /\ plan[k] \in Elements(ns)
  BY NextNodesFacts
<1> HIDE DEF ns
<1>3. CASE ns = <<>>
  <2>1. q = c
    BY <1>3 DEF CutFurther, ns
  <2> QED BY <1>2, <1>3, <2>1
<1>4. CASE ns # <<>>
  <2> HIDE DEF E
  <2> DEFINE ss == Append(c.subsets, ns)
  <2>1. q = [subsets |-> ss, done |-> c.done \cup Elements(ns)]
    BY <1>4 DEF CutFurther, ns
  <2>2. PICK type : IsEpoch(plan, in, out, claimed, type, c.done, ns) /\ Len(ns) \in Nat \ {0}
    BY <1>2, <1>4
  <2>3. ns \in Seq(E)
    BY <2>2 DEF IsEpoch, E
  <2>4. /\ ss \in Seq(Seq(E)) /\ Len(ss) = m + 1 /\ ss[m + 1] = ns /\ m \in Nat
        /\ \A l \in 1 .. m : ss[l] = c.subsets[l]
    BY <1>1, <2>3, AppendProperties, LenProperties
  <2>5. Elements(ns) \subseteq E
    BY <2>2, <2>3 DEF Elements
  <2> HIDE DEF ss
  <2>6. \A k \in 1 .. m + 1 : BeforeSubset(ss, k) = BeforeSubset(c.subsets, k)
    <3> TAKE k \in 1 .. m + 1
    <3>0. 1 .. k - 1 \subseteq 1 .. m
      BY <2>4
    <3>1. \A l \in 1 .. k - 1 : ss[l] = c.subsets[l]
      BY <2>4, <3>0
    <3> QED BY <3>1 DEF BeforeSubset
  <2>7. BeforeSubset(ss, Len(ss) + 1) = c.done \cup Elements(ns)
    <3>1. 1 .. (m + 2) - 1 = (1 .. (m + 1) - 1) \cup {m + 1}
      BY <2>4
    <3>2. BeforeSubset(ss, m + 2) = BeforeSubset(ss, m + 1) \cup Elements(ss[m + 1])
      <4>1. \A l : l \in 1 .. (m + 2) - 1 <=> l \in 1 .. (m + 1) - 1 \/ l = m + 1
        BY <3>1
      <4> HIDE DEF m
      <4> QED BY <4>1, Zenon DEF BeforeSubset
    <3>3. m + 1 \in 1 .. m + 1 /\ Len(ss) + 1 = m + 2
      BY <2>4
    <3> QED BY <1>1, <2>4, <2>6, <3>2, <3>3
  <2>8. ASSUME NEW k \in 1 .. Len(ss)
        PROVE  /\ Len(ss[k]) \in Nat \ {0}
               /\ \E t : IsEpoch(plan, in, out, claimed, t, BeforeSubset(ss, k), ss[k])
    <3>1. CASE k \in 1 .. m
      <4>1. ss[k] = c.subsets[k] /\ BeforeSubset(ss, k) = BeforeSubset(c.subsets, k)
        BY <2>4, <2>6, <3>1
      <4> QED BY <1>1, <3>1, <4>1 DEF IsCut
    <3>2. CASE k = m + 1
      <4>1. ss[k] = ns /\ BeforeSubset(ss, k) = c.done
        BY <1>1, <2>4, <2>6, <3>2
      <4> QED BY <2>2, <4>1
    <3> QED BY <2>4, <3>1, <3>2
  <2>9. IsCut(plan, in, out, claimed, ss)
    BY <2>4, <2>8 DEF IsCut, E
  <2>10. q \in Cuts(plan, in, out, claimed)
    <3> HIDE DEF q
    <3>1. q.subsets = ss /\ q.done = c.done \cup Elements(ns)
          /\ q \in [subsets : Seq(Seq(E)), done : SUBSET E]
      BY <1>1, <2>1, <2>4, <2>5
    <3> QED BY <2>7, <2>9, <3>1 DEF Cuts, E
  <2>11. c.done \subseteq q.done /\ q.done = c.done \cup Elements(ns)
    BY <2>1
  <2> QED BY <1>2, <2>10, <2>11
<1> QED BY <1>3, <1>4

SubsetsOf(plan, in, out, claimed) ==
    LET More(c, k) ==
            LET ns == NextNodes(plan, in, out, claimed, c.done)
            IN  IF ns = <<>> THEN c
                ELSE [subsets |-> Append(c.subsets, ns), done |-> c.done \cup Elements(ns)]
    IN  Fold(More, [subsets |-> <<>>, done |-> {}], plan)

(* All subsets together are a cut of the plan, and they leave no node out. *)
LEMMA SubsetsCoverPlan ==
    ASSUME NEW plan, NEW in, NEW out, InOrder(plan, in, out), NEW claimed
    PROVE  LET c == SubsetsOf(plan, in, out, claimed)
           IN  c \in Cuts(plan, in, out, claimed) /\ c.done = Elements(plan)
<1> DEFINE n == Len(plan)
           A == Cuts(plan, in, out, claimed)
           base == [subsets |-> <<>>, done |-> {}]
           P(x) == CutFurther(plan, in, out, claimed, x)
           step == [k \in 1 .. n |-> [x \in A |-> P(x)]]
           More(c) == LET ns == NextNodes(plan, in, out, claimed, c.done)
                      IN  IF ns = <<>> THEN c
                          ELSE [subsets |-> Append(c.subsets, ns), done |-> c.done \cup Elements(ns)]
           After(f) == [k \in 0 .. n |-> IF k = 0 THEN base ELSE More(f[k - 1])]
           run == CHOOSE f : f = After(f)
<1>0. n \in Nat
  BY DEF InOrder
<1>1. SubsetsOf(plan, in, out, claimed) = run[n]
  BY DEF SubsetsOf, Fold
<1>2. base \in A
  <2>1. <<>> \in Seq(Seq(Elements(plan))) /\ Len(<<>>) = 0
    OBVIOUS
  <2>2. \A i \in 1 .. Len(<<>>) : FALSE
    BY <2>1
  <2>3. IsCut(plan, in, out, claimed, <<>>)
    BY <2>1, <2>2 DEF IsCut
  <2>4. BeforeSubset(<<>>, Len(<<>>) + 1) = {}
    BY <2>1 DEF BeforeSubset
  <2> QED BY <2>1, <2>3, <2>4 DEF Cuts
<1>3. ASSUME NEW f, NEW k \in 1 .. n PROVE After(f)[k] = P(f[k - 1])
  BY DEF CutFurther
<1>4. ASSUME NEW f PROVE After(f)[0] = base /\ After(f) = [k \in 0 .. n |-> After(f)[k]]
  BY <1>0
<1> HIDE DEF After, base
<1>5. ASSUME NEW x \in A
      PROVE  /\ P(x) \in A /\ x.done \subseteq P(x).done
             /\ \A k \in 1 .. n : (\A j \in 1 .. k - 1 : plan[j] \in x.done) => plan[k] \in P(x).done
  BY CutFurtherKeeps
<1> HIDE DEF P
<1>6. step \in Steps(A, n)
  BY <1>5 DEF Steps
<1>7. ASSUME NEW k \in 1 .. n, NEW x \in A PROVE step[k][x] = P(x)
  OBVIOUS
<1> HIDE DEF A, step
<1>8. run = After(run)
  <2>1. PICK f : IsIteration(f, A, n, base, step)
    BY <1>0, <1>2, <1>6, IterationExists
  <2>2. f \in [0 .. n -> A] /\ f[0] = base /\ \A k \in 1 .. n : f[k - 1] \in A /\ f[k] = P(f[k - 1])
    BY <1>0, <1>7, <2>1 DEF IsIteration
  <2>3. \A k \in 0 .. n : f[k] = After(f)[k]
    BY <1>0, <1>3, <1>4, <2>2
  <2>4. f = After(f)
    BY <1>4, <2>2, <2>3
  <2> QED BY <2>4
<1> HIDE DEF run
<1>9. run[0] = base /\ \A k \in 1 .. n : run[k] = P(run[k - 1])
  BY <1>3, <1>4, <1>8
<1>10. \A k \in 0 .. n : run[k] \in A
  BY <1>0, <1>2, <1>6, <1>7, <1>9, RunStays
<1> DEFINE T == {k \in 0 .. n : \A j \in 1 .. k : plan[j] \in run[k].done}
<1>11. 0 \in T
  BY <1>0
<1>12. ASSUME NEW k \in 1 .. n, k - 1 \in T PROVE k \in T
  <2>1. run[k - 1] \in A /\ run[k] = P(run[k - 1])
    BY <1>0, <1>9, <1>10
  <2>2. \A j \in 1 .. k - 1 : plan[j] \in run[k - 1].done
    BY <1>12
  <2>3. plan[k] \in run[k].done /\ run[k - 1].done \subseteq run[k].done
    BY <1>5, <2>1, <2>2
  <2>4. \A j \in 1 .. k : j = k \/ j \in 1 .. k - 1
    BY <1>0
  <2> QED BY <1>0, <2>2, <2>3, <2>4
<1>13. n \in T
  <2> HIDE DEF T
  <2>1. \A k \in 0 .. n : k \in T
    BY <1>0, <1>11, <1>12, UpTo
  <2> QED BY <1>0, <2>1
<1>14. run[n] \in A
  BY <1>0, <1>10
<1>15. run[n].done \subseteq Elements(plan)
  BY <1>14 DEF A, Cuts
<1> QED BY <1>1, <1>13, <1>14, <1>15 DEF A, Elements

(* The part that Partition makes of a list of nodes.                       *)
PartFrom(plan, in, out, result, claimed, ns) ==
    [type           |-> TypeIn(claimed, ns[1]),
     nodes          |-> ns,
     input_tensors  |-> ReadsOf(in, Elements(ns)) \ WritesOf(out, Elements(ns)),
     output_tensors |-> WritesOf(out, Elements(ns)) \cap
                        (ReadsOf(in, Elements(plan) \ Elements(ns)) \cup result)]

(* The parts of an ordered plan.  A node stands in one of them, behind all *)
(* whose outputs it reads.                                                 *)
LEMMA PartitionParts ==
    ASSUME NEW plan, NEW in, NEW out, InOrder(plan, in, out), NEW result, NEW claimed
    PROVE  \E ss : /\ IsCut(plan, in, out, claimed, ss)
                   /\ BeforeSubset(ss, Len(ss) + 1) = Elements(plan)
                   /\ Len(Partition(plan, in, out, result, claimed)) = Len(ss)
                   /\ \A k \in 1 .. Len(ss) : Partition(plan, in, out, result, claimed)[k] =
                                                PartFrom(plan, in, out, result, claimed, ss[k])
<1> DEFINE c == SubsetsOf(plan, in, out, claimed)
           p == Partition(plan, in, out, result, claimed)
           ss == c.subsets
<1>1. c \in Cuts(plan, in, out, claimed) /\ c.done = Elements(plan)
  BY SubsetsCoverPlan
<1>2. IsCut(plan, in, out, claimed, ss) /\ BeforeSubset(ss, Len(ss) + 1) = Elements(plan)
  <2> HIDE DEF c
  <2> QED BY <1>1 DEF Cuts
<1>3. p = [k \in 1 .. Len(ss) |-> PartFrom(plan, in, out, result, claimed, ss[k])]
  BY DEF Partition, SubsetsOf, PartFrom
<1> HIDE DEF c, ss
<1>4. Len(ss) \in Nat
  BY <1>2, LenProperties DEF IsCut
<1>5. Len(p) = Len(ss)
  <2> DEFINE X == {PartFrom(plan, in, out, result, claimed, ss[k]) : k \in 1 .. Len(ss)}
  <2>1. p \in [1 .. Len(ss) -> X]
    BY <1>3
  <2> HIDE DEF p, X
  <2> QED BY <1>4, <2>1, FunctionIsSeq
<1>6. \A k \in 1 .. Len(ss) : p[k] = PartFrom(plan, in, out, result, claimed, ss[k])
  BY <1>3
<1> QED BY <1>2, <1>5, <1>6
=============================================================================
