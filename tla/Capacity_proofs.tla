--------------------------- MODULE Capacity_proofs --------------------------
(* Proofs about module Capacity, for any nodes, pods and budget.              *)
EXTENDS Capacity, TLAPS, SequenceTheorems, FiniteSetTheorems

(* Sums and maxima of finite sets *)

\* Induction over the subsets of a finite set, in the form the provers take: a
\* set of subsets that is not empty has a least element.
LEMMA SubsetMin ==
    ASSUME NEW S, IsFiniteSet(S), NEW T, T \subseteq SUBSET S, T # {}
    PROVE  \E x \in T : \A y \in T : ~(y \subseteq x /\ y # x)
<1>1. IsWellFoundedOn(StrictSubsetOrdering(S), SUBSET S)
  BY FS_StrictSubsetOrderingWellFounded, FS_FiniteSubsetsOfFinite
<1>2. \E x \in T : \A y \in T : ~(<<y, x>> \in StrictSubsetOrdering(S))
  BY <1>1, WFMin
<1> QED BY <1>2 DEF StrictSubsetOrdering

\* The element that a fold takes out of s first.
Pick(s) == CHOOSE x \in s : TRUE

\* g[s] is the sum of f over s, for the subsets s of S.
Sums(f, S, g) ==
    g = [s \in SUBSET S |-> IF s = {} THEN 0 ELSE f[Pick(s)] + g[s \ {Pick(s)}]]

LEMMA PickIn == \A s : s # {} => Pick(s) \in s
BY DEF Pick

LEMMA SumUnfolds ==
    ASSUME NEW f, NEW S
    PROVE  SumFunctionOnSet(f, S) = (CHOOSE g : Sums(f, S, g))[S]
BY Zenon DEF SumFunctionOnSet, FoldFunctionOnSet, MapThenFoldSet, Sums, Pick

\* The equation of Sums, subset by subset.
LEMMA SumsAt ==
    ASSUME NEW f, NEW S, NEW g, Sums(f, S, g), NEW s \in SUBSET S
    PROVE  g[s] = IF s = {} THEN 0 ELSE f[Pick(s)] + g[s \ {Pick(s)}]
BY DEF Sums

\* Two solutions agree where both are defined.
LEMMA SumsAgree ==
    ASSUME NEW f, NEW U, NEW V, IsFiniteSet(U), NEW g, NEW h,
           Sums(f, U, g), Sums(f, V, h)
    PROVE  \A s \in (SUBSET U) \cap (SUBSET V) : g[s] = h[s]
<1> DEFINE T == {s \in (SUBSET U) \cap (SUBSET V) : g[s] # h[s]}
<1> SUFFICES ASSUME T # {} PROVE FALSE
  OBVIOUS
<1>0. T \subseteq SUBSET U
  OBVIOUS
<1>1. PICK s \in T : \A y \in T : ~(y \subseteq s /\ y # s)
  <2> HIDE DEF T
  <2> QED BY <1>0, SubsetMin
<1>2. s \in SUBSET U /\ s \in SUBSET V /\ g[s] # h[s]
  BY <1>1
<1>3. CASE s = {}
  BY <1>2, <1>3, SumsAt
<1>4. CASE s # {}
  <2> DEFINE w == s \ {Pick(s)}
  <2>1. w \subseteq s /\ w # s /\ w \in SUBSET U /\ w \in SUBSET V
    BY <1>2, <1>4, PickIn
  <2>2. g[w] = h[w]
    BY <1>1, <2>1
  <2>3. g[s] = f[Pick(s)] + g[w] /\ h[s] = f[Pick(s)] + h[w]
    BY <1>2, <1>4, SumsAt
  <2> QED BY <1>2, <2>2, <2>3
<1> QED BY <1>3, <1>4

\* There is a solution, with values in Nat.
LEMMA SumsExist ==
    ASSUME NEW S, IsFiniteSet(S), NEW f \in [S -> Nat]
    PROVE  \E g \in [SUBSET S -> Nat] : Sums(f, S, g)
<1> DEFINE T == {U \in SUBSET S : ~\E g \in [SUBSET U -> Nat] : Sums(f, U, g)}
<1> SUFFICES ASSUME T # {} PROVE FALSE
  OBVIOUS
<1>0. T \subseteq SUBSET S
  OBVIOUS
<1>1. PICK U \in T : \A y \in T : ~(y \subseteq U /\ y # U)
  <2> HIDE DEF T
  <2> QED BY <1>0, SubsetMin
<1>f. \A W \in SUBSET S : IsFiniteSet(W)
  BY FS_Subset
<1> DEFINE Good(W) == CHOOSE g : g \in [SUBSET W -> Nat] /\ Sums(f, W, g)
           v(W) == Good(W)[W]
           G == [s \in SUBSET U |-> IF s = {} THEN 0 ELSE f[Pick(s)] + v(s \ {Pick(s)})]
<1>2. ASSUME NEW W \in SUBSET U, W # U
      PROVE  Good(W) \in [SUBSET W -> Nat] /\ Sums(f, W, Good(W))
  <2>1. W \notin T /\ W \in SUBSET S
    BY <1>1, <1>2
  <2>2. \E g : g \in [SUBSET W -> Nat] /\ Sums(f, W, g)
    BY <2>1
  <2> QED BY <2>2
<1> HIDE DEF Good
<1>3. ASSUME NEW W \in SUBSET U, W # U
      PROVE  v(W) \in Nat
             /\ v(W) = IF W = {} THEN 0 ELSE f[Pick(W)] + v(W \ {Pick(W)})
  <2>1. v(W) \in Nat
    BY <1>2, <1>3
  <2>2. W \in SUBSET W /\ Sums(f, W, Good(W)) /\ IsFiniteSet(W)
    BY <1>1, <1>2, <1>3, <1>f
  <2>3. v(W) = IF W = {} THEN 0 ELSE f[Pick(W)] + Good(W)[W \ {Pick(W)}]
    BY <2>2, SumsAt
  <2>4. ASSUME W # {} PROVE Good(W)[W \ {Pick(W)}] = v(W \ {Pick(W)})
    <3> DEFINE w == W \ {Pick(W)}
    <3>1. w \in SUBSET U /\ w # U /\ w \in SUBSET W /\ w \in SUBSET w
      BY <1>3, <2>4, PickIn
    <3>2. Sums(f, w, Good(w))
      BY <1>2, <3>1
    <3> HIDE DEF w
    <3>3. Good(W)[w] = Good(w)[w]
      BY <2>2, <3>1, <3>2, SumsAgree
    <3> QED BY <3>3 DEF w
  <2> QED BY <2>1, <2>3, <2>4
<1>4. ASSUME NEW s \in SUBSET U, s # {}
      PROVE  /\ s \ {Pick(s)} \in SUBSET U /\ s \ {Pick(s)} # U
             /\ Pick(s) \in S /\ f[Pick(s)] \in Nat
  BY <1>1, <1>4, PickIn
<1> HIDE DEF v
<1>5. G \in [SUBSET U -> Nat]
  <2>1. ASSUME NEW s \in SUBSET U, s # {} PROVE f[Pick(s)] + v(s \ {Pick(s)}) \in Nat
    <3>1. v(s \ {Pick(s)}) \in Nat
      BY <1>3, <1>4, <2>1
    <3> QED BY <1>4, <2>1, <3>1
  <2> QED BY <2>1
<1>6. ASSUME NEW s \in SUBSET U, s # {}
      PROVE  G[s \ {Pick(s)}] = v(s \ {Pick(s)})
  <2> DEFINE w == s \ {Pick(s)}
  <2>1. w \in SUBSET U /\ w # U
    BY <1>4, <1>6
  <2> HIDE DEF w
  <2>2. v(w) = IF w = {} THEN 0 ELSE f[Pick(w)] + v(w \ {Pick(w)})
    BY <1>3, <2>1
  <2>3. G[w] = v(w)
    BY <2>1, <2>2
  <2> QED BY <2>3 DEF w
<1>7. Sums(f, U, G)
  BY <1>6 DEF Sums
<1> QED BY <1>1, <1>5, <1>7

\* A solution exists, so that the sum is the value of one, and all agree.
LEMMA SumIs ==
    ASSUME NEW S, IsFiniteSet(S), NEW f \in [S -> Nat]
    PROVE  \E g \in [SUBSET S -> Nat] :
              Sums(f, S, g) /\ \A s \in SUBSET S : SumFunctionOnSet(f, s) = g[s]
<1>1. PICK g \in [SUBSET S -> Nat] : Sums(f, S, g)
  BY SumsExist
<1>2. ASSUME NEW s \in SUBSET S PROVE SumFunctionOnSet(f, s) = g[s]
  <2>1. IsFiniteSet(s)
    BY FS_Subset
  <2> DEFINE F == [x \in s |-> f[x]]
             h == CHOOSE h : Sums(f, s, h)
  <2>2. \E k : Sums(f, s, k)
    <3>1. F \in [s -> Nat]
      OBVIOUS
    <3>2. PICK k \in [SUBSET s -> Nat] : Sums(F, s, k)
      BY <2>1, <3>1, SumsExist
    <3>3. \A u \in SUBSET s : u # {} => F[Pick(u)] = f[Pick(u)]
      BY PickIn
    <3>4. Sums(f, s, k)
      BY <3>2, <3>3 DEF Sums
    <3> QED BY <3>4
  <2>3. Sums(f, s, h)
    BY <2>2
  <2> HIDE DEF h
  <2>4. h[s] = g[s]
    BY <1>1, <2>1, <2>3, SumsAgree
  <2> QED BY <2>4, SumUnfolds DEF h
<1> QED BY <1>1, <1>2

\* A sum of natural numbers over a finite set is a natural number, and the fold
\* that computes it satisfies its equation.
LEMMA SumEquation ==
    ASSUME NEW S, IsFiniteSet(S), NEW f \in [S -> Nat], NEW s \in SUBSET S
    PROVE  /\ SumFunctionOnSet(f, s) \in Nat
           /\ s # {} => SumFunctionOnSet(f, s) =
                            f[Pick(s)] + SumFunctionOnSet(f, s \ {Pick(s)})
<1>1. PICK g \in [SUBSET S -> Nat] :
         Sums(f, S, g) /\ \A u \in SUBSET S : SumFunctionOnSet(f, u) = g[u]
  BY SumIs
<1>2. g[s] = IF s = {} THEN 0 ELSE f[Pick(s)] + g[s \ {Pick(s)}]
  BY <1>1, SumsAt
<1>3. s \ {Pick(s)} \in SUBSET S
  OBVIOUS
<1> QED BY <1>1, <1>2, <1>3

\* The order in which the fold takes the elements does not matter.
LEMMA SumTakes ==
    ASSUME NEW S, IsFiniteSet(S), NEW f \in [S -> Nat]
    PROVE  \A s \in SUBSET S : \A x \in s :
              SumFunctionOnSet(f, s) = f[x] + SumFunctionOnSet(f, s \ {x})
<1> DEFINE Sum(s) == SumFunctionOnSet(f, s)
           T == {s \in SUBSET S : \E x \in s : Sum(s) # f[x] + Sum(s \ {x})}
<1> SUFFICES ASSUME T # {} PROVE FALSE
  OBVIOUS
<1>0. T \subseteq SUBSET S
  OBVIOUS
<1>e. \A s \in SUBSET S : /\ Sum(s) \in Nat
                          /\ s # {} => Sum(s) = f[Pick(s)] + Sum(s \ {Pick(s)})
  BY SumEquation
<1> HIDE DEF Sum
<1>1. PICK s \in T : \A y \in T : ~(y \subseteq s /\ y # s)
  <2> HIDE DEF T
  <2> QED BY <1>0, SubsetMin
<1>2. PICK x \in s : Sum(s) # f[x] + Sum(s \ {x})
  BY <1>1
<1> DEFINE p == Pick(s)
<1>3. s \in SUBSET S /\ p \in s /\ Sum(s) = f[p] + Sum(s \ {p})
  BY <1>1, <1>2, <1>e, PickIn
<1> HIDE DEF p
<1>4. x # p
  BY <1>2, <1>3
<1>5. \A y \in SUBSET s : y # s => \A z \in y : Sum(y) = f[z] + Sum(y \ {z})
  BY <1>0, <1>1
<1> HIDE DEF T
<1>6. /\ Sum(s \ {p}) = f[x] + Sum((s \ {p}) \ {x})
      /\ Sum(s \ {x}) = f[p] + Sum((s \ {x}) \ {p})
  <2>1. /\ s \ {p} \in SUBSET s /\ s \ {p} # s /\ x \in s \ {p}
        /\ s \ {x} \in SUBSET s /\ s \ {x} # s /\ p \in s \ {x}
    BY <1>2, <1>3, <1>4
  <2> QED BY <1>5, <2>1
<1>7. (s \ {p}) \ {x} = (s \ {x}) \ {p}
  OBVIOUS
<1>8. f[x] \in Nat /\ f[p] \in Nat /\ Sum((s \ {x}) \ {p}) \in Nat
  BY <1>2, <1>3, <1>e
<1> QED BY <1>2, <1>3, <1>6, <1>7, <1>8

\* A sum over more elements is not less.
LEMMA SumGrows ==
    ASSUME NEW S, IsFiniteSet(S), NEW f \in [S -> Nat], NEW u \in SUBSET S
    PROVE  \A s \in SUBSET S :
              u \subseteq s => SumFunctionOnSet(f, u) <= SumFunctionOnSet(f, s)
<1>t. \A s \in SUBSET S : \A x \in s :
         SumFunctionOnSet(f, s) = f[x] + SumFunctionOnSet(f, s \ {x})
  BY SumTakes, ZenonT(30)
<1> DEFINE Sum(s) == SumFunctionOnSet(f, s)
           T == {s \in SUBSET S : u \subseteq s /\ ~(Sum(u) <= Sum(s))}
<1> SUFFICES ASSUME T # {} PROVE FALSE
  OBVIOUS
<1>0. T \subseteq SUBSET S
  OBVIOUS
<1>n. \A s \in SUBSET S : Sum(s) \in Nat
  BY SumEquation
<1>e. \A s \in SUBSET S : \A x \in s : Sum(s) = f[x] + Sum(s \ {x})
  BY <1>t, Zenon
<1> HIDE DEF Sum
<1>1. PICK s \in T : \A y \in T : ~(y \subseteq s /\ y # s)
  <2> HIDE DEF T
  <2> QED BY <1>0, SubsetMin
<1>2. s \in SUBSET S /\ u \subseteq s /\ ~(Sum(u) <= Sum(s))
  BY <1>1
<1>3. s # u
  BY <1>2, <1>n
<1>4. PICK x \in s : x \notin u
  BY <1>2, <1>3
<1>5. s \ {x} \in SUBSET S /\ u \subseteq s \ {x} /\ s \ {x} # s
  BY <1>2, <1>4
<1>6. Sum(u) <= Sum(s \ {x})
  BY <1>1, <1>5
<1>7. Sum(s) = f[x] + Sum(s \ {x}) /\ f[x] \in Nat /\ Sum(s \ {x}) \in Nat /\ Sum(u) \in Nat
  BY <1>2, <1>4, <1>5, <1>n, <1>e
<1> QED BY <1>2, <1>6, <1>7

\* A finite set of natural numbers has a maximum.
LEMMA MaxIs ==
    ASSUME NEW S, IsFiniteSet(S)
    PROVE  S \subseteq Nat /\ S # {} => Max(S) \in S /\ \A y \in S : y <= Max(S)
<1>m. \A U \in SUBSET SUBSET S : U # {} => \E s \in U : \A y \in U : ~(y \subseteq s /\ y # s)
  BY SubsetMin
<1> SUFFICES ASSUME S \subseteq Nat, S # {}
             PROVE  Max(S) \in S /\ \A y \in S : y <= Max(S)
  OBVIOUS
<1> DEFINE T == {s \in SUBSET S : s # {} /\ ~\E x \in s : \A y \in s : x >= y}
<1>0. T \in SUBSET SUBSET S
  OBVIOUS
<1>1. T = {}
  <2> SUFFICES ASSUME T # {} PROVE FALSE
    OBVIOUS
  <2>1. PICK s \in T : \A y \in T : ~(y \subseteq s /\ y # s)
    <3> HIDE DEF T
    <3> QED BY <1>0, <1>m
  <2>2. PICK a \in s : TRUE
    BY <2>1
  <2>3. s \ {a} \in SUBSET S /\ s \ {a} \subseteq s /\ s \ {a} # s
    BY <2>1, <2>2
  <2>4. s \ {a} \notin T
    BY <2>1, <2>3
  <2>5. s \in SUBSET S /\ a \in Nat
    BY <2>1, <2>2
  <2>6. CASE s \ {a} = {}
    <3>1. \A y \in s : a >= y
      BY <2>5, <2>6
    <3> QED BY <2>1, <2>2, <3>1
  <2>7. CASE s \ {a} # {}
    <3>1. PICK b \in s \ {a} : \A y \in s \ {a} : b >= y
      BY <2>3, <2>4, <2>7
    <3>2. b \in Nat /\ b \in s
      BY <2>5, <3>1
    <3>3. \/ \A y \in s : a >= y
          \/ \A y \in s : b >= y
      BY <2>5, <3>1, <3>2
    <3> QED BY <2>1, <2>2, <3>2, <3>3
  <2> QED BY <2>6, <2>7
<1>2. \E x \in S : \A y \in S : x >= y
  BY <1>1
<1>3. Max(S) \in S /\ \A y \in S : Max(S) >= y
  BY <1>2 DEF Max
<1> QED BY <1>3

-----------------------------------------------------------------------------
(* What the formulas of computeUtilization amount to *)

\* The request of a pod covers its containers together and each of its init
\* containers by itself (effectivePodRequests).
LEMMA EffectiveRequests ==
    ASSUME NEW p \in DOMAIN Pods, NEW r \in Resources
    PROVE  /\ EffectivePodRequests(p)[r] \in Nat
           /\ \A c \in DOMAIN Pods[p].containers :
                 Pods[p].containers[c][r] <= EffectivePodRequests(p)[r]
           /\ \A c \in DOMAIN Pods[p].initContainers :
                 Pods[p].initContainers[c][r] <= EffectivePodRequests(p)[r]
<1> DEFINE C == DOMAIN Pods[p].containers
           I == DOMAIN Pods[p].initContainers
           f == [c \in C |-> Pods[p].containers[c][r]]
           g == [c \in I |-> Pods[p].initContainers[c][r]]
           M == {SumFunction(f)} \cup {g[c] : c \in I}
<1>1. IsFiniteSet(C) /\ IsFiniteSet(I) /\ f \in [C -> Nat] /\ g \in [I -> Nat]
  BY ConstantsAssumption DEF Quantities
<1>2. SumFunction(f) = SumFunctionOnSet(f, C)
  BY DEF SumFunction, SumFunctionOnSet, FoldFunction
<1>p. EffectivePodRequests(p)[r] = Max(M)
  BY DEF EffectivePodRequests
<1>v. /\ \A c \in C : Pods[p].containers[c][r] = f[c]
      /\ \A c \in I : Pods[p].initContainers[c][r] = g[c]
  OBVIOUS
<1> HIDE DEF C, I, f, g
<1>3. SumFunctionOnSet(f, C) \in Nat
  BY <1>1, SumEquation
<1>4. ASSUME NEW c \in C PROVE f[c] <= SumFunctionOnSet(f, C)
  <2>1. SumFunctionOnSet(f, C) = f[c] + SumFunctionOnSet(f, C \ {c})
    BY <1>1, SumTakes
  <2>2. SumFunctionOnSet(f, C \ {c}) \in Nat /\ f[c] \in Nat
    BY <1>1, SumEquation
  <2> QED BY <2>1, <2>2
<1>5. M \subseteq Nat /\ M # {} /\ IsFiniteSet(M)
  <2>1. IsFiniteSet({g[c] : c \in I})
    <3> DEFINE G == {g[c] : c \in I}
    <3>1. g \in Surjection(I, G)
      BY <1>1 DEF Surjection
    <3> HIDE DEF G
    <3>2. IsFiniteSet(G)
      BY <1>1, <3>1, FS_Surjection
    <3> QED BY <3>2 DEF G
  <2>2. IsFiniteSet({SumFunction(f)})
    BY FS_Singleton
  <2>3. IsFiniteSet(M)
    BY <2>1, <2>2, FS_Union
  <2> QED BY <1>1, <1>2, <1>3, <2>3
<1>6. SumFunctionOnSet(f, C) \in M /\ \A c \in I : g[c] \in M
  BY <1>2
<1>7. Max(M) \in M /\ \A y \in M : y <= Max(M)
  <2> HIDE DEF M
  <2> QED BY <1>5, MaxIs
<1>8. Max(M) \in Nat
  BY <1>5, <1>7
<1>9. \A c \in C : f[c] <= Max(M)
  <2> SUFFICES ASSUME NEW c \in C PROVE f[c] <= Max(M)
    OBVIOUS
  <2> HIDE DEF M
  <2>1. f[c] <= SumFunctionOnSet(f, C) /\ SumFunctionOnSet(f, C) <= Max(M)
    BY <1>4, <1>6, <1>7
  <2> QED BY <1>1, <1>3, <1>8, <2>1
<1>10. \A c \in I : g[c] <= Max(M)
  BY <1>6, <1>7
<1> HIDE DEF M
<1> QED BY <1>p, <1>v, <1>8, <1>9, <1>10 DEF C, I

\* The totals over nodes and pods are quantities (collectWorkerCapacity and the
\* pod loop of computeUtilization).
LEMMA TotalsAreQuantities ==
    /\ \A ns \in SUBSET DOMAIN Nodes : WorkerCapacity(ns) \in Quantities
    /\ \A ps \in SUBSET DOMAIN Pods : Requested(ps) \in Quantities
<1>1. ASSUME NEW ns \in SUBSET DOMAIN Nodes, NEW r \in Resources
      PROVE  WorkerCapacity(ns)[r] \in Nat
  <2> DEFINE f == [n \in DOMAIN Nodes |-> Nodes[n].allocatable[r]]
             s == {n \in ns : ~IsMasterNode(n)}
  <2>1. f \in [DOMAIN Nodes -> Nat] /\ IsFiniteSet(DOMAIN Nodes)
        /\ s \in SUBSET DOMAIN Nodes
    BY ConstantsAssumption DEF Quantities
  <2>2. WorkerCapacity(ns)[r] = SumFunctionOnSet(f, s)
    BY DEF WorkerCapacity
  <2> HIDE DEF f, s
  <2> QED BY <2>1, <2>2, SumEquation
<1>2. ASSUME NEW ps \in SUBSET DOMAIN Pods, NEW r \in Resources
      PROVE  Requested(ps)[r] \in Nat
  <2> DEFINE f == [p \in DOMAIN Pods |-> EffectivePodRequests(p)[r]]
  <2>1. f \in [DOMAIN Pods -> Nat] /\ IsFiniteSet(DOMAIN Pods)
    BY ConstantsAssumption, EffectiveRequests
  <2>2. Requested(ps)[r] = SumFunctionOnSet(f, ps)
    BY DEF Requested
  <2> HIDE DEF f
  <2> QED BY <2>1, <2>2, SumEquation
<1> QED BY <1>1, <1>2 DEF WorkerCapacity, Requested, Quantities

\* A pod that starts running never lowers what is requested, of any resource: the
\* ratio that Reconcile compares with the peak falls only when a pod ends or
\* capacity is added (computeUtilization).
THEOREM MorePodsRequestMore ==
    ASSUME NEW qs \in SUBSET DOMAIN Pods, NEW ps \in SUBSET qs, NEW r \in Resources
    PROVE  Requested(ps)[r] <= Requested(qs)[r]
<1> DEFINE f == [p \in DOMAIN Pods |-> EffectivePodRequests(p)[r]]
<1>1. f \in [DOMAIN Pods -> Nat] /\ IsFiniteSet(DOMAIN Pods)
  BY ConstantsAssumption, EffectiveRequests
<1>2. \A s : Requested(s)[r] = SumFunctionOnSet(f, s)
  BY DEF Requested
<1> HIDE DEF f
<1>3. ps \in SUBSET DOMAIN Pods /\ ps \subseteq qs
  OBVIOUS
<1>4. SumFunctionOnSet(f, ps) <= SumFunctionOnSet(f, qs)
  BY <1>1, <1>3, SumGrows
<1> QED BY <1>2, <1>4

-----------------------------------------------------------------------------
(* Fractions *)

\* Comparing fractions by cross-multiplication is a total preorder.
LEMMA RatioOrder ==
    ASSUME NEW a \in Ratios, NEW b \in Ratios
    PROVE  ~Exceeds(a, a) /\ (Exceeds(a, b) => ~Exceeds(b, a))
BY DEF Exceeds, Ratios

\* Cancelling a positive factor.
LEMMA Cancel ==
    ASSUME NEW x \in Nat, NEW y \in Nat, NEW k \in Nat \ {0}, k * x <= k * y
    PROVE  x <= y
BY SMTT(30)

\* Multiplying by a natural number keeps the order.
LEMMA Scale ==
    ASSUME NEW x \in Nat, NEW y \in Nat, NEW k \in Nat, x <= y
    PROVE  k * x <= k * y
BY SMTT(30)

\* The order of fractions is transitive.
LEMMA RatioTransitive ==
    ASSUME NEW a \in Ratios, NEW b \in Ratios, NEW c \in Ratios,
           ~Exceeds(a, b), ~Exceeds(b, c)
    PROVE  ~Exceeds(a, c)
<1> DEFINE an == a.num  ad == a.den  bn == b.num  bd == b.den  cn == c.num  cd == c.den
<1>1. /\ an \in Nat /\ bn \in Nat /\ cn \in Nat
      /\ ad \in Nat \ {0} /\ bd \in Nat \ {0} /\ cd \in Nat \ {0}
  BY DEF Ratios
<1>2. an * bd <= bn * ad /\ bn * cd <= cn * bd
  BY <1>1 DEF Exceeds
<1> HIDE DEF an, ad, bn, bd, cn, cd
<1>3. cd * (an * bd) <= cd * (bn * ad)
  BY <1>1, <1>2, Scale
<1>4. ad * (bn * cd) <= ad * (cn * bd)
  BY <1>1, <1>2, Scale
<1>5. bd * (an * cd) <= bd * (cn * ad)
  <2>1. cd * (an * bd) = bd * (an * cd) /\ ad * (cn * bd) = bd * (cn * ad)
        /\ cd * (bn * ad) = ad * (bn * cd)
    BY <1>1, SMTT(30)
  <2> QED BY <1>1, <1>3, <1>4, <2>1
<1>6. an * cd \in Nat /\ cn * ad \in Nat
  BY <1>1
<1>7. an * cd <= cn * ad
  BY <1>1, <1>5, <1>6, Cancel
<1> QED BY <1>1, <1>7 DEF Exceeds, an, ad, bn, bd, cn, cd

\* The raised peak covers both the old one and the observation.
LEMMA RaisedCovers ==
    ASSUME NEW pk \in CapacityPeaks, NEW now \in CapacityPeaks
    PROVE  /\ Raised(pk, now) \in CapacityPeaks
           /\ Within(pk, Raised(pk, now))
           /\ Within(now, Raised(pk, now))
<1>1. Raised(pk, now) \in CapacityPeaks
  BY DEF Raised, CapacityPeaks
<1>2. ASSUME NEW r \in Resources
      PROVE  ~Exceeds(pk[r], Raised(pk, now)[r]) /\ ~Exceeds(now[r], Raised(pk, now)[r])
  <2>1. pk[r] \in Ratios /\ now[r] \in Ratios
    BY DEF CapacityPeaks
  <2>2. CASE Exceeds(now[r], pk[r])
    <3>1. Raised(pk, now)[r] = now[r]
      BY <2>2 DEF Raised
    <3> QED BY <2>1, <2>2, <3>1, RatioOrder
  <2>3. CASE ~Exceeds(now[r], pk[r])
    <3>1. Raised(pk, now)[r] = pk[r]
      BY <2>3 DEF Raised
    <3> QED BY <2>1, <2>3, <3>1, RatioOrder
  <2> QED BY <2>2, <2>3
<1> QED BY <1>1, <1>2 DEF Within

\* Within is a preorder on peaks, with ZeroPeak at its bottom.
LEMMA WithinOrder ==
    /\ \A a \in CapacityPeaks : Within(a, a)
    /\ \A a, b, c \in CapacityPeaks : Within(a, b) /\ Within(b, c) => Within(a, c)
    /\ ZeroPeak \in CapacityPeaks
    /\ \A a \in CapacityPeaks : Within(ZeroPeak, a)
<1>1. \A a \in CapacityPeaks : Within(a, a)
  BY RatioOrder DEF Within, CapacityPeaks
<1>2. ASSUME NEW a \in CapacityPeaks, NEW b \in CapacityPeaks, NEW c \in CapacityPeaks,
             Within(a, b), Within(b, c)
      PROVE  Within(a, c)
  <2>1. ASSUME NEW r \in Resources PROVE ~Exceeds(a[r], c[r])
    <3>1. a[r] \in Ratios /\ b[r] \in Ratios /\ c[r] \in Ratios
      BY DEF CapacityPeaks
    <3>2. ~Exceeds(a[r], b[r]) /\ ~Exceeds(b[r], c[r])
      BY <1>2 DEF Within
    <3> QED BY <3>1, <3>2, RatioTransitive
  <2> QED BY <2>1 DEF Within
<1>3. ZeroPeak \in CapacityPeaks
  BY DEF ZeroPeak, CapacityPeaks, Ratios
<1>4. ASSUME NEW a \in CapacityPeaks, NEW r \in Resources
      PROVE  ~Exceeds(ZeroPeak[r], a[r])
  BY DEF ZeroPeak, CapacityPeaks, Ratios, Exceeds
<1> QED BY <1>1, <1>2, <1>3, <1>4 DEF Within

\* Every version of the ConfigMap has a peak.
LEMMA VersionTypes ==
    ASSUME TypeOK
    PROVE  Versions \subseteq ConfigMaps /\ \A v \in Versions : v.peak \in CapacityPeaks
<1>1. \A i \in DOMAIN cmWatch : cmWatch[i] \in ConfigMaps
  BY DEF TypeOK
<1>2. Versions \subseteq ConfigMaps
  BY <1>1 DEF TypeOK, Versions
<1> QED BY <1>2 DEF ConfigMaps

\* The part of the invariant about the ConfigMap.
CmInv ==
    /\ CacheTrails
    /\ \A v \in Versions : Within(v.peak, highest)

\* Storing a version keeps the ConfigMap's part of the invariant, and the history
\* of the highest peak covers what it covered.
LEMMA StoreKeeps ==
    ASSUME TypeOK, CmInv, NEW new \in ConfigMaps, Store(new)
    PROVE  /\ cm' \in ConfigMaps /\ cmCache' \in ConfigMaps
           /\ cmWatch' \in Seq(ConfigMaps)
           /\ highest' \in CapacityPeaks
           /\ CmInv'
           /\ Within(highest, highest')
           /\ Within(new.peak, highest')
<1>1. new.peak \in CapacityPeaks /\ highest \in CapacityPeaks
  BY DEF ConfigMaps, TypeOK
<1>2. /\ highest' \in CapacityPeaks
      /\ Within(highest, highest')
      /\ Within(new.peak, highest')
  BY <1>1, RaisedCovers DEF Store
<1>3. /\ cm' \in ConfigMaps /\ cmCache' \in ConfigMaps
      /\ cmWatch' \in Seq(ConfigMaps)
  BY DEF Store, TypeOK
<1>4. CacheTrails'
  <2>1. CASE new = cm
    BY <2>1 DEF Store, CmInv, CacheTrails
  <2>2. CASE new # cm
    <3>1. cmWatch' = Append(cmWatch, new) /\ cm' = new
      BY <2>2 DEF Store
    <3>2. cmWatch' # <<>> /\ cmWatch'[Len(cmWatch')] = new
      BY <3>1 DEF TypeOK
    <3> QED BY <3>1, <3>2 DEF CacheTrails
  <2> QED BY <2>1, <2>2
<1>5. Versions' \subseteq Versions \cup {new}
  <2>1. {cm, cmCache}' \subseteq Versions \cup {new}
    BY DEF Store, Versions
  <2>2. ASSUME NEW i \in DOMAIN cmWatch' PROVE cmWatch'[i] \in Versions \cup {new}
    <3>1. CASE cmWatch' = cmWatch
      BY <3>1, <2>2 DEF Versions
    <3>2. CASE cmWatch' = Append(cmWatch, new)
      <4>1. \/ i \in DOMAIN cmWatch /\ cmWatch'[i] = cmWatch[i]
            \/ cmWatch'[i] = new
        BY <3>2, <2>2 DEF TypeOK
      <4> QED BY <4>1 DEF Versions
    <3> QED BY <3>1, <3>2 DEF Store
  <2> QED BY <2>1, <2>2 DEF Versions
<1>6. ASSUME NEW v \in Versions' PROVE Within(v.peak, highest')
  <2>1. CASE v = new
    BY <2>1, <1>2
  <2>2. CASE v \in Versions
    <3>1. v.peak \in CapacityPeaks
      BY <2>2, VersionTypes
    <3>2. Within(v.peak, highest)
      BY <2>2 DEF CmInv
    <3> QED BY <1>1, <1>2, <3>1, <3>2, WithinOrder
  <2> QED BY <1>5, <1>6, <2>1, <2>2
<1> QED BY <1>2, <1>3, <1>4, <1>6 DEF CmInv

\* Finishing a reconcile, and paying for a failure, keep the types.
LEMMA ControlTypes ==
    ASSUME TypeOK
    PROVE  /\ \A what \in BudgetItems : Spend(what) => budget' \in [BudgetItems -> Nat]
           /\ Finish => /\ due' \in BOOLEAN /\ readLatest' \in BOOLEAN
                        /\ pc' = "idle"
                        /\ capacity' \in Quantities
                        /\ ratio' \in CapacityPeaks /\ peak' \in CapacityPeaks
<1>1. ASSUME NEW what \in BudgetItems, Spend(what) PROVE budget' \in [BudgetItems -> Nat]
  BY <1>1 DEF TypeOK, Spend
<1>2. ASSUME Finish
      PROVE  /\ due' \in BOOLEAN /\ readLatest' \in BOOLEAN
             /\ pc' = "idle"
             /\ capacity' \in Quantities
             /\ ratio' \in CapacityPeaks /\ peak' \in CapacityPeaks
  BY <1>2, WithinOrder DEF Finish, Quantities
<1> QED BY <1>1, <1>2

\* What a step needs to keep for the invariant when it leaves the ConfigMap
\* alone.
LEMMA QuietKeeps ==
    ASSUME IInv, UNCHANGED cmVars, TypeOK', SaveCovers', PublishedIsDurable',
           pc' = "listPods" => HasCapacity(capacity')
    PROVE  IInv'
BY DEF IInv, cmVars, CacheTrails, Versions

\* A reconcile that is not about to save has nothing to cover.
LEMMA IdleCovers ==
    ASSUME pc' # "savePeak"
    PROVE  SaveCovers'
BY DEF SaveCovers

\* Every step of Reconcile keeps the invariant.
LEMMA ReconcileInv ==
    ASSUME IInv, ReconcileStep
    PROVE  IInv'
<1> USE DEF Fault, NoFault
<1>t. TypeOK
  BY DEF IInv
<1>b. Spend("fault") \/ UNCHANGED budget => budget' \in [BudgetItems -> Nat]
  BY <1>t, ControlTypes DEF TypeOK, BudgetItems
<1>1. CASE ListNodes
  <2>1. /\ TypeOK' /\ pc' # "savePeak"
        /\ pc' = "listPods" => HasCapacity(capacity')
    <3>1. CASE pc' = "listPods" /\ UNCHANGED <<budget, ratio, peak, readLatest>>
               /\ due' = FALSE /\ capacity' = WorkerCapacity(nodes)
               /\ HasCapacity(WorkerCapacity(nodes))
      <4>1. capacity' \in Quantities
        BY <1>t, <3>1, TotalsAreQuantities DEF TypeOK
      <4> QED BY <1>1, <1>t, <3>1, <4>1 DEF ListNodes, TypeOK, cmVars
    <3>2. CASE Finish /\ (UNCHANGED budget \/ Spend("fault"))
      BY <1>1, <1>t, <1>b, <3>2, ControlTypes DEF ListNodes, TypeOK, cmVars
    <3> QED BY <1>1, <3>1, <3>2 DEF ListNodes
  <2>2. PublishedIsDurable'
    BY <1>1 DEF ListNodes, IInv, PublishedIsDurable, cmVars
  <2> QED BY <1>1, <2>1, <2>2, IdleCovers, QuietKeeps DEF ListNodes
<1>2. CASE ListPods
  <2>1. TypeOK' /\ pc' \notin {"listPods", "savePeak"} /\ gauges'.peak = gauges.peak
    <3>1. CASE /\ pc' = "loadPeak" /\ UNCHANGED <<budget, due, capacity, peak, readLatest>>
               /\ ratio' = Utilization(Requested(running), capacity)
               /\ gauges' = [gauges EXCEPT !.current = ratio']
      <4>1. Requested(running) \in Quantities
        BY <1>t, TotalsAreQuantities DEF TypeOK
      <4>2. HasCapacity(capacity)
        BY <1>2 DEF ListPods, IInv
      <4>3. ratio' \in CapacityPeaks
        BY <1>t, <3>1, <4>1, <4>2
           DEF TypeOK, Utilization, HasCapacity, CapacityPeaks, Ratios, Quantities
      <4> QED BY <1>2, <1>t, <3>1, <4>3 DEF ListPods, TypeOK, cmVars
    <3>2. CASE Finish /\ UNCHANGED gauges /\ Spend("fault")
      BY <1>2, <1>t, <1>b, <3>2, ControlTypes DEF ListPods, TypeOK, cmVars
    <3> QED BY <1>2, <3>1, <3>2 DEF ListPods
  <2>2. PublishedIsDurable'
    BY <1>2, <2>1 DEF ListPods, IInv, PublishedIsDurable, cmVars
  <2> QED BY <1>2, <2>1, <2>2, IdleCovers, QuietKeeps DEF ListPods
<1>3. CASE LoadPeak
  <2>v. cmCache \in Versions /\ cmCache.peak \in CapacityPeaks
    BY <1>t, VersionTypes DEF Versions
  <2>1. CASE /\ pc' = "savePeak" /\ peak' = Raised(cmCache.peak, ratio)
             /\ readLatest' = (cmWatch = <<>>)
             /\ UNCHANGED <<budget, due, capacity, ratio, gauges>>
    <3>1. peak' \in CapacityPeaks /\ Within(cmCache.peak, peak')
      BY <1>t, <2>1, <2>v, RaisedCovers DEF TypeOK
    <3>2. TypeOK'
      BY <1>3, <1>t, <2>1, <3>1 DEF LoadPeak, TypeOK, cmVars
    <3>3. SaveCovers'
      BY <1>3, <2>1, <3>1 DEF LoadPeak, IInv, SaveCovers, CacheTrails, cmVars
    <3>4. PublishedIsDurable'
      BY <1>3, <2>1 DEF LoadPeak, IInv, PublishedIsDurable, cmVars
    <3> QED BY <1>3, <2>1, <3>2, <3>3, <3>4, QuietKeeps DEF LoadPeak
  <2>2. CASE /\ Finish /\ UNCHANGED budget
             /\ gauges' = [gauges EXCEPT !.peak = cmCache.peak]
    <3>1. TypeOK' /\ pc' = "idle"
      BY <1>3, <1>t, <2>2, <2>v, ControlTypes DEF LoadPeak, TypeOK, cmVars
    <3>2. PublishedIsDurable'
      BY <1>3, <1>t, <2>2, <2>v DEF LoadPeak, TypeOK, IInv, PublishedIsDurable, cmVars
    <3> QED BY <1>3, <3>1, <3>2, IdleCovers, QuietKeeps DEF LoadPeak
  <2>3. CASE Finish /\ UNCHANGED gauges /\ (UNCHANGED budget \/ Spend("fault"))
    <3>1. TypeOK' /\ pc' = "idle"
      BY <1>3, <1>t, <1>b, <2>3, ControlTypes DEF LoadPeak, TypeOK, cmVars
    <3>2. PublishedIsDurable'
      BY <1>3, <2>3 DEF LoadPeak, IInv, PublishedIsDurable, cmVars
    <3> QED BY <1>3, <3>1, <3>2, IdleCovers, QuietKeeps DEF LoadPeak
  <2> QED BY <1>3, <2>1, <2>2, <2>3 DEF LoadPeak
<1>4. CASE SavePeak
  <2>f. Finish /\ pc' = "idle"
    BY <1>4, <1>t, ControlTypes DEF SavePeak
  <2>1. CASE /\ UNCHANGED budget /\ Store(ConfigMap("peak", peak))
             /\ gauges' = [gauges EXCEPT !.peak = peak]
    <3>1. /\ ConfigMap("peak", peak) \in ConfigMaps
          /\ ConfigMap("peak", peak).peak = peak
      BY <1>t DEF ConfigMap, ConfigMaps, TypeOK
    <3>2. /\ cm' \in ConfigMaps /\ cmCache' \in ConfigMaps
          /\ cmWatch' \in Seq(ConfigMaps)
          /\ highest' \in CapacityPeaks
          /\ CmInv'
          /\ Within(peak, highest')
      BY <1>t, <2>1, <3>1, StoreKeeps DEF IInv, CmInv
    <3>3. TypeOK'
      BY <1>4, <1>t, <2>1, <2>f, <3>2, ControlTypes DEF SavePeak, TypeOK
    <3>4. PublishedIsDurable'
      BY <1>t, <2>1, <3>2 DEF TypeOK, PublishedIsDurable
    <3> QED BY <2>f, <3>2, <3>3, <3>4, IdleCovers DEF IInv, CmInv
  <2>2. CASE UNCHANGED <<cmVars, gauges>> /\ (UNCHANGED budget \/ Spend("fault"))
    <3>1. TypeOK'
      BY <1>4, <1>t, <1>b, <2>2, <2>f, ControlTypes DEF SavePeak, TypeOK, cmVars
    <3>2. PublishedIsDurable'
      BY <2>2 DEF IInv, PublishedIsDurable, cmVars
    <3> QED BY <2>2, <2>f, <3>1, <3>2, IdleCovers, QuietKeeps
  <2> QED BY <1>4, <2>1, <2>2 DEF SavePeak
<1> QED BY <1>1, <1>2, <1>3, <1>4 DEF ReconcileStep

\* So does every step of the cluster.
LEMMA ClusterInv ==
    ASSUME IInv, DeliverEvent \/ NodeChange \/ PodChange \/ AdminEdit \/ Restart
    PROVE  IInv'
<1>t. TypeOK
  BY DEF IInv
<1>b. \A what \in BudgetItems : Spend(what) => budget' \in [BudgetItems -> Nat]
  BY <1>t, ControlTypes
<1>1. CASE DeliverEvent
  <2>1. /\ cmCache' = cmWatch[1]
        /\ cmWatch' \in Seq(ConfigMaps)
        /\ Len(cmWatch') = Len(cmWatch) - 1
        /\ \A i \in DOMAIN cmWatch' : i + 1 \in DOMAIN cmWatch /\ cmWatch'[i] = cmWatch[i + 1]
        /\ 1 \in DOMAIN cmWatch
    BY <1>1, <1>t DEF DeliverEvent, TypeOK
  <2>2. CacheTrails'
    <3>1. CASE cmWatch' = <<>>
      <4>1. Len(cmWatch) = 1
        BY <1>t, <2>1, <3>1 DEF TypeOK
      <4> QED BY <1>1, <2>1, <3>1, <4>1 DEF DeliverEvent, IInv, CacheTrails
    <3>2. CASE cmWatch' # <<>>
      <4>1. Len(cmWatch') \in DOMAIN cmWatch'
        BY <2>1, <3>2
      <4>2. cmWatch'[Len(cmWatch')] = cmWatch[Len(cmWatch)]
        BY <1>t, <2>1, <4>1 DEF TypeOK
      <4> QED BY <1>1, <3>2, <4>2 DEF DeliverEvent, IInv, CacheTrails
    <3> QED BY <3>1, <3>2
  <2>3. Versions' \subseteq Versions
    <3>1. ASSUME NEW i \in DOMAIN cmWatch' PROVE cmWatch'[i] \in Versions
      BY <2>1 DEF Versions
    <3> QED BY <1>1, <2>1, <3>1 DEF DeliverEvent, Versions
  <2>4. TypeOK'
    BY <1>1, <1>t, <2>1 DEF DeliverEvent, TypeOK, localVars
  <2> QED BY <1>1, <2>2, <2>3, <2>4
          DEF DeliverEvent, localVars, IInv, SaveCovers, PublishedIsDurable
<1>2. CASE NodeChange
  <2>1. TypeOK'
    BY <1>2, <1>t DEF NodeChange, TypeOK, cmVars, localVars
  <2> QED BY <1>2, <2>1, QuietKeeps
          DEF NodeChange, cmVars, localVars, IInv, SaveCovers, PublishedIsDurable
<1>3. CASE PodChange
  <2>1. TypeOK'
    BY <1>3, <1>t DEF PodChange, TypeOK, cmVars, localVars
  <2> QED BY <1>3, <2>1, QuietKeeps
          DEF PodChange, cmVars, localVars, IInv, SaveCovers, PublishedIsDurable
<1>4. CASE AdminEdit
  <2>1. PICK state \in {"absent", "empty", "malformed"} : Store(Blank(state))
    BY <1>4 DEF AdminEdit
  <2>2. Blank(state) \in ConfigMaps
    BY WithinOrder DEF Blank, ConfigMap, ConfigMaps
  <2>3. /\ cm' \in ConfigMaps /\ cmCache' \in ConfigMaps
        /\ cmWatch' \in Seq(ConfigMaps)
        /\ highest' \in CapacityPeaks
        /\ CmInv'
        /\ Within(highest, highest')
    BY <1>t, <2>1, <2>2, StoreKeeps DEF IInv, CmInv
  <2>4. TypeOK'
    BY <1>4, <1>t, <1>b, <2>3 DEF AdminEdit, TypeOK, localVars, BudgetItems
  <2>5. cm'.state # "peak"
    BY <2>1 DEF Store, Blank, ConfigMap
  <2>6. PublishedIsDurable'
    BY <1>4, <1>t, <2>3, WithinOrder DEF AdminEdit, IInv, TypeOK, PublishedIsDurable
  <2> QED BY <1>4, <2>3, <2>4, <2>5, <2>6
          DEF AdminEdit, localVars, IInv, CmInv, SaveCovers
<1>5. CASE Restart
  <2>1. TypeOK' /\ pc' = "idle"
    BY <1>5, <1>t, <1>b, ControlTypes, WithinOrder DEF Restart, TypeOK, BudgetItems
  <2>2. PublishedIsDurable'
    BY <1>5, <1>t, WithinOrder DEF Restart, TypeOK, PublishedIsDurable
  <2>3. CmInv'
    BY <1>5 DEF Restart, IInv, CmInv, CacheTrails, Versions
  <2> QED BY <2>1, <2>2, <2>3, IdleCovers DEF IInv, CmInv
<1> QED BY <1>1, <1>2, <1>3, <1>4, <1>5

\* The inductive invariant of the polling loop.
THEOREM Invariance == Spec => []IInv
<1>1. ASSUME Init PROVE IInv
  <2>1. TypeOK
    BY <1>1, ConstantsAssumption, WithinOrder
       DEF Init, TypeOK, Blank, ConfigMap, ConfigMaps, Quantities
  <2>2. CacheTrails /\ SaveCovers /\ (pc = "listPods" => HasCapacity(capacity))
    BY <1>1 DEF Init, CacheTrails, SaveCovers
  <2>3. PublishedIsDurable /\ \A v \in Versions : Within(v.peak, highest)
    BY <1>1, WithinOrder DEF Init, PublishedIsDurable, Versions, Blank, ConfigMap
  <2> QED BY <2>1, <2>2, <2>3 DEF IInv
<1>2. ASSUME IInv, [Next]_vars PROVE IInv'
  <2>1. CASE UNCHANGED vars
    BY <1>2, <2>1 DEF vars, IInv, TypeOK, CacheTrails, SaveCovers, Versions,
                      PublishedIsDurable
  <2> QED BY <1>2, <2>1, ReconcileInv, ClusterInv DEF Next
<1> QED BY <1>1, <1>2, PTL DEF Spec

\* computeUtilization never divides by zero, whichever node leaves during a
\* poll, and every figure keeps its type.
THEOREM TypeCorrect == Spec => []TypeOK
<1>1. IInv => TypeOK
  BY DEF IInv
<1> QED BY <1>1, Invariance, PTL

\* Reconcile publishes no peak that the ConfigMap has not held.
THEOREM AlwaysDurable == Spec => []PublishedIsDurable
<1>1. IInv => PublishedIsDurable
  BY DEF IInv
<1> QED BY <1>1, Invariance, PTL

\* savePeak lowers the stored peak only after loadPeak has read an outdated
\* ConfigMap: a cache that has caught up by the next poll makes it a watermark.
THEOREM WatermarkWhenCurrent == Spec => FallsOnlyWhenStale
<1>1. ASSUME IInv, [Next]_vars PROVE [Lowers => ~readLatest]_vars
  <2>1. ASSUME SavePeak, Lowers, readLatest PROVE FALSE
    <3>1. Within(cm.peak, peak)
      BY <1>1, <2>1 DEF SavePeak, Lowers, IInv, SaveCovers
    <3>2. cm'.peak \in {peak, cm.peak}
      BY <2>1 DEF SavePeak, Store, ConfigMap, cmVars
    <3>3. Within(cm.peak, cm.peak)
      BY <1>1, WithinOrder DEF IInv, TypeOK, ConfigMaps
    <3> QED BY <2>1, <3>1, <3>2, <3>3 DEF Lowers
  <2>2. ASSUME AdminEdit PROVE ~Lowers
    <3>1. cm'.state # "peak"
      BY <2>2 DEF AdminEdit, Store, Blank, ConfigMap
    <3> QED BY <3>1 DEF Lowers
  <2>3. ASSUME cm' = cm PROVE ~Lowers
    BY <1>1, <2>3, WithinOrder DEF IInv, TypeOK, ConfigMaps, Lowers
  <2>4. SavePeak \/ AdminEdit \/ cm' = cm
    BY <1>1 DEF Next, ReconcileStep, ListNodes, ListPods, LoadPeak, DeliverEvent,
                NodeChange, PodChange, Restart, vars, cmVars
  <2> QED BY <2>1, <2>2, <2>3, <2>4
<1> QED BY <1>1, Invariance, PTL DEF Spec, FallsOnlyWhenStale

=============================================================================
