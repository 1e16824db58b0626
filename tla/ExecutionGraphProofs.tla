------------------------- MODULE ExecutionGraphProofs -------------------------
(***************************************************************************)
(* What the algorithms of the two plan validations compute, and what their *)
(* acceptance is worth to a run, for plans of any size.                    *)
(*                                                                         *)
(* The algorithms are loops, written as functions of the number of passes. *)
(* Such a function exists (Iterates), and what each pass preserves holds   *)
(* of all of them (Induct); both rest on every nonempty set of naturals    *)
(* having a least member.                                                  *)
(***************************************************************************)
EXTENDS ExecutionGraph, FiniteSetTheorems, WellFoundedInduction, TLAPS

LEMMA NatMinimum ==
  ASSUME NEW S, S \subseteq Nat, S # {}
  PROVE  \E n \in S : \A m \in S : n <= m
<1> DEFINE R == {ss \in Nat \X Nat : ss[1] < ss[2]}
<1>1. IsWellFoundedOn(R, Nat)
  BY NatLessThanWellFounded DEF OpToRel
<1>2. PICK n \in S : \A m \in S : ~(<<m, n>> \in R)
  <2> HIDE DEF R
  <2> QED BY <1>1, WFMin
<1>3. ASSUME NEW m \in S PROVE n <= m
  <2>1. <<m, n>> \in R <=> m < n
    OBVIOUS
  <2> QED BY <1>2, <2>1
<1> QED BY <1>3

LEMMA MinIsLeast ==
  ASSUME NEW S, S \subseteq Nat, S # {}
  PROVE  Min(S) \in S /\ \A m \in S : Min(S) <= m
<1>1. \E n \in S : \A m \in S : n <= m
  BY NatMinimum
<1> QED BY <1>1, Zenon DEF Min

\* Induction up to n, over the set of the numbers a fact holds of.
LEMMA Induct ==
  ASSUME NEW n \in Nat, NEW S, 0 \in S,
         \A k \in 1..n : k - 1 \in S => k \in S
  PROVE  \A k \in 0..n : k \in S
<1> SUFFICES ASSUME \E k \in 0..n : k \notin S PROVE FALSE
  OBVIOUS
<1> DEFINE Bad == {k \in 0..n : k \notin S}
<1>1. Bad \subseteq Nat /\ Bad # {}
  OBVIOUS
<1>2. PICK m \in Bad : \A k \in Bad : m <= k
  <2> HIDE DEF Bad
  <2> QED BY <1>1, NatMinimum
<1>3. m \in 1..n /\ m - 1 \in 0..n /\ ~(m <= m - 1)
  BY <1>2
<1> QED BY <1>2, <1>3

\* f is what the passes F[1], ..., F[n] make of x, one after the other.
Chained(f, n, x, F) == f[0] = x /\ \A k \in 1..n : f[k] = F[k][f[k - 1]]

LEMMA Chains ==
  ASSUME NEW n \in Nat, NEW X, NEW x \in X, NEW F \in [1..n -> [X -> X]]
  PROVE  \E f \in [0..n -> X] : Chained(f, n, x, F)
<1> USE DEF Chained
<1> DEFINE Run(m, f) == Chained(f, m, x, F)
           S == {m \in 0..n : \E f \in [0..m -> X] : Run(m, f)}
<1>1. 0 \in S
  <2>1. [k \in 0..0 |-> x] \in [0..0 -> X] /\ Run(0, [k \in 0..0 |-> x])
    OBVIOUS
  <2>2. \E f \in [0..0 -> X] : Run(0, f)
    <3> HIDE DEF Run
    <3> QED BY <2>1
  <2> HIDE DEF Run
  <2> QED BY <2>2
<1>2. ASSUME NEW m \in 1..n, m - 1 \in S PROVE m \in S
  <2>1. PICK f \in [0..(m - 1) -> X] : Run(m - 1, f)
    BY <1>2
  <2> DEFINE y == F[m][f[m - 1]]
             g == [k \in 0..m |-> IF k = m THEN y ELSE f[k]]
  <2>2. g \in [0..m -> X]
    <3>1. m - 1 \in 0..(m - 1) /\ F[m] \in [X -> X]
      OBVIOUS
    <3>2. y \in X
      BY <3>1
    <3> HIDE DEF y
    <3> QED BY <3>2
  <2>3. Run(m, g)
    <3>1. g[0] = x
      BY <2>1
    <3>2. ASSUME NEW k \in 1..m PROVE g[k] = F[k][g[k - 1]]
      <4>1. g[k - 1] = f[k - 1]
        OBVIOUS
      <4>2. CASE k = m
        BY <4>1, <4>2
      <4>3. CASE k # m
        BY <4>1, <4>3, <2>1
      <4> QED BY <4>2, <4>3
    <3> QED BY <3>1, <3>2
  <2> HIDE DEF Run, g
  <2> QED BY <2>2, <2>3
<1>3. \A k \in 0..n : k \in S
  <2> HIDE DEF S
  <2> QED BY <1>1, <1>2, Induct
<1> QED BY <1>3

\* f is what n passes of F make of x.
Passes(f, n, x, F) == f[0] = x /\ \A k \in 1..n : f[k] = F[f[k - 1]]

\* A function of the number of passes exists for every pass.
LEMMA Iterates ==
  ASSUME NEW n \in Nat, NEW X, NEW x \in X, NEW F \in [X -> X]
  PROVE  \E f \in [0..n -> X] : Passes(f, n, x, F)
<1> DEFINE G == [k \in 1..n |-> F]
<1>1. PICK f \in [0..n -> X] : Chained(f, n, x, G)
  BY Chains
<1>2. Passes(f, n, x, F)
  BY <1>1 DEF Passes, Chained
<1> QED BY <1>2

-----------------------------------------------------------------------------
(* stableTopologicalOrder.                                                 *)

\* One round of the loop.
Extended(n, deps, before) ==
  LET available == AvailableNodes(1..n, deps, ToSet(before))
  IN IF available = {} THEN before ELSE Append(before, Min(available))

OrderSoFar(n, deps) ==
  CHOOSE order : order = [k \in 0..n |-> IF k = 0 THEN <<>>
                                         ELSE Extended(n, deps, order[k - 1])]

\* No node twice, and none before what it depends on.
Sorted(n, deps) ==
  {s \in Seq(1..n) :
     /\ \A i, j \in 1..Len(s) : s[i] = s[j] => i = j
     /\ \A k \in 1..Len(s) : deps[s[k]] \cap 1..n \subseteq {s[j] : j \in 1..(k - 1)}}

\* A round appends a node whose dependencies are all in the order already.
LEMMA ExtendedIsSorted ==
  ASSUME NEW n \in Nat, NEW deps, NEW s \in Sorted(n, deps)
  PROVE  /\ Extended(n, deps, s) \in Sorted(n, deps)
         /\ \/ AvailableNodes(1..n, deps, ToSet(s)) = {} /\ Extended(n, deps, s) = s
            \/ Len(Extended(n, deps, s)) = Len(s) + 1
<1> DEFINE available == AvailableNodes(1..n, deps, ToSet(s))
           next == Min(available)
<1>1. s \in Seq(1..n) /\ Len(s) \in Nat /\ DOMAIN s = 1..Len(s)
  BY DEF Sorted
<1>2. CASE available = {}
  BY <1>2 DEF Extended
<1>3. CASE available # {}
  <2>1. Extended(n, deps, s) = Append(s, next)
    BY <1>3 DEF Extended
  <2>2. next \in 1..n \ ToSet(s) /\ deps[next] \cap 1..n \subseteq ToSet(s)
    <3>1. available \subseteq Nat
      BY DEF AvailableNodes
    <3>2. next \in available
      BY <1>3, <3>1, MinIsLeast
    <3> QED BY <3>2 DEF AvailableNodes
  <2> HIDE DEF next
  <2> DEFINE t == Append(s, next)
  <2>3. /\ t \in Seq(1..n) /\ Len(t) = Len(s) + 1 /\ t[Len(s) + 1] = next
        /\ \A i \in 1..Len(s) : t[i] = s[i]
    BY <1>1, <2>2
  <2>4. ToSet(s) = {s[j] : j \in 1..Len(s)}
    BY <1>1 DEF ToSet
  <2> HIDE DEF t
  <2>5. \A i, j \in 1..Len(t) : t[i] = t[j] => i = j
    <3>1. \A i, j \in 1..Len(s) : s[i] = s[j] => i = j
      BY DEF Sorted
    <3>2. \A i \in 1..Len(s) : s[i] # next
      BY <2>2, <2>4
    <3>3. 1..Len(t) = 1..Len(s) \cup {Len(s) + 1}
      BY <1>1, <2>3
    <3> QED BY <2>3, <3>1, <3>2, <3>3
  <2>6. ASSUME NEW k \in 1..Len(t)
        PROVE  deps[t[k]] \cap 1..n \subseteq {t[j] : j \in 1..(k - 1)}
    <3>1. {t[j] : j \in 1..(k - 1)} = {s[j] : j \in 1..(k - 1)}
      <4>1. \A j \in 1..(k - 1) : t[j] = s[j]
        BY <1>1, <2>3
      <4> QED BY <4>1
    <3>2. CASE k = Len(s) + 1
      BY <1>1, <2>2, <2>3, <2>4, <3>1, <3>2
    <3>3. CASE k \in 1..Len(s)
      BY <1>1, <2>3, <3>1, <3>3 DEF Sorted
    <3> QED BY <1>1, <2>3, <3>2, <3>3
  <2>7. t \in Sorted(n, deps)
    BY <2>3, <2>5, <2>6 DEF Sorted
  <2> QED BY <2>1, <2>3, <2>7 DEF t
<1> QED BY <1>2, <1>3

LEMMA OrdersAreSorted ==
  ASSUME NEW n \in Nat, NEW deps
  PROVE  LET order == OrderSoFar(n, deps)
         IN /\ StableOrder(n, deps) = order[n]
            /\ order[0] = <<>>
            /\ \A k \in 1..n : order[k] = Extended(n, deps, order[k - 1])
            /\ \A k \in 0..n : order[k] \in Sorted(n, deps)
<1> DEFINE X == Sorted(n, deps)
           F == [s \in X |-> Extended(n, deps, s)]
           Is(g) == g = [k \in 0..n |-> IF k = 0 THEN <<>>
                                        ELSE Extended(n, deps, g[k - 1])]
           order == OrderSoFar(n, deps)
<1>1. <<>> \in X
  <2>1. <<>> \in Seq(1..n) /\ Len(<<>>) = 0
    OBVIOUS
  <2> QED BY <2>1 DEF Sorted
<1>2. F \in [X -> X]
  BY ExtendedIsSorted
<1>3. \E f : Is(f)
  <2> HIDE DEF X, F
  <2>1. \E f \in [0..n -> X] : Passes(f, n, <<>>, F)
    BY <1>1, <1>2, Iterates
  <2>2. PICK f \in [0..n -> X] : f[0] = <<>> /\ \A k \in 1..n : f[k] = F[f[k - 1]]
    BY <2>1 DEF Passes
  <2>3. ASSUME NEW k \in 1..n PROVE f[k] = Extended(n, deps, f[k - 1])
    <3>1. k - 1 \in 0..n
      OBVIOUS
    <3>2. f[k - 1] \in X
      BY <3>1
    <3>3. F[f[k - 1]] = Extended(n, deps, f[k - 1])
      BY <3>2 DEF F
    <3> QED BY <2>2, <3>3
  <2>4. Is(f)
    BY <2>2, <2>3
  <2> QED BY <2>4
<1>4. Is(order)
  BY <1>3, Zenon DEF OrderSoFar
<1>5. StableOrder(n, deps) = order[n]
  BY DEF StableOrder, OrderSoFar, Extended
<1>6. order[0] = <<>> /\ \A k \in 1..n : order[k] = Extended(n, deps, order[k - 1])
  <2> HIDE DEF order
  <2> QED BY <1>4
<1>7. \A k \in 0..n : order[k] \in X
  <2> DEFINE S == {k \in 0..n : order[k] \in X}
  <2>1. 0 \in S
    BY <1>1, <1>6
  <2>2. \A k \in 1..n : k - 1 \in S => k \in S
    BY <1>6, ExtendedIsSorted
  <2>3. \A k \in 0..n : k \in S
    <3> HIDE DEF S
    <3> QED BY <2>1, <2>2, Induct
  <2> QED BY <2>3
<1> QED BY <1>5, <1>6, <1>7

\* A round that finds nothing to append leaves the loop for good.
LEMMA StableOrderIsSorted ==
  ASSUME NEW n \in Nat, NEW deps
  PROVE  LET s == StableOrder(n, deps)
         IN /\ s \in Sorted(n, deps)
            /\ Len(s) = n \/ AvailableNodes(1..n, deps, ToSet(s)) = {}
<1> DEFINE order == OrderSoFar(n, deps)
           None(s) == AvailableNodes(1..n, deps, ToSet(s)) = {}
           S == {k \in 0..n : Len(order[k]) = k \/ None(order[k])}
<1>1. /\ StableOrder(n, deps) = order[n] /\ order[0] = <<>>
      /\ \A k \in 1..n : order[k] = Extended(n, deps, order[k - 1])
      /\ \A k \in 0..n : order[k] \in Sorted(n, deps)
  BY OrdersAreSorted
<1> HIDE DEF order
<1>2. 0 \in S
  BY <1>1
<1>3. ASSUME NEW k \in 1..n, k - 1 \in S PROVE k \in S
  <2>1. order[k - 1] \in Sorted(n, deps) /\ order[k] = Extended(n, deps, order[k - 1])
    BY <1>1
  <2>2. \/ None(order[k - 1]) /\ order[k] = order[k - 1]
        \/ Len(order[k]) = Len(order[k - 1]) + 1
    BY <2>1, ExtendedIsSorted
  <2>3. None(order[k - 1]) => order[k] = order[k - 1]
    BY <2>1 DEF Extended
  <2> HIDE DEF None
  <2> QED BY <1>3, <2>2, <2>3
<1>4. \A k \in 0..n : k \in S
  <2> HIDE DEF S
  <2> QED BY <1>2, <1>3, Induct
<1>5. Len(order[n]) = n \/ None(order[n])
  BY <1>4
<1> QED BY <1>1, <1>5

LEMMA SortedCounts ==
  ASSUME NEW n \in Nat, NEW deps, NEW s \in Sorted(n, deps)
  PROVE  /\ ToSet(s) = {s[j] : j \in 1..Len(s)} /\ ToSet(s) \subseteq 1..n
         /\ Len(s) = n <=> ToSet(s) = 1..n
<1>1. s \in Seq(1..n) /\ Len(s) \in Nat /\ DOMAIN s = 1..Len(s)
  BY DEF Sorted
<1>2. ToSet(s) = {s[j] : j \in 1..Len(s)} /\ ToSet(s) \subseteq 1..n
  BY <1>1 DEF ToSet
<1>3. s \in Surjection(1..Len(s), ToSet(s)) /\ s \in Injection(1..Len(s), ToSet(s))
  <2>1. s \in [1..Len(s) -> ToSet(s)]
    BY <1>1, <1>2
  <2>2. \A i, j \in 1..Len(s) : s[i] = s[j] => i = j
    BY DEF Sorted
  <2> QED BY <1>1, <1>2, <2>1, <2>2 DEF Surjection, Injection, IsInjective
<1>4. IsFiniteSet(1..Len(s)) /\ Cardinality(1..Len(s)) = Len(s)
  <2>1. 1 \in Int /\ Len(s) \in Int
    BY <1>1
  <2>2. /\ IsFiniteSet(1..Len(s))
        /\ Cardinality(1..Len(s)) = IF 1 > Len(s) THEN 0 ELSE Len(s) - 1 + 1
    BY <2>1, FS_Interval
  <2> QED BY <1>1, <2>2
<1>5. Cardinality(ToSet(s)) = Len(s)
  BY <1>3, <1>4, FS_Surjection
<1>6. IsFiniteSet(1..n) /\ Cardinality(1..n) = n
  BY FS_Interval
<1>7. Cardinality(1..n) = Cardinality(ToSet(s)) => 1..n = ToSet(s)
  BY <1>2, <1>6, FS_Subset
<1> QED BY <1>2, <1>5, <1>6, <1>7

\* The stable order is topological, and complete unless there is a cycle.
LEMMA StableOrderIsTopological ==
  ASSUME NEW n \in Nat, NEW deps
  PROVE  OrderIsTopological(n, deps)
<1> DEFINE s == StableOrder(n, deps)
<1>1. s \in Sorted(n, deps) /\ (Len(s) = n \/ AvailableNodes(1..n, deps, ToSet(s)) = {})
  BY StableOrderIsSorted
<1> HIDE DEF s
<1>2. /\ ToSet(s) = {s[j] : j \in 1..Len(s)} /\ ToSet(s) \subseteq 1..n
      /\ Len(s) = n <=> ToSet(s) = 1..n
  BY <1>1, SortedCounts
<1>3. s \in Seq(1..n) /\ Len(s) \in Nat /\ DOMAIN s = 1..Len(s)
  BY <1>1 DEF Sorted
<1>4. \A k \in 1..Len(s) : deps[s[k]] \cap 1..n \subseteq {s[j] : j \in 1..(k - 1)}
  BY <1>1 DEF Sorted
<1>5. ASSUME Len(s) = n PROVE IsAcyclic(n, deps)
  <2> SUFFICES ASSUME NEW S \in (SUBSET (1..n)) \ {{}}
               PROVE  \E i \in S : deps[i] \cap S = {}
    BY DEF IsAcyclic
  <2> DEFINE K == {k \in 1..n : s[k] \in S}
  <2>1. K \subseteq Nat /\ K # {}
    <3>1. PICK i \in S : TRUE
      OBVIOUS
    <3>2. i \in {s[j] : j \in 1..n}
      BY <1>2, <1>5
    <3>3. PICK j \in 1..n : i = s[j]
      BY <3>2
    <3>4. j \in K
      BY <3>1, <3>3
    <3> QED BY <3>4
  <2>2. PICK k \in K : \A j \in K : k <= j
    <3> HIDE DEF K
    <3> QED BY <2>1, NatMinimum
  <2>3. ASSUME NEW d \in deps[s[k]] \cap S PROVE FALSE
    <3>1. d \in {s[j] : j \in 1..(k - 1)}
      BY <1>4, <1>5, <2>2
    <3>2. PICK j \in 1..(k - 1) : d = s[j]
      BY <3>1
    <3>3. j \in K /\ ~(k <= j)
      BY <2>2, <3>2
    <3> QED BY <2>2, <3>3
  <2> QED BY <2>2, <2>3
<1>6. ASSUME IsAcyclic(n, deps), Len(s) # n PROVE FALSE
  <2> DEFINE S == 1..n \ ToSet(s)
  <2>1. S \in (SUBSET (1..n)) \ {{}}
    BY <1>2, <1>6
  <2>2. PICK i \in S : deps[i] \cap S = {}
    BY <1>6, <2>1 DEF IsAcyclic
  <2>3. i \in AvailableNodes(1..n, deps, ToSet(s))
    BY <2>2 DEF AvailableNodes
  <2> QED BY <1>1, <1>6, <2>3
<1> QED BY <1>3, <1>4, <1>5, <1>6 DEF OrderIsTopological, s

\* Where a complete order has a node, as AcceptedPlanIsOrdered looks it up.
Place(order, i) == CHOOSE k \in DOMAIN order : order[k] = i

LEMMA PlacesAreOrdered ==
  ASSUME NEW n \in Nat, NEW deps, HasOrder(n, deps)
  PROVE  LET place(i) == Place(StableOrder(n, deps), i)
         IN /\ \A i \in 1..n : place(i) \in 1..n
            /\ \A i \in 1..n : \A d \in deps[i] \cap 1..n : place(d) < place(i)
<1> DEFINE s == StableOrder(n, deps)
<1>1. s \in Sorted(n, deps) /\ Len(s) = n
  BY StableOrderIsSorted DEF HasOrder
<1> HIDE DEF s
<1>2. ToSet(s) = 1..n /\ ToSet(s) = {s[j] : j \in 1..n} /\ DOMAIN s = 1..n
  <2>1. s \in Seq(1..n)
    BY <1>1 DEF Sorted
  <2> QED BY <1>1, <2>1, SortedCounts
<1>3. \A i \in 1..n : Place(s, i) \in 1..n /\ s[Place(s, i)] = i
  <2> SUFFICES ASSUME NEW i \in 1..n PROVE Place(s, i) \in 1..n /\ s[Place(s, i)] = i
    OBVIOUS
  <2>1. i \in {s[j] : j \in 1..n}
    BY <1>2
  <2>2. \E k \in DOMAIN s : s[k] = i
    BY <1>2, <2>1
  <2>3. Place(s, i) \in DOMAIN s /\ s[Place(s, i)] = i
    BY <2>2, Zenon DEF Place
  <2> QED BY <1>2, <2>3
<1>4. ASSUME NEW i \in 1..n, NEW d \in deps[i] \cap 1..n PROVE Place(s, d) < Place(s, i)
  <2>1. /\ \A k \in 1..n : deps[s[k]] \cap 1..n \subseteq {s[j] : j \in 1..(k - 1)}
        /\ \A j, k \in 1..n : s[j] = s[k] => j = k
    BY <1>1 DEF Sorted
  <2>2. d \in {s[j] : j \in 1..(Place(s, i) - 1)}
    BY <1>3, <2>1
  <2>3. PICK j \in 1..(Place(s, i) - 1) : d = s[j]
    BY <2>2
  <2>4. j \in 1..n /\ Place(s, i) \in 1..n /\ Place(s, d) \in 1..n /\ s[Place(s, d)] = d
    BY <1>3, <2>3
  <2>5. Place(s, d) = j
    BY <2>1, <2>3, <2>4
  <2> QED BY <2>3, <2>4, <2>5
<1> QED BY <1>3, <1>4 DEF s

-----------------------------------------------------------------------------
(* cyclicNodes.                                                            *)

\* What one visit does, when the visits it makes do as the function visit says.
Deeper(v, k, seen) == [id |-> k, path |-> Append(v.path, v.id), seen |-> seen]

Below(n, deps, visit, v) ==
  CHOOSE below : below =
    [k \in 0..n |-> IF k = 0 THEN v.seen
                    ELSE IF k \in deps[v.id]
                    THEN visit[Deeper(v, k, below[k - 1])]
                    ELSE below[k - 1]]

VisitStep(n, deps, visit, v) ==
  IF v.id \in ToSet(v.path)
  THEN [v.seen EXCEPT !.cycles =
          @ \cup {v.path[k] : k \in CycleStart(v.path, v.id)..Len(v.path)}]
  ELSE IF v.id \in v.seen.visited THEN v.seen
  ELSE [Below(n, deps, visit, v)[n] EXCEPT !.visited = @ \cup {v.id}]

VisitOf(n, deps) ==
  CHOOSE visit : visit = [v \in Visits(n) |-> VisitStep(n, deps, visit, v)]

Nothing == [visited |-> {}, cycles |-> {}]

WalkOf(n, deps) ==
  CHOOSE walk : walk =
    [k \in 0..n |-> IF k = 0 THEN Nothing
                    ELSE VisitOf(n, deps)[[id |-> k, path |-> <<>>, seen |-> walk[k - 1]]]]

LEMMA CyclicNodesIs ==
  ASSUME NEW n, NEW deps
  PROVE  CyclicNodes(n, deps) = WalkOf(n, deps)[n].cycles
BY DEF CyclicNodes, WalkOf, VisitOf, VisitStep, Below, Deeper, Nothing

\* A path holds at most all nodes.
LEMMA PathsAreShort ==
  ASSUME NEW n \in Nat, NEW v \in Visits(n)
  PROVE  Cardinality(ToSet(v.path)) \in 0..n /\ IsFiniteSet(ToSet(v.path))
<1>1. v.path \in Seq(1..n)
  BY DEF Visits
<1>2. ToSet(v.path) \subseteq 1..n
  BY <1>1 DEF ToSet
<1>3. IsFiniteSet(1..n) /\ Cardinality(1..n) = n
  BY FS_Interval
<1>4. IsFiniteSet(ToSet(v.path)) /\ Cardinality(ToSet(v.path)) <= n
  BY <1>2, <1>3, FS_Subset
<1> QED BY <1>4, FS_CardinalityType

LEMMA DeeperIsVisit ==
  ASSUME NEW n \in Nat, NEW v \in Visits(n), NEW k \in 1..n, NEW seen \in Seen(n)
  PROVE  Deeper(v, k, seen) \in Visits(n)
<1>1. v.path \in Seq(1..n) /\ v.id \in 1..n
  BY DEF Visits
<1>2. Append(v.path, v.id) \in Seq(1..n)
  BY <1>1
<1> QED BY <1>2 DEF Deeper, Visits

\* A visit goes deeper along a path that holds one node more.
LEMMA DeeperIsLonger ==
  ASSUME NEW n \in Nat, NEW v \in Visits(n), v.id \notin ToSet(v.path),
         NEW k \in 1..n, NEW seen \in Seen(n)
  PROVE  LET d == Deeper(v, k, seen)
         IN /\ d \in Visits(n)
            /\ ToSet(d.path) = ToSet(v.path) \cup {v.id}
            /\ Cardinality(ToSet(v.path)) \in 0..n
            /\ Cardinality(ToSet(d.path)) = Cardinality(ToSet(v.path)) + 1
<1> DEFINE p == v.path
           q == Append(p, v.id)
<1>1. p \in Seq(1..n) /\ v.id \in 1..n
  BY DEF Visits
<1>2. Deeper(v, k, seen) \in Visits(n)
  BY <1>1 DEF Deeper, Visits
<1>3. Deeper(v, k, seen).path = q
  BY DEF Deeper
<1> HIDE DEF p
<1>4. /\ q \in Seq(1..n) /\ Len(q) = Len(p) + 1 /\ Len(p) \in Nat
      /\ DOMAIN p = 1..Len(p) /\ DOMAIN q = 1..(Len(p) + 1)
      /\ q[Len(p) + 1] = v.id /\ \A i \in 1..Len(p) : q[i] = p[i]
  BY <1>1
<1> HIDE DEF q
<1>5. ToSet(p) = {p[i] : i \in 1..Len(p)} /\ ToSet(q) = {q[i] : i \in 1..(Len(p) + 1)}
  BY <1>4 DEF ToSet
<1>6. ToSet(q) = ToSet(p) \cup {v.id}
  <2>1. ASSUME NEW x \in ToSet(q) PROVE x \in ToSet(p) \cup {v.id}
    <3>1. PICK i \in 1..(Len(p) + 1) : x = q[i]
      BY <1>5
    <3>2. i = Len(p) + 1 \/ i \in 1..Len(p)
      BY <1>4
    <3> QED BY <1>4, <1>5, <3>1, <3>2
  <2>2. ASSUME NEW x \in ToSet(p) PROVE x \in ToSet(q)
    <3>1. PICK i \in 1..Len(p) : x = p[i]
      BY <1>5
    <3>2. i \in 1..(Len(p) + 1)
      BY <1>4
    <3> QED BY <1>4, <1>5, <3>1, <3>2
  <2>3. v.id \in ToSet(q)
    BY <1>4, <1>5
  <2> QED BY <2>1, <2>2, <2>3
<1>7. ToSet(p) \subseteq 1..n
  BY <1>1, <1>4, <1>5
<1>8. IsFiniteSet(1..n) /\ Cardinality(1..n) = n
  BY FS_Interval
<1>9. IsFiniteSet(ToSet(p)) /\ Cardinality(ToSet(p)) <= n
  BY <1>7, <1>8, FS_Subset
<1>10. Cardinality(ToSet(p)) \in Nat
  BY <1>9, FS_CardinalityType
<1>11. Cardinality(ToSet(q)) = Cardinality(ToSet(p)) + 1
  <2>1. v.id \notin ToSet(p)
    BY DEF p
  <2> QED BY <1>6, <1>9, <2>1, FS_AddElement
<1> QED BY <1>2, <1>3, <1>6, <1>9, <1>10, <1>11 DEF p

\* The visits that v makes leave what a visit may leave.
Serves(n, visit, v) ==
  \A k \in 1..n, seen \in Seen(n) : visit[Deeper(v, k, seen)] \in Seen(n)

LEMMA BelowIs ==
  ASSUME NEW n \in Nat, NEW deps, NEW visit, NEW v \in Visits(n), Serves(n, visit, v)
  PROVE  LET below == Below(n, deps, visit, v)
         IN /\ below[0] = v.seen
            /\ \A k \in 0..n : below[k] \in Seen(n)
            /\ \A k \in 1..n :
                 below[k] = IF k \in deps[v.id] THEN visit[Deeper(v, k, below[k - 1])]
                            ELSE below[k - 1]
<1> DEFINE X == Seen(n)
           One(k, s) == IF k \in deps[v.id] THEN visit[Deeper(v, k, s)] ELSE s
           F == [k \in 1..n |-> [s \in X |-> One(k, s)]]
           Is(g) == g = [k \in 0..n |-> IF k = 0 THEN v.seen ELSE One(k, g[k - 1])]
           below == Below(n, deps, visit, v)
<1>1. v.seen \in X
  BY DEF Visits
<1>2. ASSUME NEW k \in 1..n, NEW s \in X PROVE One(k, s) \in X
  BY <1>2 DEF Serves
<1>3. F \in [1..n -> [X -> X]]
  <2> HIDE DEF X, One
  <2> QED BY <1>2
<1>4. \E f : Is(f)
  <2> HIDE DEF X, One
  <2>1. PICK f \in [0..n -> X] : Chained(f, n, v.seen, F)
    <3> HIDE DEF F
    <3> QED BY <1>1, <1>3, Chains
  <2>2. ASSUME NEW k \in 1..n PROVE f[k] = One(k, f[k - 1])
    <3>1. k - 1 \in 0..n /\ f[k] = F[k][f[k - 1]]
      BY <2>1 DEF Chained
    <3> QED BY <3>1
  <2>3. Is(f)
    BY <2>1, <2>2 DEF Chained
  <2> QED BY <2>3
<1>5. Is(below)
  BY <1>4, Zenon DEF Below
<1>6. below[0] = v.seen /\ \A k \in 1..n : below[k] = One(k, below[k - 1])
  <2> HIDE DEF below, One
  <2> QED BY <1>5
<1>7. \A k \in 0..n : below[k] \in X
  <2> DEFINE S == {k \in 0..n : below[k] \in X}
  <2> HIDE DEF below, One, X
  <2>1. 0 \in S
    BY <1>1, <1>6
  <2>2. \A k \in 1..n : k - 1 \in S => k \in S
    BY <1>2, <1>6
  <2>3. \A k \in 0..n : k \in S
    <3> HIDE DEF S
    <3> QED BY <2>1, <2>2, Induct
  <2> QED BY <2>3
<1> QED BY <1>6, <1>7

LEMMA VisitStepIsSeen ==
  ASSUME NEW n \in Nat, NEW deps, NEW visit, NEW v \in Visits(n),
         v.id \notin ToSet(v.path) => Serves(n, visit, v)
  PROVE  VisitStep(n, deps, visit, v) \in Seen(n)
<1>1. v.path \in Seq(1..n) /\ v.id \in 1..n /\ v.seen \in Seen(n)
  BY DEF Visits
<1>2. CASE v.id \in ToSet(v.path)
  <2> DEFINE i == CycleStart(v.path, v.id)
             C == {v.path[k] : k \in i..Len(v.path)}
  <2>1. i \in DOMAIN v.path
    <3>1. \E k \in DOMAIN v.path : v.path[k] = v.id
      BY <1>2 DEF ToSet
    <3> QED BY <3>1, Zenon DEF CycleStart
  <2>2. C \subseteq 1..n
    <3> HIDE DEF i
    <3>1. i \in 1..Len(v.path) /\ Len(v.path) \in Nat
      BY <1>1, <2>1
    <3>2. ASSUME NEW k \in i..Len(v.path) PROVE v.path[k] \in 1..n
      <4>1. k \in 1..Len(v.path)
        BY <3>1
      <4> QED BY <1>1, <4>1
    <3> QED BY <3>2
  <2>3. VisitStep(n, deps, visit, v) = [v.seen EXCEPT !.cycles = @ \cup C]
    BY <1>2 DEF VisitStep
  <2> HIDE DEF C
  <2> QED BY <1>1, <2>2, <2>3 DEF Seen
<1>3. CASE v.id \notin ToSet(v.path) /\ v.id \notin v.seen.visited
  <2>1. Below(n, deps, visit, v)[n] \in Seen(n)
    BY <1>3, BelowIs
  <2>2. VisitStep(n, deps, visit, v) = [Below(n, deps, visit, v)[n] EXCEPT !.visited = @ \cup {v.id}]
    BY <1>3 DEF VisitStep
  <2> QED BY <1>1, <2>1, <2>2 DEF Seen
<1>4. CASE v.id \notin ToSet(v.path) /\ v.id \in v.seen.visited
  BY <1>1, <1>4 DEF VisitStep
<1> QED BY <1>2, <1>3, <1>4

\* A visit depends on no more than the deeper ones.
LEMMA VisitStepIsLocal ==
  ASSUME NEW n \in Nat, NEW deps, NEW v \in Visits(n),
         NEW visit, NEW other,
         v.id \notin ToSet(v.path) =>
           /\ Serves(n, visit, v)
           /\ \A k \in 1..n, seen \in Seen(n) :
                visit[Deeper(v, k, seen)] = other[Deeper(v, k, seen)]
  PROVE  VisitStep(n, deps, visit, v) = VisitStep(n, deps, other, v)
<1>1. CASE v.id \in ToSet(v.path) \/ v.id \in v.seen.visited
  BY <1>1 DEF VisitStep
<1>2. CASE v.id \notin ToSet(v.path) /\ v.id \notin v.seen.visited
  <2>0. Serves(n, visit, v) /\ Serves(n, other, v)
    BY <1>2 DEF Serves
  <2> DEFINE f == Below(n, deps, visit, v)
             g == Below(n, deps, other, v)
             S == {k \in 0..n : f[k] = g[k]}
  <2>1. /\ f[0] = v.seen /\ \A k \in 0..n : f[k] \in Seen(n)
        /\ \A k \in 1..n :
             f[k] = IF k \in deps[v.id] THEN visit[Deeper(v, k, f[k - 1])] ELSE f[k - 1]
    BY <2>0, BelowIs
  <2>2. /\ g[0] = v.seen
        /\ \A k \in 1..n :
             g[k] = IF k \in deps[v.id] THEN other[Deeper(v, k, g[k - 1])] ELSE g[k - 1]
    BY <2>0, BelowIs
  <2> HIDE DEF f, g
  <2>3. 0 \in S
    BY <2>1, <2>2
  <2>4. ASSUME NEW k \in 1..n, k - 1 \in S PROVE k \in S
    <3>1. f[k - 1] = g[k - 1] /\ f[k - 1] \in Seen(n)
      BY <2>1, <2>4
    <3>2. visit[Deeper(v, k, f[k - 1])] = other[Deeper(v, k, f[k - 1])]
      BY <1>2, <3>1
    <3>3. f[k] = g[k]
      BY <2>1, <2>2, <3>1, <3>2
    <3> QED BY <3>3
  <2>5. \A k \in 0..n : k \in S
    <3> HIDE DEF S
    <3> QED BY <2>3, <2>4, Induct
  <2>6. f[n] = g[n]
    BY <2>5
  <2> QED BY <1>2, <2>6 DEF VisitStep, f, g
<1> QED BY <1>1, <1>2

\* What holds of a visit when it holds of those it makes holds of all.
LEMMA DeepestFirst ==
  ASSUME NEW n \in Nat, NEW P,
         \A v \in Visits(n) :
           (v.id \notin ToSet(v.path) =>
              \A k \in 1..n, seen \in Seen(n) : Deeper(v, k, seen) \in P)
           => v \in P
  PROVE  Visits(n) \subseteq P
<1> DEFINE Size(v) == Cardinality(ToSet(v.path))
           S == {k \in 0..(n + 1) : \A v \in Visits(n) : Size(v) > n - k => v \in P}
<1>1. \A v \in Visits(n) : Size(v) \in 0..n
  BY PathsAreShort
<1>2. 0 \in S
  <2> HIDE DEF Size
  <2> QED BY <1>1
<1>3. ASSUME NEW k \in 1..(n + 1), k - 1 \in S PROVE k \in S
  <2>1. ASSUME NEW v \in Visits(n), Size(v) > n - k PROVE v \in P
    <3>1. ASSUME v.id \notin ToSet(v.path), NEW i \in 1..n, NEW seen \in Seen(n)
          PROVE  Deeper(v, i, seen) \in P
      <4>1. Deeper(v, i, seen) \in Visits(n) /\ Size(Deeper(v, i, seen)) = Size(v) + 1
        BY <3>1, DeeperIsLonger
      <4>2. Size(v) \in 0..n
        BY <1>1
      <4> HIDE DEF Size
      <4>3. Size(Deeper(v, i, seen)) > n - (k - 1)
        BY <2>1, <4>1, <4>2
      <4> QED BY <1>3, <4>1, <4>3
    <3> HIDE DEF Size
    <3> QED BY <3>1
  <2> HIDE DEF Size
  <2> QED BY <2>1
<1>4. n + 1 \in Nat /\ n + 1 \in 0..(n + 1)
  OBVIOUS
<1>5. n + 1 \in S
  <2> HIDE DEF S
  <2> QED BY <1>2, <1>3, <1>4, Induct
<1>6. ASSUME NEW v \in Visits(n) PROVE v \in P
  <2>1. Size(v) \in 0..n
    BY <1>1
  <2> HIDE DEF Size
  <2>2. Size(v) > n - (n + 1)
    BY <2>1
  <2> QED BY <1>5, <2>2
<1> QED BY <1>6

\* The walk is well defined: with each round, the visits along paths one node
\* shorter are settled.
LEMMA VisitsAre ==
  ASSUME NEW n \in Nat, NEW deps
  PROVE  LET visit == VisitOf(n, deps)
         IN /\ visit \in [Visits(n) -> Seen(n)]
            /\ \A v \in Visits(n) : visit[v] = VisitStep(n, deps, visit, v)
<1> DEFINE X == [Visits(n) -> Seen(n)]
           Round(f) == [v \in Visits(n) |-> VisitStep(n, deps, f, v)]
           F == [f \in X |-> Round(f)]
           Is(f) == f = [v \in Visits(n) |-> VisitStep(n, deps, f, v)]
           idle == [v \in Visits(n) |-> v.seen]
           Size(v) == Cardinality(ToSet(v.path))
<1>1. idle \in X
  BY DEF Visits
<1>0. ASSUME NEW f \in X, NEW v \in Visits(n) PROVE Serves(n, f, v)
  BY DeeperIsVisit DEF Serves
<1>2. ASSUME NEW f \in X PROVE Round(f) \in X
  BY <1>0, VisitStepIsSeen
<1>3. F \in [X -> X]
  <2> HIDE DEF X, Round
  <2> QED BY <1>2
<1>4. PICK r \in [0..(n + 2) -> X] : Passes(r, n + 2, idle, F)
  <2> HIDE DEF X, F, idle
  <2> QED BY <1>1, <1>3, Iterates
<1>5. \A k \in 0..(n + 1) : r[k] \in X /\ r[k + 1] = Round(r[k])
  <2> SUFFICES ASSUME NEW k \in 0..(n + 1) PROVE r[k] \in X /\ r[k + 1] = Round(r[k])
    OBVIOUS
  <2> HIDE DEF X, Round
  <2>1. k \in 0..(n + 2) /\ k + 1 \in 1..(n + 2) /\ (k + 1) - 1 = k
    OBVIOUS
  <2>2. r[k + 1] = F[r[k]]
    BY <1>4, <2>1 DEF Passes
  <2> QED BY <2>1, <2>2
<1> DEFINE Settled(k) == \A v \in Visits(n) : Size(v) > n - k => r[k][v] = r[k + 1][v]
           S == {k \in 0..(n + 1) : Settled(k)}
<1>6. \A v \in Visits(n) : Size(v) \in 0..n
  BY PathsAreShort
<1>7. 0 \in S
  <2> HIDE DEF Size
  <2> QED BY <1>6
<1>8. ASSUME NEW k \in 1..(n + 1), k - 1 \in S PROVE k \in S
  <2> DEFINE f == r[k - 1]
             g == r[k]
  <2>1. /\ k - 1 \in 0..(n + 1) /\ k \in 0..(n + 1) /\ (k - 1) + 1 = k
    OBVIOUS
  <2>2. /\ f \in X /\ g \in X /\ g = Round(f) /\ r[k + 1] = Round(g)
    <3> HIDE DEF X, Round
    <3> QED BY <1>5, <2>1
  <2>3. \A v \in Visits(n) : Size(v) > n - (k - 1) => f[v] = g[v]
    BY <1>8, <2>1
  <2> HIDE DEF f, g
  <2>4. ASSUME NEW v \in Visits(n), Size(v) > n - k PROVE g[v] = r[k + 1][v]
    <3>1. ASSUME v.id \notin ToSet(v.path), NEW i \in 1..n, NEW seen \in Seen(n)
          PROVE  f[Deeper(v, i, seen)] = g[Deeper(v, i, seen)]
      <4>1. Deeper(v, i, seen) \in Visits(n) /\ Size(Deeper(v, i, seen)) = Size(v) + 1
        BY <3>1, DeeperIsLonger
      <4>2. Size(v) \in 0..n
        BY <1>6
      <4> HIDE DEF Size
      <4>3. Size(Deeper(v, i, seen)) > n - (k - 1)
        BY <2>4, <4>1, <4>2
      <4> QED BY <2>3, <4>1, <4>3
    <3>2. Serves(n, f, v) /\ Serves(n, g, v)
      <4> HIDE DEF X
      <4> QED BY <1>0, <2>2
    <3>3. VisitStep(n, deps, f, v) = VisitStep(n, deps, g, v)
      BY <3>1, <3>2, VisitStepIsLocal
    <3> QED BY <2>2, <3>3
  <2>5. Settled(k)
    BY <2>4 DEF g
  <2> HIDE DEF Settled
  <2> QED BY <2>1, <2>5
<1>9. \A k \in 0..(n + 1) : k \in S
  <2> HIDE DEF S
  <2>1. n + 1 \in Nat
    OBVIOUS
  <2> QED BY <1>7, <1>8, <2>1, Induct
<1>10. r[n + 1] \in X /\ r[n + 2] = Round(r[n + 1]) /\ r[n + 2] \in X
  <2> HIDE DEF X, Round
  <2> QED BY <1>5
<1>11. r[n + 1] = r[n + 2]
  <2>1. Settled(n + 1)
    BY <1>9
  <2>2. ASSUME NEW v \in Visits(n) PROVE r[n + 1][v] = r[n + 2][v]
    <3>1. Size(v) \in 0..n
      BY <1>6
    <3> HIDE DEF Size
    <3>2. Size(v) > n - (n + 1) /\ (n + 1) + 1 = n + 2
      BY <3>1
    <3> QED BY <2>1, <3>2
  <2> QED BY <1>10, <2>2
<1>12. Is(r[n + 1])
  BY <1>10, <1>11
<1> DEFINE visit == VisitOf(n, deps)
<1>13. Is(visit)
  <2>1. \E f : Is(f)
    BY <1>12
  <2> QED BY <2>1, Zenon DEF VisitOf
<1>14. \A v \in Visits(n) : visit[v] = VisitStep(n, deps, visit, v)
  <2> HIDE DEF visit
  <2> QED BY <1>13
<1>15. visit \in X
  <2> DEFINE P == {v \in Visits(n) : visit[v] \in Seen(n)}
  <2> HIDE DEF visit
  <2>1. ASSUME NEW v \in Visits(n),
               v.id \notin ToSet(v.path) =>
                 \A k \in 1..n, seen \in Seen(n) : Deeper(v, k, seen) \in P
        PROVE  v \in P
    <3>1. v.id \notin ToSet(v.path) => Serves(n, visit, v)
      BY <2>1 DEF Serves
    <3>2. VisitStep(n, deps, visit, v) \in Seen(n)
      BY <3>1, VisitStepIsSeen
    <3> QED BY <1>14, <3>2
  <2>2. Visits(n) \subseteq P
    <3> HIDE DEF P
    <3> QED BY <2>1, DeepestFirst
  <2> QED BY <1>13, <2>2
<1> QED BY <1>14, <1>15

\* The path leads to the node visited, one dependency after the other.
Leads(deps, v) ==
  /\ \A k \in 1..(Len(v.path) - 1) : v.path[k + 1] \in deps[v.path[k]]
  /\ Len(v.path) > 0 => v.id \in deps[v.path[Len(v.path)]]

LEMMA DeeperLeads ==
  ASSUME NEW n \in Nat, NEW deps, NEW v \in Visits(n), Leads(deps, v),
         NEW k \in 1..n, k \in deps[v.id], NEW seen
  PROVE  Leads(deps, Deeper(v, k, seen))
<1> DEFINE p == v.path
           q == Append(p, v.id)
           d == Deeper(v, k, seen)
<1>1. p \in Seq(1..n) /\ v.id \in 1..n
  BY DEF Visits
<1>2. d.path = q /\ d.id = k
  BY DEF Deeper
<1> HIDE DEF d
<1>3. /\ \A i \in 1..(Len(p) - 1) : p[i + 1] \in deps[p[i]]
      /\ Len(p) > 0 => v.id \in deps[p[Len(p)]]
  BY DEF Leads
<1> HIDE DEF p
<1>4. /\ Len(q) = Len(p) + 1 /\ Len(p) \in Nat
      /\ q[Len(p) + 1] = v.id /\ \A i \in 1..Len(p) : q[i] = p[i]
  BY <1>1
<1> HIDE DEF q
<1>5. ASSUME NEW i \in 1..(Len(q) - 1) PROVE q[i + 1] \in deps[q[i]]
  <2>1. CASE i = Len(p)
    BY <1>3, <1>4, <2>1
  <2>2. CASE i # Len(p)
    <3>1. i \in 1..(Len(p) - 1) /\ i \in 1..Len(p) /\ i + 1 \in 1..Len(p)
      BY <1>4, <2>2
    <3> QED BY <1>3, <1>4, <3>1
  <2> QED BY <2>1, <2>2
<1>6. k \in deps[q[Len(q)]]
  BY <1>4
<1> QED BY <1>2, <1>5, <1>6 DEF Leads, d

\* From where a path meets its end again, it goes round a cycle.
LEMMA MetAgainIsOnCycle ==
  ASSUME NEW n \in Nat, NEW deps, NEW v \in Visits(n), Leads(deps, v),
         NEW i \in 1..Len(v.path), v.path[i] = v.id, NEW m \in i..Len(v.path)
  PROVE  v.path[m] \in OnCycle(n, deps)
<1> DEFINE p == v.path
           L == Len(v.path)
<1>1. p \in Seq(1..n) /\ v.id \in 1..n
  BY DEF Visits
<1>2. /\ \A k \in 1..(L - 1) : p[k + 1] \in deps[p[k]]
      /\ L > 0 => v.id \in deps[p[L]]
  BY DEF Leads
<1>3. p[i] = v.id /\ i \in 1..L /\ m \in i..L
  OBVIOUS
<1>4. L \in Nat /\ \A k \in 1..L : p[k] \in 1..n
  BY <1>1
<1> HIDE DEF p, L
<1>5. ASSUME NEW S \in SUBSET (1..n), deps[p[m]] \cap 1..n \subseteq S,
             \A j \in S : deps[j] \cap 1..n \subseteq S
      PROVE  p[m] \in S
  <2> DEFINE T == {j \in 0..(L - m) : deps[p[m + j]] \cap 1..n \subseteq S}
             U == {j \in 0..(m - i) : p[i + j] \in S}
  <2>1. L - m \in Nat /\ m - i \in Nat
    BY <1>3, <1>4
  <2>2. 0 \in T
    BY <1>3, <1>5, <2>1
  <2>3. ASSUME NEW j \in 1..(L - m), j - 1 \in T PROVE j \in T
    <3>1. /\ m + (j - 1) \in 1..(L - 1) /\ m + j \in 1..L /\ m + (j - 1) + 1 = m + j
          /\ j \in 0..(L - m)
      BY <1>3, <1>4
    <3>2. p[m + j] \in deps[p[m + (j - 1)]] \cap 1..n
      BY <1>2, <1>4, <3>1
    <3>3. p[m + j] \in S
      BY <2>3, <3>2
    <3> QED BY <1>5, <3>1, <3>3
  <2>4. deps[p[L]] \cap 1..n \subseteq S
    <3>1. L - m \in 0..(L - m) /\ m + (L - m) = L
      BY <1>3, <1>4
    <3>2. L - m \in T
      <4> HIDE DEF T
      <4> QED BY <2>1, <2>2, <2>3, <3>1, Induct
    <3> QED BY <3>1, <3>2
  <2>5. 0 \in U
    <3>1. v.id \in S
      BY <1>1, <1>2, <1>3, <1>4, <2>4
    <3> QED BY <1>3, <1>4, <2>1, <3>1
  <2>6. ASSUME NEW j \in 1..(m - i), j - 1 \in U PROVE j \in U
    <3>1. /\ i + (j - 1) \in 1..(L - 1) /\ i + j \in 1..L /\ i + (j - 1) + 1 = i + j
          /\ j \in 0..(m - i)
      BY <1>3, <1>4
    <3>2. p[i + j] \in deps[p[i + (j - 1)]] \cap 1..n
      BY <1>2, <1>4, <3>1
    <3>3. p[i + j] \in S
      BY <1>5, <2>6, <3>2
    <3> QED BY <3>1, <3>3
  <2>7. m - i \in 0..(m - i) /\ i + (m - i) = m
    BY <1>3, <1>4
  <2>8. m - i \in U
    <3> HIDE DEF U
    <3> QED BY <2>1, <2>5, <2>6, <2>7, Induct
  <2> QED BY <2>7, <2>8
<1>6. p[m] \in 1..n
  BY <1>3, <1>4
<1> QED BY <1>5, <1>6 DEF OnCycle, p

\* Nothing is left to find from the nodes in V.
Clean(n, deps, V) ==
  /\ V \subseteq 1..n
  /\ \A i \in V : deps[i] \cap 1..n \subseteq V
  /\ \A S \in (SUBSET V) \ {{}} : \E i \in S : deps[i] \cap S = {}

\* A node whose dependencies are all clean can be visited.
LEMMA CleanGrows ==
  ASSUME NEW n \in Nat, NEW deps, NEW V, Clean(n, deps, V),
         NEW i \in 1..n, deps[i] \cap 1..n \subseteq V
  PROVE  Clean(n, deps, V \cup {i})
<1>1. V \subseteq 1..n /\ \A j \in V : deps[j] \cap 1..n \subseteq V
  BY DEF Clean
<1>2. ASSUME NEW S \in (SUBSET (V \cup {i})) \ {{}}
      PROVE  \E j \in S : deps[j] \cap S = {}
  <2>1. CASE S \cap V # {}
    <3>1. S \cap V \in (SUBSET V) \ {{}}
      BY <2>1
    <3>2. PICK j \in S \cap V : deps[j] \cap (S \cap V) = {}
      BY <3>1 DEF Clean
    <3>3. deps[j] \cap S \subseteq V
      BY <1>1, <3>2
    <3> QED BY <3>2, <3>3
  <2>2. CASE S \cap V = {}
    <3>1. i \in S /\ S \subseteq {i} /\ i \notin V
      BY <2>2
    <3>2. deps[i] \cap S = {}
      BY <3>1
    <3> QED BY <3>1, <3>2
  <2> QED BY <2>1, <2>2
<1> QED BY <1>1, <1>2 DEF Clean

\* What a visit owes its caller: it forgets nothing; it reports only nodes of
\* cycles; and if nothing has been reported, nothing is left to find from the
\* nodes visited, the one asked for among them.
Delivers(n, deps, v, r) ==
  /\ v.seen.cycles \subseteq r.cycles /\ v.seen.visited \subseteq r.visited
  /\ Leads(deps, v) /\ v.seen.cycles \subseteq OnCycle(n, deps)
       => r.cycles \subseteq OnCycle(n, deps)
  /\ r.cycles = {} /\ Clean(n, deps, v.seen.visited)
       => Clean(n, deps, r.visited) /\ v.id \in r.visited

\* A node met again closes a cycle.
LEMMA ClosingDelivers ==
  ASSUME NEW n \in Nat, NEW deps, NEW visit, NEW v \in Visits(n), v.id \in ToSet(v.path)
  PROVE  Delivers(n, deps, v, VisitStep(n, deps, visit, v))
<1> DEFINE i == CycleStart(v.path, v.id)
           C == {v.path[k] : k \in i..Len(v.path)}
           r == VisitStep(n, deps, visit, v)
<1>1. v.path \in Seq(1..n) /\ v.seen \in Seen(n)
  BY DEF Visits
<1>2. i \in DOMAIN v.path /\ v.path[i] = v.id
  <2>1. \E k \in DOMAIN v.path : v.path[k] = v.id
    BY DEF ToSet
  <2> QED BY <2>1, Zenon DEF CycleStart
<1>3. r = [v.seen EXCEPT !.cycles = @ \cup C]
  BY DEF VisitStep
<1> HIDE DEF i, r
<1>4. i \in 1..Len(v.path) /\ Len(v.path) \in Nat /\ i \in i..Len(v.path)
  BY <1>1, <1>2
<1>5. C # {}
  BY <1>4
<1>6. Leads(deps, v) => C \subseteq OnCycle(n, deps)
  BY <1>2, <1>4, MetAgainIsOnCycle
<1> HIDE DEF C
<1>7. r.cycles = v.seen.cycles \cup C /\ r.visited = v.seen.visited
  BY <1>1, <1>3 DEF Seen
<1>8. Delivers(n, deps, v, r)
  BY <1>5, <1>6, <1>7 DEF Delivers
<1> QED BY <1>8 DEF r

\* A node not met before delivers when the visits to its dependencies do.
LEMMA DeeperDelivers ==
  ASSUME NEW n \in Nat, NEW deps, NEW visit, NEW v \in Visits(n), v.id \notin ToSet(v.path),
         v.id \notin v.seen.visited, Serves(n, visit, v),
         \A k \in 1..n, seen \in Seen(n) :
           Delivers(n, deps, Deeper(v, k, seen), visit[Deeper(v, k, seen)])
  PROVE  Delivers(n, deps, v, VisitStep(n, deps, visit, v))
<1> DEFINE b == Below(n, deps, visit, v)
           r == VisitStep(n, deps, visit, v)
           Soundly(k) == Leads(deps, v) /\ v.seen.cycles \subseteq OnCycle(n, deps)
                           => b[k].cycles \subseteq OnCycle(n, deps)
           Fully(k) == b[k].cycles = {} /\ Clean(n, deps, v.seen.visited)
                         => Clean(n, deps, b[k].visited) /\ deps[v.id] \cap 1..k \subseteq b[k].visited
           S == {k \in 0..n : /\ v.seen.cycles \subseteq b[k].cycles
                              /\ v.seen.visited \subseteq b[k].visited
                              /\ Soundly(k) /\ Fully(k)}
<1>1. /\ b[0] = v.seen /\ \A k \in 0..n : b[k] \in Seen(n)
      /\ \A k \in 1..n :
           b[k] = IF k \in deps[v.id] THEN visit[Deeper(v, k, b[k - 1])] ELSE b[k - 1]
  BY BelowIs
<1>2. r = [b[n] EXCEPT !.visited = @ \cup {v.id}]
  BY DEF VisitStep
<1> HIDE DEF b, r
<1>3. 0 \in S
  BY <1>1
<1>4. ASSUME NEW k \in 1..n, k - 1 \in S PROVE k \in S
  <2> DEFINE d == Deeper(v, k, b[k - 1])
  <2>1. /\ v.seen.cycles \subseteq b[k - 1].cycles /\ v.seen.visited \subseteq b[k - 1].visited
        /\ Soundly(k - 1) /\ Fully(k - 1) /\ b[k - 1] \in Seen(n) /\ k \in 0..n
    BY <1>1, <1>4
  <2>2. deps[v.id] \cap 1..k \subseteq (deps[v.id] \cap 1..(k - 1)) \cup {k}
    OBVIOUS
  <2>3. CASE k \notin deps[v.id]
    <3>1. b[k] = b[k - 1] /\ deps[v.id] \cap 1..k \subseteq deps[v.id] \cap 1..(k - 1)
      BY <1>1, <2>2, <2>3
    <3> QED BY <2>1, <3>1
  <2>4. CASE k \in deps[v.id]
    <3>1. b[k] = visit[d]
      BY <1>1, <2>4
    <3>2. d.seen = b[k - 1] /\ d.id = k
      BY DEF Deeper
    <3>3. Delivers(n, deps, d, visit[d])
      BY <2>1
    <3>4. Leads(deps, v) => Leads(deps, d)
      BY <2>4, DeeperLeads
    <3> HIDE DEF d
    <3>5. /\ b[k - 1].cycles \subseteq b[k].cycles /\ b[k - 1].visited \subseteq b[k].visited
          /\ Leads(deps, d) /\ b[k - 1].cycles \subseteq OnCycle(n, deps)
               => b[k].cycles \subseteq OnCycle(n, deps)
          /\ b[k].cycles = {} /\ Clean(n, deps, b[k - 1].visited)
               => Clean(n, deps, b[k].visited) /\ k \in b[k].visited
      BY <3>1, <3>2, <3>3 DEF Delivers
    <3>6. Soundly(k)
      BY <2>1, <3>4, <3>5
    <3>7. Fully(k)
      <4> SUFFICES ASSUME b[k].cycles = {}, Clean(n, deps, v.seen.visited)
                   PROVE  /\ Clean(n, deps, b[k].visited)
                          /\ deps[v.id] \cap 1..k \subseteq b[k].visited
        OBVIOUS
      <4>1. Clean(n, deps, b[k - 1].visited) /\ deps[v.id] \cap 1..(k - 1) \subseteq b[k - 1].visited
        BY <2>1, <3>5
      <4> QED BY <2>2, <3>5, <4>1
    <3> HIDE DEF Soundly, Fully
    <3> QED BY <2>1, <3>5, <3>6, <3>7
  <2> QED BY <2>3, <2>4
<1>5. n \in S
  <2> HIDE DEF S
  <2>1. n \in 0..n
    OBVIOUS
  <2> QED BY <1>3, <1>4, <2>1, Induct
<1>6. r.cycles = b[n].cycles /\ r.visited = b[n].visited \cup {v.id}
  <2>1. b[n] \in Seen(n)
    BY <1>1
  <2> QED BY <1>2, <2>1 DEF Seen
<1>7. /\ v.seen.cycles \subseteq b[n].cycles /\ v.seen.visited \subseteq b[n].visited
      /\ Soundly(n) /\ Fully(n)
  BY <1>5
<1>8. v.id \in 1..n
  BY DEF Visits
<1>9. ASSUME r.cycles = {}, Clean(n, deps, v.seen.visited) PROVE Clean(n, deps, r.visited)
  <2>1. Clean(n, deps, b[n].visited) /\ deps[v.id] \cap 1..n \subseteq b[n].visited
    BY <1>6, <1>7, <1>9
  <2> QED BY <1>6, <1>8, <2>1, CleanGrows
<1>10. Delivers(n, deps, v, r)
  BY <1>6, <1>7, <1>9 DEF Delivers
<1> QED BY <1>10 DEF r

LEMMA VisitsDeliver ==
  ASSUME NEW n \in Nat, NEW deps
  PROVE  \A v \in Visits(n) : Delivers(n, deps, v, VisitOf(n, deps)[v])
<1> DEFINE visit == VisitOf(n, deps)
           P == {v \in Visits(n) : Delivers(n, deps, v, visit[v])}
<1>1. /\ visit \in [Visits(n) -> Seen(n)]
      /\ \A v \in Visits(n) : visit[v] = VisitStep(n, deps, visit, v)
  BY VisitsAre
<1> HIDE DEF visit
<1>2. ASSUME NEW v \in Visits(n),
             v.id \notin ToSet(v.path) =>
               \A k \in 1..n, seen \in Seen(n) : Deeper(v, k, seen) \in P
      PROVE  v \in P
  <2>1. CASE v.id \in ToSet(v.path)
    BY <1>1, <2>1, ClosingDelivers
  <2>2. CASE v.id \notin ToSet(v.path) /\ v.id \in v.seen.visited
    <3>1. visit[v] = v.seen
      BY <1>1, <2>2 DEF VisitStep
    <3> QED BY <2>2, <3>1 DEF Delivers
  <2>3. CASE v.id \notin ToSet(v.path) /\ v.id \notin v.seen.visited
    <3>1. Serves(n, visit, v)
      BY <1>1, DeeperIsVisit DEF Serves
    <3>2. \A k \in 1..n, seen \in Seen(n) :
            Delivers(n, deps, Deeper(v, k, seen), visit[Deeper(v, k, seen)])
      BY <1>2, <2>3
    <3>3. Delivers(n, deps, v, VisitStep(n, deps, visit, v))
      BY <2>3, <3>1, <3>2, DeeperDelivers
    <3> QED BY <1>1, <3>3
  <2> QED BY <2>1, <2>2, <2>3
<1>3. Visits(n) \subseteq P
  <2> HIDE DEF P
  <2> QED BY <1>2, DeepestFirst
<1> QED BY <1>3 DEF visit

\* The walk reports only nodes of cycles, and some if there is a cycle.
LEMMA WalkFinds ==
  ASSUME NEW n \in Nat, NEW deps
  PROVE  /\ CyclicNodes(n, deps) \subseteq OnCycle(n, deps)
         /\ CyclicNodes(n, deps) = {} => IsAcyclic(n, deps)
<1> DEFINE visit == VisitOf(n, deps)
           X == Seen(n)
           From(k, s) == [id |-> k, path |-> <<>>, seen |-> s]
           F == [k \in 1..n |-> [s \in X |-> visit[From(k, s)]]]
           Is(g) == g = [k \in 0..n |-> IF k = 0 THEN Nothing ELSE visit[From(k, g[k - 1])]]
           w == WalkOf(n, deps)
<1>1. visit \in [Visits(n) -> X]
  BY VisitsAre
<1>2. Nothing \in X
  BY DEF Nothing, Seen
<1>3. ASSUME NEW k \in 1..n, NEW s \in X
      PROVE  From(k, s) \in Visits(n) /\ Leads(deps, From(k, s)) /\ visit[From(k, s)] \in X
  <2>1. From(k, s) \in Visits(n)
    BY DEF Visits
  <2>2. Leads(deps, From(k, s))
    BY DEF Leads
  <2> HIDE DEF visit, X, From
  <2> QED BY <1>1, <2>1, <2>2
<1> HIDE DEF visit, From
<1>4. F \in [1..n -> [X -> X]]
  <2> HIDE DEF X
  <2> QED BY <1>3
<1>5. \E f : Is(f)
  <2> HIDE DEF X
  <2>1. PICK f \in [0..n -> X] : Chained(f, n, Nothing, F)
    <3> HIDE DEF F
    <3> QED BY <1>2, <1>4, Chains
  <2>2. ASSUME NEW k \in 1..n PROVE f[k] = visit[From(k, f[k - 1])]
    <3>1. k - 1 \in 0..n /\ f[k] = F[k][f[k - 1]]
      BY <2>1 DEF Chained
    <3> QED BY <3>1
  <2>3. Is(f)
    BY <2>1, <2>2 DEF Chained
  <2> QED BY <2>3
<1>6. Is(w)
  <2>1. w = CHOOSE f : Is(f)
    BY DEF WalkOf, visit, From
  <2> HIDE DEF w, Is
  <2> QED BY <1>5, <2>1, Zenon
<1>7. w[0] = Nothing /\ \A k \in 1..n : w[k] = visit[From(k, w[k - 1])]
  <2> HIDE DEF w
  <2> QED BY <1>6
<1> DEFINE T == {k \in 0..n : /\ w[k] \in X /\ w[k].cycles \subseteq OnCycle(n, deps)
                              /\ w[k].cycles = {} => Clean(n, deps, w[k].visited)
                                                     /\ 1..k \subseteq w[k].visited}
<1> HIDE DEF w, X
<1>8. 0 \in T
  <2>1. Clean(n, deps, {})
    BY DEF Clean
  <2> QED BY <1>2, <1>7, <2>1 DEF Nothing
<1>9. ASSUME NEW k \in 1..n, k - 1 \in T PROVE k \in T
  <2> DEFINE v == From(k, w[k - 1])
  <2>1. /\ w[k - 1] \in X /\ w[k - 1].cycles \subseteq OnCycle(n, deps)
        /\ w[k - 1].cycles = {} => Clean(n, deps, w[k - 1].visited)
                                   /\ 1..(k - 1) \subseteq w[k - 1].visited
    BY <1>9
  <2>2. v \in Visits(n) /\ Leads(deps, v) /\ visit[v] \in X
    BY <1>3, <2>1
  <2>3. v.seen = w[k - 1] /\ v.id = k
    BY DEF From
  <2>4. Delivers(n, deps, v, visit[v])
    BY <2>2, VisitsDeliver DEF visit
  <2>5. w[k] = visit[v]
    BY <1>7
  <2> HIDE DEF v
  <2>6. /\ w[k - 1].cycles \subseteq w[k].cycles /\ w[k - 1].visited \subseteq w[k].visited
        /\ w[k].cycles \subseteq OnCycle(n, deps)
        /\ w[k].cycles = {} /\ Clean(n, deps, w[k - 1].visited)
             => Clean(n, deps, w[k].visited) /\ k \in w[k].visited
    BY <2>1, <2>2, <2>3, <2>4, <2>5 DEF Delivers
  <2>7. 1..k = 1..(k - 1) \cup {k} /\ k \in 0..n
    OBVIOUS
  <2> QED BY <2>1, <2>2, <2>5, <2>6, <2>7
<1>10. n \in T
  <2> HIDE DEF T
  <2>1. n \in 0..n
    OBVIOUS
  <2> QED BY <1>8, <1>9, <2>1, Induct
<1>11. CyclicNodes(n, deps) = w[n].cycles
  BY CyclicNodesIs DEF w
<1>12. ASSUME w[n].cycles = {} PROVE IsAcyclic(n, deps)
  BY <1>10, <1>12 DEF Clean, IsAcyclic
<1> QED BY <1>10, <1>11, <1>12

\* Places in a topological order keep a node out of reach of its dependencies.
LEMMA AcyclicHasNoCycle ==
  ASSUME NEW n \in Nat, NEW deps, IsAcyclic(n, deps)
  PROVE  OnCycle(n, deps) = {}
<1> DEFINE place(i) == Place(StableOrder(n, deps), i)
<1>1. HasOrder(n, deps)
  BY StableOrderIsTopological DEF OrderIsTopological, HasOrder
<1>2. /\ \A i \in 1..n : place(i) \in 1..n
      /\ \A i \in 1..n : \A d \in deps[i] \cap 1..n : place(d) < place(i)
  BY <1>1, PlacesAreOrdered
<1> HIDE DEF place
<1>3. ASSUME NEW i \in OnCycle(n, deps) PROVE FALSE
  <2> DEFINE S == {j \in 1..n : place(j) < place(i)}
  <2>1. i \in 1..n
    BY DEF OnCycle
  <2>2. S \in SUBSET (1..n) /\ deps[i] \cap 1..n \subseteq S
    BY <1>2, <2>1
  <2>3. ASSUME NEW j \in S, NEW d \in deps[j] \cap 1..n PROVE d \in S
    BY <1>2, <2>1, <2>3
  <2>4. i \in S
    <3> HIDE DEF S
    <3> QED BY <2>2, <2>3 DEF OnCycle
  <2> QED BY <1>2, <2>1, <2>4
<1> QED BY <1>3

-----------------------------------------------------------------------------
(* The state, and the walks over it.                                       *)

Typed ==
  /\ phaseOf \in [Task -> Phase]
  /\ phaseDeps \in [Phase -> SUBSET Phase]
  /\ taskDeps \in [Task -> SUBSET (Task \cup {Unknown})]
  /\ stage \in {"draft", "approved", "refused", "running"}
  /\ done \in SUBSET Task

\* Numbers for phases and tasks that respect all dependencies.
Orders(phase, task) ==
  /\ phase \in [Phase -> Nat] /\ task \in [Task -> Nat]
  /\ \A t \in Task : \A d \in taskDeps[t] :
       d \in Task /\ task[d] < task[t] /\ phase[phaseOf[d]] <= phase[phaseOf[t]]
  /\ \A p \in Phase : \A q \in phaseDeps[p] : q \in Phase /\ phase[q] < phase[p]

Orderly == \E phase, task : Orders(phase, task)

Levels(p) ==
  CHOOSE level : level = [k \in 0..PhaseCount |->
                            IF k = 0 THEN phaseDeps[p]
                            ELSE level[k - 1] \cup UNION {phaseDeps[q] : q \in level[k - 1]}]

LEMMA LevelsAre ==
  ASSUME Typed, NEW p \in Phase
  PROVE  LET level == Levels(p)
         IN /\ AncestorsFor(p) = level[PhaseCount]
            /\ level[0] = phaseDeps[p]
            /\ \A k \in 1..PhaseCount :
                 level[k] = level[k - 1] \cup UNION {phaseDeps[q] : q \in level[k - 1]}
<1> DEFINE n == PhaseCount
           X == SUBSET Phase
           Body(S) == S \cup UNION {phaseDeps[q] : q \in S}
           F == [S \in X |-> Body(S)]
           Is(g) == g = [k \in 0..n |-> IF k = 0 THEN phaseDeps[p] ELSE Body(g[k - 1])]
           level == Levels(p)
<1>0. n \in Nat
  BY GraphAssumption
<1>1. phaseDeps[p] \in X
  BY DEF Typed
<1>2. F \in [X -> X]
  BY DEF Typed
<1>3. \E f : Is(f)
  <2> HIDE DEF n, X, F, Body
  <2>1. \E f \in [0..n -> X] : Passes(f, n, phaseDeps[p], F)
    BY <1>0, <1>1, <1>2, Iterates
  <2>2. PICK f \in [0..n -> X] : f[0] = phaseDeps[p] /\ \A k \in 1..n : f[k] = F[f[k - 1]]
    BY <2>1 DEF Passes
  <2>3. ASSUME NEW k \in 1..n PROVE f[k] = Body(f[k - 1])
    <3>1. k - 1 \in 0..n
      BY <1>0
    <3>2. F[f[k - 1]] = Body(f[k - 1])
      BY <3>1 DEF F
    <3> QED BY <2>2, <3>2
  <2>4. Is(f)
    BY <2>2, <2>3
  <2> QED BY <2>4
<1>4. Is(level)
  BY <1>3, Zenon DEF Levels
<1>5. AncestorsFor(p) = level[n]
  BY DEF AncestorsFor, Levels
<1>6. level[0] = phaseDeps[p] /\ \A k \in 1..n : level[k] = Body(level[k - 1])
  <2> HIDE DEF level, Body
  <2> QED BY <1>0, <1>4
<1> QED BY <1>5, <1>6

\* An ancestor comes earlier in the order of the phases.
LEMMA AncestorsComeFirst ==
  ASSUME Typed, NEW p \in Phase, HasOrder(PhaseCount, phaseDeps), NEW q \in AncestorsFor(p)
  PROVE  LET place(i) == Place(StableOrder(PhaseCount, phaseDeps), i)
         IN q \in Phase /\ place(q) < place(p)
<1> DEFINE place(i) == Place(StableOrder(PhaseCount, phaseDeps), i)
           level == Levels(p)
           Before == {r \in Phase : place(r) < place(p)}
           S == {k \in 0..PhaseCount : level[k] \subseteq Before}
<1>0. PhaseCount \in Nat
  BY GraphAssumption
<1>1. /\ \A i \in Phase : place(i) \in Nat
      /\ \A i \in Phase : \A d \in phaseDeps[i] : d \in Phase /\ place(d) < place(i)
  BY <1>0, PlacesAreOrdered DEF Phase, Typed
<1>2. /\ AncestorsFor(p) = level[PhaseCount] /\ level[0] = phaseDeps[p]
      /\ \A k \in 1..PhaseCount :
           level[k] = level[k - 1] \cup UNION {phaseDeps[r] : r \in level[k - 1]}
  BY LevelsAre
<1> HIDE DEF place, level
<1>3. 0 \in S
  BY <1>0, <1>1, <1>2
<1>4. ASSUME NEW k \in 1..PhaseCount, k - 1 \in S PROVE k \in S
  <2>1. ASSUME NEW r \in level[k - 1], NEW d \in phaseDeps[r] PROVE d \in Before
    BY <1>1, <1>4, <2>1
  <2>2. level[k] \subseteq Before
    BY <1>2, <1>4, <2>1
  <2> QED BY <2>2
<1>5. \A k \in 0..PhaseCount : k \in S
  <2> HIDE DEF S
  <2> QED BY <1>0, <1>3, <1>4, Induct
<1>6. AncestorsFor(p) \subseteq Before
  BY <1>0, <1>2, <1>5
<1> QED BY <1>6 DEF place

\* What development accepts has an order of its phases and one of its tasks,
\* and no task depends on one of a later phase.
LEMMA AcceptedIsOrdered ==
  ASSUME Typed, DevelopmentAccepts
  PROVE  LET task(i) == Place(StableOrder(TaskCount, taskDeps), i)
             phase(i) == Place(StableOrder(PhaseCount, phaseDeps), i)
         IN /\ \A t \in Task : task(t) \in Nat
            /\ \A p \in Phase : phase(p) \in Nat
            /\ \A t \in Task : \A d \in taskDeps[t] :
                 d \in Task /\ task(d) < task(t) /\ phase(phaseOf[d]) <= phase(phaseOf[t])
            /\ \A p \in Phase : \A q \in phaseDeps[p] : q \in Phase /\ phase(q) < phase(p)
<1> DEFINE task(i) == Place(StableOrder(TaskCount, taskDeps), i)
           phase(i) == Place(StableOrder(PhaseCount, phaseDeps), i)
<1>0. PhaseCount \in Nat /\ TaskCount \in Nat
  BY GraphAssumption
<1>1. HasOrder(PhaseCount, phaseDeps) /\ HasOrder(TaskCount, taskDeps)
  BY DEF DevelopmentAccepts
<1>2. /\ \A t \in Task : task(t) \in Nat
      /\ \A t \in Task : \A d \in taskDeps[t] \cap Task : task(d) < task(t)
  BY <1>0, <1>1, PlacesAreOrdered DEF Task
<1>3. /\ \A p \in Phase : phase(p) \in Nat
      /\ \A p \in Phase : \A q \in phaseDeps[p] \cap Phase : phase(q) < phase(p)
  BY <1>0, <1>1, PlacesAreOrdered DEF Phase
<1>4. ASSUME NEW t \in Task, NEW d \in taskDeps[t]
      PROVE  d \in Task /\ task(d) < task(t) /\ phase(phaseOf[d]) <= phase(phaseOf[t])
  <2>1. d \in Task
    BY DEF DevelopmentAccepts
  <2>2. phaseOf[d] \in Phase /\ phaseOf[t] \in Phase
    BY <2>1 DEF Typed
  <2>3. PhaseAllows(t, d)
    BY <2>1 DEF DevelopmentAccepts
  <2>4. CASE phaseOf[d] = phaseOf[t]
    BY <1>2, <1>3, <2>1, <2>2, <2>4
  <2>5. CASE phaseOf[d] \in AncestorsFor(phaseOf[t])
    <3>1. phase(phaseOf[d]) < phase(phaseOf[t])
      BY <1>1, <2>2, <2>5, AncestorsComeFirst
    <3> HIDE DEF task, phase
    <3> QED BY <1>2, <1>3, <2>1, <2>2, <3>1
  <2> QED BY <2>3, <2>4, <2>5 DEF PhaseAllows
<1>5. \A p \in Phase : \A q \in phaseDeps[p] : q \in Phase
  BY DEF Typed
<1> QED BY <1>2, <1>3, <1>4, <1>5

\* Of the tasks left, the first one of the first phase that has any can be
\* completed, in orders that respect all dependencies.
LEMMA SomeTaskIsNext ==
  ASSUME Typed, NEW phase, NEW task, Orders(phase, task),
         NEW D \in SUBSET Task, D # Task
  PROVE  \E t \in Task \ D :
           /\ taskDeps[t] \subseteq D
           /\ \A q \in phaseDeps[phaseOf[t]] : \A u \in Task : phaseOf[u] = q => u \in D
<1> USE DEF Orders
<1> DEFINE Left == Task \ D
           Phases == {phase[phaseOf[t]] : t \in Left}
<1>1. \A t \in Task : phaseOf[t] \in Phase
  BY DEF Typed
<1>2. Phases \subseteq Nat /\ Phases # {}
  BY <1>1
<1>3. PICK first \in Phases : \A k \in Phases : first <= k
  <2> HIDE DEF Phases
  <2> QED BY <1>2, NatMinimum
<1> DEFINE Tasks == {task[t] : t \in {u \in Left : phase[phaseOf[u]] = first}}
<1>4. Tasks \subseteq Nat /\ Tasks # {}
  BY <1>3
<1>5. PICK least \in Tasks : \A k \in Tasks : least <= k
  <2> HIDE DEF Tasks
  <2> QED BY <1>4, NatMinimum
<1>6. PICK t \in Left : phase[phaseOf[t]] = first /\ task[t] = least
  BY <1>5
<1>7. ASSUME NEW u \in Left PROVE first <= phase[phaseOf[u]]
  <2>1. phase[phaseOf[u]] \in Phases
    OBVIOUS
  <2> HIDE DEF Phases
  <2> QED BY <1>3, <2>1
<1>8. ASSUME NEW u \in Left, phase[phaseOf[u]] = first PROVE least <= task[u]
  <2>1. task[u] \in Tasks
    BY <1>8
  <2> HIDE DEF Tasks
  <2> QED BY <1>5, <2>1
<1>9. ASSUME NEW d \in taskDeps[t], d \notin D PROVE FALSE
  <2>1. d \in Left /\ task[d] < task[t] /\ phase[phaseOf[d]] <= phase[phaseOf[t]]
    BY <1>9
  <2>2. task[d] \in Nat /\ task[t] \in Nat /\ phase[phaseOf[d]] \in Nat /\ first \in Nat
    BY <1>1, <1>2, <1>3, <2>1
  <2>3. phase[phaseOf[d]] = first
    BY <1>6, <1>7, <2>1, <2>2
  <2>4. least <= task[d]
    BY <1>8, <2>1, <2>3
  <2> QED BY <1>6, <2>1, <2>2, <2>4
<1>10. ASSUME NEW q \in phaseDeps[phaseOf[t]], NEW u \in Task, phaseOf[u] = q, u \notin D
       PROVE  FALSE
  <2>1. q \in Phase /\ phase[q] < phase[phaseOf[t]]
    BY <1>1
  <2>2. first <= phase[q]
    BY <1>7, <1>10
  <2>3. phase[q] \in Nat /\ first \in Nat
    BY <1>2, <1>3, <2>1
  <2> QED BY <1>6, <2>1, <2>2, <2>3
<1> QED BY <1>6, <1>9, <1>10

LEMMA AcceptedIsOrderly ==
  ASSUME Typed, DevelopmentAccepts
  PROVE  Orderly
<1> DEFINE phase == [p \in Phase |-> Place(StableOrder(PhaseCount, phaseDeps), p)]
           task == [t \in Task |-> Place(StableOrder(TaskCount, taskDeps), t)]
<1>1. \A t \in Task : phaseOf[t] \in Phase
  BY DEF Typed
<1>2. Orders(phase, task)
  BY <1>1, AcceptedIsOrdered DEF Orders
<1> HIDE DEF phase, task
<1> QED BY <1>2 DEF Orderly

\* The run of an orderly plan has a next task until all are done.
LEMMA OrderlyNeverStops ==
  ASSUME Typed, Orderly, done # Task
  PROVE  \E t \in Task : CanComplete(t)
<1>1. PICK phase, task : Orders(phase, task)
  BY DEF Orderly
<1>2. done \in SUBSET Task
  BY DEF Typed
<1>3. PICK t \in Task \ done :
        /\ taskDeps[t] \subseteq done
        /\ \A q \in phaseDeps[phaseOf[t]] : \A u \in Task : phaseOf[u] = q => u \in done
  BY <1>1, <1>2, SomeTaskIsNext
<1> QED BY <1>3 DEF CanComplete, PhaseIsDone

-----------------------------------------------------------------------------
(* Sets of tasks that grow pass by pass.                                   *)

LEMMA TaskSets ==
  /\ TaskCount \in Nat
  /\ \A A \in SUBSET Task :
       /\ IsFiniteSet(A) /\ Cardinality(A) \in Nat /\ Cardinality(A) <= TaskCount
       /\ Cardinality(A) = TaskCount => A = Task
<1>1. TaskCount \in Nat
  BY GraphAssumption
<1>2. IsFiniteSet(Task) /\ Cardinality(Task) = TaskCount
  BY <1>1, FS_Interval DEF Task
<1>3. ASSUME NEW A \in SUBSET Task
      PROVE  /\ IsFiniteSet(A) /\ Cardinality(A) <= Cardinality(Task)
             /\ Cardinality(Task) = Cardinality(A) => Task = A
  BY <1>2, FS_Subset
<1> QED BY <1>1, <1>2, <1>3, FS_CardinalityType

LEMMA Grows ==
  ASSUME NEW A \in SUBSET Task, NEW B \in SUBSET Task, A \subseteq B, A # B
  PROVE  Cardinality(A) + 1 <= Cardinality(B)
<1>1. PICK b \in B : b \notin A
  OBVIOUS
<1>2. IsFiniteSet(A) /\ IsFiniteSet(B) /\ Cardinality(A) \in Nat /\ Cardinality(B) \in Nat
  BY TaskSets
<1>3. Cardinality(A \cup {b}) = Cardinality(A) + 1
  BY <1>1, <1>2, FS_AddElement
<1>4. A \cup {b} \in SUBSET B
  BY <1>1
<1>5. Cardinality(A \cup {b}) <= Cardinality(B)
  BY <1>2, <1>4, FS_Subset
<1> QED BY <1>3, <1>5

Dependents(roots) ==
  CHOOSE g : g = [k \in 0..TaskCount |->
                    IF k = 0 THEN roots
                    ELSE g[k - 1] \cup {t \in Task : taskDeps[t] \cap g[k - 1] # {}}]

\* dependentTaskIds.
LEMMA DependentsAre ==
  ASSUME NEW roots \in SUBSET Task
  PROVE  LET g == Dependents(roots)
         IN /\ g[0] = roots
            /\ \A k \in 0..TaskCount : g[k] \in SUBSET Task
            /\ \A k \in 1..TaskCount :
                 g[k] = g[k - 1] \cup {t \in Task : taskDeps[t] \cap g[k - 1] # {}}
<1> DEFINE n == TaskCount
           X == SUBSET Task
           Body(S) == S \cup {t \in Task : taskDeps[t] \cap S # {}}
           F == [S \in X |-> Body(S)]
           Is(g) == g = [k \in 0..n |-> IF k = 0 THEN roots ELSE Body(g[k - 1])]
           g == Dependents(roots)
<1>0. n \in Nat
  BY GraphAssumption
<1>1. roots \in X
  OBVIOUS
<1>2. F \in [X -> X]
  OBVIOUS
<1>3. \E f : Is(f)
  <2> HIDE DEF n, X, F, Body
  <2>1. \E f \in [0..n -> X] : Passes(f, n, roots, F)
    BY <1>0, <1>1, <1>2, Iterates
  <2>2. PICK f \in [0..n -> X] : f[0] = roots /\ \A k \in 1..n : f[k] = F[f[k - 1]]
    BY <2>1 DEF Passes
  <2>3. ASSUME NEW k \in 1..n PROVE f[k] = Body(f[k - 1])
    <3>1. k - 1 \in 0..n
      BY <1>0
    <3>2. F[f[k - 1]] = Body(f[k - 1])
      BY <3>1 DEF F
    <3> QED BY <2>2, <3>2
  <2>4. Is(f)
    BY <2>2, <2>3
  <2> QED BY <2>4
<1>4. Is(g)
  BY <1>3, Zenon DEF Dependents
<1>5. g[0] = roots /\ \A k \in 1..n : g[k] = Body(g[k - 1])
  <2> HIDE DEF g, Body
  <2> QED BY <1>0, <1>4
<1>6. \A k \in 0..n : g[k] \in X
  <2> DEFINE S == {k \in 0..n : g[k] \in X}
  <2> HIDE DEF g
  <2>1. 0 \in S
    BY <1>0, <1>1, <1>5
  <2>2. \A k \in 1..n : k - 1 \in S => k \in S
    BY <1>5
  <2>3. \A k \in 0..n : k \in S
    <3> HIDE DEF S, n
    <3> QED BY <1>0, <2>1, <2>2, Induct
  <2> QED BY <2>3
<1> QED BY <1>5, <1>6

LEMMA DependentTaskIdsIs ==
  ASSUME NEW roots
  PROVE  DependentTaskIds(roots) = Dependents(roots)[TaskCount]
BY DEF DependentTaskIds, Dependents

\* Passes that only add tasks, and add none to none, have settled after as many
\* of them as there are tasks, on the least set they settle on.
LEMMA PassesSettle ==
  ASSUME NEW G \in [SUBSET Task -> SUBSET Task], \A A \in SUBSET Task : A \subseteq G[A],
         G[{}] = {}, NEW g, g[0] \in SUBSET Task, \A k \in 1..TaskCount : g[k] = G[g[k - 1]]
  PROVE  LET last == g[TaskCount]
         IN /\ last \in SUBSET Task /\ g[0] \subseteq last /\ G[last] = last
            /\ \A T \in SUBSET Task :
                 g[0] \subseteq T /\ (\A A \in SUBSET T : G[A] \subseteq T) => last \subseteq T
<1> DEFINE n == TaskCount
<1>0. n \in Nat
  BY TaskSets
<1>1. \A k \in 0..n : g[k] \in SUBSET Task /\ g[0] \subseteq g[k]
  <2> DEFINE S == {k \in 0..n : g[k] \in SUBSET Task /\ g[0] \subseteq g[k]}
  <2>1. 0 \in S
    BY <1>0
  <2>2. ASSUME NEW k \in 1..n, k - 1 \in S PROVE k \in S
    <3>1. g[k - 1] \in SUBSET Task /\ g[k] = G[g[k - 1]] /\ g[k - 1] \subseteq g[k]
      BY <2>2
    <3> QED BY <2>2, <3>1
  <2>3. \A k \in 0..n : k \in S
    <3> HIDE DEF S, n
    <3> QED BY <1>0, <2>1, <2>2, Induct
  <2> QED BY <2>3
<1>2. G[g[n]] = g[n]
  <2> DEFINE Closed(k) == G[g[k]] = g[k]
             S == {k \in 0..n : Closed(k) \/ Cardinality(g[k]) >= k + 1}
  <2>1. 0 \in S
    <3>1. CASE g[0] = {}
      <4>1. G[g[0]] = g[0]
        BY <3>1
      <4>2. Closed(0)
        BY <4>1
      <4> QED BY <1>0, <4>2
    <3>2. CASE g[0] # {}
      <4>1. IsFiniteSet(g[0]) /\ Cardinality(g[0]) \in Nat
        BY TaskSets
      <4>2. Cardinality(g[0]) # 0
        BY <3>2, <4>1, FS_EmptySet
      <4> QED BY <1>0, <4>1, <4>2
    <3> QED BY <3>1, <3>2
  <2>2. ASSUME NEW k \in 1..n, k - 1 \in S PROVE k \in S
    <3>1. /\ g[k - 1] \in SUBSET Task /\ g[k] \in SUBSET Task /\ g[k] = G[g[k - 1]]
          /\ g[k - 1] \subseteq g[k]
      BY <1>0, <1>1
    <3>2. CASE Closed(k - 1)
      BY <3>1, <3>2
    <3>3. CASE ~Closed(k - 1)
      <4>1. Cardinality(g[k - 1]) + 1 <= Cardinality(g[k])
        BY <3>1, <3>3, Grows
      <4>2. Cardinality(g[k - 1]) \in Nat /\ Cardinality(g[k]) \in Nat
        BY <3>1, TaskSets
      <4>3. Cardinality(g[k - 1]) >= k
        BY <2>2, <3>3
      <4> HIDE DEF Closed
      <4> QED BY <1>0, <4>1, <4>2, <4>3
    <3> QED BY <3>2, <3>3
  <2>3. \A k \in 0..n : k \in S
    <3> HIDE DEF S, n
    <3> QED BY <1>0, <2>1, <2>2, Induct
  <2>4. Closed(n) \/ Cardinality(g[n]) >= n + 1
    <3> HIDE DEF Closed
    <3> QED BY <1>0, <2>3
  <2>5. Cardinality(g[n]) \in Nat /\ Cardinality(g[n]) <= n
    BY <1>0, <1>1, TaskSets
  <2> HIDE DEF Closed, n
  <2>6. Closed(n)
    BY <1>0, <2>4, <2>5
  <2> QED BY <2>6 DEF Closed
<1>3. ASSUME NEW T \in SUBSET Task, g[0] \subseteq T, \A A \in SUBSET T : G[A] \subseteq T
      PROVE  g[n] \subseteq T
  <2> DEFINE S == {k \in 0..n : g[k] \subseteq T}
  <2>1. 0 \in S
    BY <1>0, <1>3
  <2>2. ASSUME NEW k \in 1..n, k - 1 \in S PROVE k \in S
    BY <1>3, <2>2
  <2>3. \A k \in 0..n : k \in S
    <3> HIDE DEF S, n
    <3> QED BY <1>0, <2>1, <2>2, Induct
  <2> QED BY <1>0, <2>3
<1> QED BY <1>0, <1>1, <1>2, <1>3

Downstream(S) == \A u \in Task : taskDeps[u] \cap S # {} => u \in S

\* dependentTaskIds reaches all tasks downstream of its roots, and only those.
LEMMA DependentsAreClosed ==
  ASSUME NEW roots \in SUBSET Task
  PROVE  LET found == DependentTaskIds(roots)
         IN /\ found \in SUBSET Task /\ roots \subseteq found /\ Downstream(found)
            /\ \A T \in SUBSET Task : roots \subseteq T /\ Downstream(T) => found \subseteq T
<1> DEFINE g == Dependents(roots)
           Body(S) == S \cup {t \in Task : taskDeps[t] \cap S # {}}
           G == [S \in SUBSET Task |-> Body(S)]
<1>0. TaskCount \in Nat
  BY TaskSets
<1>1. /\ g[0] = roots
      /\ \A k \in 0..TaskCount : g[k] \in SUBSET Task
      /\ \A k \in 1..TaskCount : g[k] = Body(g[k - 1])
  BY DependentsAre
<1>2. DependentTaskIds(roots) = g[TaskCount]
  BY DependentTaskIdsIs
<1> HIDE DEF g
<1>3. \A S \in SUBSET Task : G[S] = Body(S)
  OBVIOUS
<1>4. G \in [SUBSET Task -> SUBSET Task] /\ \A A \in SUBSET Task : A \subseteq G[A]
  OBVIOUS
<1>5. G[{}] = {}
  BY <1>3
<1>6. \A k \in 1..TaskCount : g[k] = G[g[k - 1]]
  <2>1. \A k \in 1..TaskCount : k - 1 \in 0..TaskCount
    BY <1>0
  <2> HIDE DEF G, Body
  <2> QED BY <1>1, <1>3, <2>1
<1> HIDE DEF G
<1>7. LET last == g[TaskCount]
      IN /\ last \in SUBSET Task /\ g[0] \subseteq last /\ G[last] = last
         /\ \A T \in SUBSET Task :
              g[0] \subseteq T /\ (\A A \in SUBSET T : G[A] \subseteq T) => last \subseteq T
  BY <1>1, <1>4, <1>5, <1>6, PassesSettle
<1>8. Downstream(g[TaskCount])
  BY <1>3, <1>7 DEF Downstream
<1>9. ASSUME NEW T \in SUBSET Task, Downstream(T), NEW A \in SUBSET T PROVE G[A] \subseteq T
  <2>1. G[A] = Body(A)
    BY <1>3
  <2> QED BY <1>9, <2>1 DEF Downstream
<1> QED BY <1>1, <1>2, <1>7, <1>8, <1>9

LEMMA DependentsAreReached ==
  ASSUME NEW r \in Task
  PROVE  DependentTaskIds({r}) =
           {t \in Task : \A S \in SUBSET Task :
              r \in S /\ (\A u \in Task : taskDeps[u] \cap S # {} => u \in S) => t \in S}
<1>1. {r} \in SUBSET Task
  OBVIOUS
<1>2. LET found == DependentTaskIds({r})
      IN /\ found \in SUBSET Task /\ {r} \subseteq found /\ Downstream(found)
         /\ \A T \in SUBSET Task : {r} \subseteq T /\ Downstream(T) => found \subseteq T
  BY <1>1, DependentsAreClosed
<1> QED BY <1>2 DEF Downstream

\* reachableTasks.
Waves ==
  CHOOSE g : g = [k \in 0..TaskCount |->
                    IF k = 0 THEN {t \in Task : taskDeps[t] = {}}
                    ELSE g[k - 1] \cup {t \in Task : AllReached(t, g[k - 1])}]

LEMMA WavesAre ==
  LET g == Waves
  IN /\ g[0] = {t \in Task : taskDeps[t] = {}}
     /\ \A k \in 0..TaskCount : g[k] \in SUBSET Task
     /\ \A k \in 1..TaskCount :
          g[k] = g[k - 1] \cup {t \in Task : AllReached(t, g[k - 1])}
<1> DEFINE n == TaskCount
           X == SUBSET Task
           Body(S) == S \cup {t \in Task : AllReached(t, S)}
           F == [S \in X |-> Body(S)]
           Is(g) == g = [k \in 0..n |-> IF k = 0 THEN {t \in Task : taskDeps[t] = {}} ELSE Body(g[k - 1])]
           g == Waves
<1>0. n \in Nat
  BY GraphAssumption
<1>1. {t \in Task : taskDeps[t] = {}} \in X
  OBVIOUS
<1>2. F \in [X -> X]
  OBVIOUS
<1>3. \E f : Is(f)
  <2> HIDE DEF n, X, F, Body
  <2>1. \E f \in [0..n -> X] : Passes(f, n, {t \in Task : taskDeps[t] = {}}, F)
    BY <1>0, <1>1, <1>2, Iterates
  <2>2. PICK f \in [0..n -> X] : f[0] = {t \in Task : taskDeps[t] = {}} /\ \A k \in 1..n : f[k] = F[f[k - 1]]
    BY <2>1 DEF Passes
  <2>3. ASSUME NEW k \in 1..n PROVE f[k] = Body(f[k - 1])
    <3>1. k - 1 \in 0..n
      BY <1>0
    <3>2. F[f[k - 1]] = Body(f[k - 1])
      BY <3>1 DEF F
    <3> QED BY <2>2, <3>2
  <2>4. Is(f)
    BY <2>2, <2>3
  <2> QED BY <2>4
<1>4. Is(g)
  BY <1>3, Zenon DEF Waves
<1>5. g[0] = {t \in Task : taskDeps[t] = {}} /\ \A k \in 1..n : g[k] = Body(g[k - 1])
  <2> DEFINE start == {t \in Task : taskDeps[t] = {}}
  <2>1. g = [k \in 0..n |-> IF k = 0 THEN start ELSE Body(g[k - 1])]
    BY <1>4
  <2> HIDE DEF g, Body, start
  <2>2. g[0] = start /\ \A k \in 1..n : g[k] = Body(g[k - 1])
    BY <1>0, <2>1
  <2> QED BY <2>2 DEF start
<1>6. \A k \in 0..n : g[k] \in X
  <2> DEFINE S == {k \in 0..n : g[k] \in X}
  <2> HIDE DEF g
  <2>1. 0 \in S
    BY <1>0, <1>1, <1>5
  <2>2. \A k \in 1..n : k - 1 \in S => k \in S
    BY <1>5
  <2>3. \A k \in 0..n : k \in S
    <3> HIDE DEF S, n
    <3> QED BY <1>0, <2>1, <2>2, Induct
  <2> QED BY <2>3
<1> QED BY <1>5, <1>6

LEMMA ReachableTasksIs == ReachableTasks = Waves[TaskCount]
BY DEF ReachableTasks, Waves

\* What reachableTasks leaves out cannot be reached.
LEMMA ReachableIsClosed ==
  /\ ReachableTasks \in SUBSET Task
  /\ \A t \in Task : taskDeps[t] = {} \/ AllReached(t, ReachableTasks) => t \in ReachableTasks
<1> DEFINE g == Waves
           Body(S) == S \cup {t \in Task : AllReached(t, S)}
           G == [S \in SUBSET Task |-> Body(S)]
<1>0. TaskCount \in Nat
  BY TaskSets
<1>1. /\ g[0] = {t \in Task : taskDeps[t] = {}}
      /\ \A k \in 0..TaskCount : g[k] \in SUBSET Task
      /\ \A k \in 1..TaskCount : g[k] = Body(g[k - 1])
  BY WavesAre
<1>2. ReachableTasks = g[TaskCount]
  BY ReachableTasksIs
<1> HIDE DEF g
<1>3. \A S \in SUBSET Task : G[S] = Body(S)
  OBVIOUS
<1>4. G \in [SUBSET Task -> SUBSET Task] /\ \A A \in SUBSET Task : A \subseteq G[A]
  OBVIOUS
<1>5. G[{}] = {}
  BY <1>3 DEF AllReached
<1>6. \A k \in 1..TaskCount : g[k] = G[g[k - 1]]
  <2>1. \A k \in 1..TaskCount : k - 1 \in 0..TaskCount
    BY <1>0
  <2> HIDE DEF G, Body
  <2> QED BY <1>1, <1>3, <2>1
<1> HIDE DEF G
<1>7. LET last == g[TaskCount]
      IN last \in SUBSET Task /\ g[0] \subseteq last /\ G[last] = last
  BY <1>1, <1>4, <1>5, <1>6, PassesSettle
<1> QED BY <1>1, <1>2, <1>3, <1>7

\* A task depends on tasks of earlier waves only.
LEMMA WavesOrder ==
  ASSUME \A t \in Task : taskDeps[t] \subseteq Task
  PROVE  \E wave \in [ReachableTasks -> Nat] :
           \A t \in ReachableTasks : \A d \in taskDeps[t] :
             d \in ReachableTasks /\ wave[d] < wave[t]
<1> DEFINE g == Waves
           n == TaskCount
           At(t) == {k \in 0..n : t \in g[k]}
           wave == [t \in ReachableTasks |-> Min(At(t))]
<1>0. n \in Nat
  BY TaskSets
<1>1. /\ g[0] = {t \in Task : taskDeps[t] = {}}
      /\ \A k \in 0..n : g[k] \in SUBSET Task
      /\ \A k \in 1..n : g[k] = g[k - 1] \cup {t \in Task : AllReached(t, g[k - 1])}
  BY WavesAre
<1>2. ReachableTasks = g[n]
  BY ReachableTasksIs
<1> HIDE DEF g
<1>3. ASSUME NEW t, At(t) # {}
      PROVE  Min(At(t)) \in At(t) /\ \A k \in At(t) : Min(At(t)) <= k
  <2>1. At(t) \subseteq Nat
    OBVIOUS
  <2> HIDE DEF At
  <2> QED BY <1>3, <2>1, MinIsLeast
<1>4. \A k \in 0..n : g[k] \subseteq g[n]
  <2> DEFINE S == {k \in 0..n : g[n - k] \subseteq g[n]}
  <2>1. 0 \in S
    BY <1>0
  <2>2. ASSUME NEW k \in 1..n, k - 1 \in S PROVE k \in S
    <3>1. n - (k - 1) \in 1..n /\ (n - (k - 1)) - 1 = n - k /\ k \in 0..n
      BY <1>0
    <3>2. g[n - k] \subseteq g[n - (k - 1)]
      BY <1>1, <3>1
    <3> QED BY <2>2, <3>1, <3>2
  <2>3. \A k \in 0..n : k \in S
    <3> HIDE DEF S, n
    <3> QED BY <1>0, <2>1, <2>2, Induct
  <2>4. ASSUME NEW k \in 0..n PROVE g[k] \subseteq g[n]
    <3>1. n - k \in 0..n /\ n - (n - k) = k
      BY <1>0
    <3>2. n - k \in S
      <4> HIDE DEF S, n
      <4> QED BY <2>3, <3>1
    <3> QED BY <3>1, <3>2
  <2> QED BY <2>4
<1>5. ASSUME NEW t \in ReachableTasks PROVE n \in At(t)
  BY <1>0, <1>2
<1>6. wave \in [ReachableTasks -> Nat]
  <2>1. ASSUME NEW t \in ReachableTasks PROVE Min(At(t)) \in Nat
    <3>1. Min(At(t)) \in At(t) /\ At(t) \subseteq Nat
      BY <1>3, <1>5
    <3> HIDE DEF At
    <3> QED BY <3>1
  <2> QED BY <2>1
<1>7. ASSUME NEW t \in ReachableTasks, NEW d \in taskDeps[t]
      PROVE  d \in ReachableTasks /\ Min(At(d)) < Min(At(t))
  <2> DEFINE k == Min(At(t))
             m == Min(At(d))
  <2>0. t \in Task /\ d \in Task
    <3>1. t \in Task
      BY <1>0, <1>1, <1>2
    <3> QED BY <3>1
  <2>1. k \in 0..n /\ t \in g[k]
    BY <1>3, <1>5
  <2>2. k - 1 \notin At(t)
    <3>1. \A j \in At(t) : k <= j
      BY <1>3, <1>5
    <3> HIDE DEF k, At
    <3> QED BY <2>1, <3>1
  <2> HIDE DEF k
  <2>3. k \in 1..n /\ k - 1 \in 0..n
    BY <1>0, <1>1, <2>1
  <2>4. AllReached(t, g[k - 1])
    BY <1>1, <2>1, <2>2, <2>3
  <2>5. d \in g[k - 1]
    BY <2>0, <2>4 DEF AllReached
  <2>6. k - 1 \in At(d)
    BY <2>3, <2>5
  <2>7. m \in Nat /\ m <= k - 1
    <3>1. m \in At(d) /\ \A j \in At(d) : m <= j
      BY <1>3, <2>6
    <3>2. At(d) \subseteq Nat
      OBVIOUS
    <3> HIDE DEF m, At
    <3> QED BY <2>6, <3>1, <3>2
  <2>8. d \in ReachableTasks
    BY <1>2, <1>4, <2>3, <2>5
  <2> HIDE DEF m
  <2>9. m < k
    BY <2>3, <2>7
  <2> QED BY <2>8, <2>9 DEF k, m
<1> HIDE DEF At
<1>8. \A t \in ReachableTasks : \A d \in taskDeps[t] :
        d \in ReachableTasks /\ wave[d] < wave[t]
  BY <1>7
<1> HIDE DEF wave
<1> QED BY <1>6, <1>8

\* The nodes that can be reached from i, by one dependency or more.
ReachedFrom(n, deps, i) ==
  {j \in 1..n : \A S \in SUBSET (1..n) :
     deps[i] \cap 1..n \subseteq S /\ (\A k \in S : deps[k] \cap 1..n \subseteq S) => j \in S}

\* Nodes each of which depends on another of them are not all off the cycles:
\* one from which fewest can be reached is not.
LEMMA CycleAmong ==
  ASSUME NEW n \in Nat, NEW deps, NEW U \in SUBSET (1..n), U # {},
         \A i \in U : deps[i] \cap U # {}
  PROVE  OnCycle(n, deps) \cap U # {}
<1> DEFINE R(i) == ReachedFrom(n, deps, i)
           Sizes == {Cardinality(R(i)) : i \in U}
<1>1. IsFiniteSet(1..n)
  BY FS_Interval
<1>2. ASSUME NEW i \in 1..n
      PROVE  IsFiniteSet(R(i)) /\ Cardinality(R(i)) \in Nat
  <2>1. R(i) \in SUBSET (1..n)
    BY DEF ReachedFrom
  <2> QED BY <1>1, <2>1, FS_Subset, FS_CardinalityType
<1>3. PICK i \in U : \A j \in U : Cardinality(R(i)) <= Cardinality(R(j))
  <2>1. Sizes \subseteq Nat /\ Sizes # {}
    BY <1>2
  <2>2. PICK m \in Sizes : \A k \in Sizes : m <= k
    <3> HIDE DEF Sizes
    <3> QED BY <2>1, NatMinimum
  <2> QED BY <2>2
<1>4. PICK d \in deps[i] : d \in U
  OBVIOUS
<1>5. R(d) \subseteq R(i) /\ d \in R(i)
  BY <1>4 DEF ReachedFrom
<1>6. R(d) = R(i)
  <2>1. Cardinality(R(i)) <= Cardinality(R(d))
    BY <1>3, <1>4
  <2>2. IsFiniteSet(R(i)) /\ Cardinality(R(i)) \in Nat /\ Cardinality(R(d)) \in Nat
    BY <1>2, <1>4
  <2>3. Cardinality(R(d)) <= Cardinality(R(i)) /\ (Cardinality(R(i)) = Cardinality(R(d)) => R(i) = R(d))
    BY <1>5, <2>2, FS_Subset
  <2> HIDE DEF R
  <2> QED BY <2>1, <2>2, <2>3
<1>7. d \in OnCycle(n, deps)
  <2>1. d \in R(d)
    BY <1>5, <1>6
  <2> QED BY <2>1 DEF ReachedFrom, OnCycle
<1> QED BY <1>4, <1>7

\* The tasks reported unreachable are those on a cycle and downstream of one.
LEMMA UnreachableIsDownstream ==
  ASSUME \A t \in Task : taskDeps[t] \subseteq Task
  PROVE  ReachableTasks = Task \ DependentTaskIds(OnCycle(TaskCount, taskDeps))
<1> DEFINE R == ReachableTasks
           C == OnCycle(TaskCount, taskDeps)
           D == DependentTaskIds(C)
<1>1. C \in SUBSET Task
  BY DEF OnCycle, Task
<1>2. /\ D \in SUBSET Task /\ C \subseteq D /\ Downstream(D)
      /\ \A T \in SUBSET Task : C \subseteq T /\ Downstream(T) => D \subseteq T
  BY <1>1, DependentsAreClosed
<1>3. R \in SUBSET Task /\ \A t \in Task : taskDeps[t] = {} \/ AllReached(t, R) => t \in R
  BY ReachableIsClosed
<1>4. PICK wave \in [R -> Nat] :
        \A t \in R : \A d \in taskDeps[t] : d \in R /\ wave[d] < wave[t]
  BY WavesOrder
<1> HIDE DEF R, D
<1>5. C \cap R = {}
  <2>1. ASSUME NEW i \in C, i \in R PROVE FALSE
    <3> DEFINE S == {j \in R : wave[j] < wave[i]}
    <3>1. S \in SUBSET (1..TaskCount) /\ taskDeps[i] \subseteq S
      BY <1>3, <1>4, <2>1 DEF Task
    <3>2. ASSUME NEW j \in S PROVE taskDeps[j] \subseteq S
      BY <1>4, <2>1
    <3>3. i \in S
      <4> HIDE DEF S
      <4> QED BY <3>1, <3>2 DEF OnCycle
    <3> QED BY <1>4, <2>1, <3>3
  <2> QED BY <2>1
<1>6. D \subseteq Task \ R
  <2>1. Downstream(Task \ R)
    BY <1>4 DEF Downstream
  <2> QED BY <1>1, <1>2, <1>5, <2>1
<1>7. Task \ R \subseteq D
  <2> DEFINE U == Task \ (R \cup D)
  <2>1. ASSUME NEW u \in U PROVE taskDeps[u] \cap U # {}
    <3>1. taskDeps[u] # {} /\ ~AllReached(u, R) /\ taskDeps[u] \subseteq Task
      BY <1>3
    <3>2. ~(taskDeps[u] \subseteq R)
      BY <3>1 DEF AllReached
    <3>3. taskDeps[u] \cap D = {}
      BY <1>2 DEF Downstream
    <3> QED BY <3>1, <3>2, <3>3
  <2>2. ASSUME U # {} PROVE FALSE
    <3>1. TaskCount \in Nat /\ U \in SUBSET (1..TaskCount)
      BY TaskSets DEF Task
    <3>2. C \cap U # {}
      <4> HIDE DEF U
      <4> QED BY <2>1, <2>2, <3>1, CycleAmong
    <3> QED BY <1>2, <3>2
  <2> QED BY <2>2
<1> QED BY <1>3, <1>6, <1>7 DEF R, D

\* When every task is reached, the waves are an order of the tasks.
LEMMA ReachedInOrder ==
  ASSUME ReachableTasks = Task, \A t \in Task : taskDeps[t] \subseteq Task
  PROVE  \E task \in [Task -> Nat] : \A t \in Task : \A d \in taskDeps[t] : task[d] < task[t]
BY WavesOrder

\* A task whose turn has come when those in S are done, as IsExecutable has it.
Turn(t, S) ==
  /\ taskDeps[t] \subseteq S
  /\ \A q \in phaseDeps[phaseOf[t]] : \A u \in Task : phaseOf[u] = q => u \in S

Rounds ==
  CHOOSE g : g = [k \in 0..TaskCount |->
                    IF k = 0 THEN {}
                    ELSE g[k - 1] \cup {t \in Task : Turn(t, g[k - 1])}]

LEMMA RoundsAre ==
  LET g == Rounds
  IN /\ g[0] = {}
     /\ \A k \in 0..TaskCount : g[k] \in SUBSET Task
     /\ \A k \in 1..TaskCount :
          g[k] = g[k - 1] \cup {t \in Task : Turn(t, g[k - 1])}
<1> DEFINE n == TaskCount
           X == SUBSET Task
           Body(S) == S \cup {t \in Task : Turn(t, S)}
           F == [S \in X |-> Body(S)]
           Is(g) == g = [k \in 0..n |-> IF k = 0 THEN {} ELSE Body(g[k - 1])]
           g == Rounds
<1>0. n \in Nat
  BY GraphAssumption
<1>1. {} \in X
  OBVIOUS
<1>2. F \in [X -> X]
  OBVIOUS
<1>3. \E f : Is(f)
  <2> HIDE DEF n, X, F, Body
  <2>1. \E f \in [0..n -> X] : Passes(f, n, {}, F)
    BY <1>0, <1>1, <1>2, Iterates
  <2>2. PICK f \in [0..n -> X] : f[0] = {} /\ \A k \in 1..n : f[k] = F[f[k - 1]]
    BY <2>1 DEF Passes
  <2>3. ASSUME NEW k \in 1..n PROVE f[k] = Body(f[k - 1])
    <3>1. k - 1 \in 0..n
      BY <1>0
    <3>2. F[f[k - 1]] = Body(f[k - 1])
      BY <3>1 DEF F
    <3> QED BY <2>2, <3>2
  <2>4. Is(f)
    BY <2>2, <2>3
  <2> QED BY <2>4
<1>4. Is(g)
  BY <1>3, Zenon DEF Rounds
<1>5. g[0] = {} /\ \A k \in 1..n : g[k] = Body(g[k - 1])
  <2> DEFINE start == {}
  <2>1. g = [k \in 0..n |-> IF k = 0 THEN start ELSE Body(g[k - 1])]
    BY <1>4
  <2> HIDE DEF g, Body, start
  <2>2. g[0] = start /\ \A k \in 1..n : g[k] = Body(g[k - 1])
    BY <1>0, <2>1
  <2> QED BY <2>2 DEF start
<1>6. \A k \in 0..n : g[k] \in X
  <2> DEFINE S == {k \in 0..n : g[k] \in X}
  <2> HIDE DEF g
  <2>1. 0 \in S
    BY <1>0, <1>1, <1>5
  <2>2. \A k \in 1..n : k - 1 \in S => k \in S
    BY <1>5
  <2>3. \A k \in 0..n : k \in S
    <3> HIDE DEF S, n
    <3> QED BY <1>0, <2>1, <2>2, Induct
  <2> QED BY <2>3
<1> QED BY <1>5, <1>6

LEMMA IsExecutableIs == IsExecutable <=> Rounds[TaskCount] = Task
BY DEF IsExecutable, Rounds, Turn

\* Orders that respect all dependencies carry a plan out: each round completes
\* a task, if one is left.
LEMMA OrderedIsExecutable ==
  ASSUME Typed, NEW phase, NEW task, Orders(phase, task)
  PROVE  IsExecutable
<1> DEFINE g == Rounds
           n == TaskCount
           S == {k \in 0..n : g[k] = Task \/ Cardinality(g[k]) >= k}
<1>0. n \in Nat
  BY TaskSets
<1>1. /\ g[0] = {}
      /\ \A k \in 0..n : g[k] \in SUBSET Task
      /\ \A k \in 1..n : g[k] = g[k - 1] \cup {t \in Task : Turn(t, g[k - 1])}
  BY RoundsAre
<1> HIDE DEF g
<1>2. 0 \in S
  <2>1. Cardinality({}) = 0
    BY FS_EmptySet
  <2>2. Cardinality(g[0]) >= 0
    BY <1>1, <2>1
  <2> QED BY <1>0, <2>2
<1>3. ASSUME NEW k \in 1..n, k - 1 \in S PROVE k \in S
  <2>1. /\ g[k - 1] \in SUBSET Task /\ g[k] \in SUBSET Task
        /\ g[k] = g[k - 1] \cup {t \in Task : Turn(t, g[k - 1])}
    BY <1>0, <1>1
  <2>2. CASE g[k - 1] = Task
    BY <2>1, <2>2
  <2>3. CASE g[k - 1] # Task
    <3>1. PICK t \in Task \ g[k - 1] :
            /\ taskDeps[t] \subseteq g[k - 1]
            /\ \A q \in phaseDeps[phaseOf[t]] : \A u \in Task :
                 phaseOf[u] = q => u \in g[k - 1]
      BY <2>1, <2>3, SomeTaskIsNext
    <3>2. Turn(t, g[k - 1])
      BY <3>1 DEF Turn
    <3>3. g[k - 1] \subseteq g[k] /\ g[k - 1] # g[k]
      BY <2>1, <3>1, <3>2
    <3>4. Cardinality(g[k - 1]) + 1 <= Cardinality(g[k])
      BY <2>1, <3>3, Grows
    <3>5. Cardinality(g[k - 1]) \in Nat /\ Cardinality(g[k]) \in Nat
      BY <2>1, TaskSets
    <3>6. Cardinality(g[k - 1]) >= k - 1
      BY <1>3, <2>3
    <3> QED BY <1>0, <3>4, <3>5, <3>6
  <2> QED BY <2>2, <2>3
<1>4. \A k \in 0..n : k \in S
  <2> HIDE DEF S, n
  <2> QED BY <1>0, <1>2, <1>3, Induct
<1>5. g[n] = Task
  <2>1. g[n] \in SUBSET Task /\ (g[n] = Task \/ Cardinality(g[n]) >= n)
    BY <1>0, <1>1, <1>4
  <2>2. Cardinality(g[n]) \in Nat /\ Cardinality(g[n]) <= n
    BY <1>0, <2>1, TaskSets
  <2> QED BY <1>0, <2>1, <2>2, TaskSets
<1> QED BY <1>5, IsExecutableIs DEF g

\* What planning accepts: an order of the tasks, and no task that depends on
\* one of a phase listed later.
Listed ==
  \E task \in [Task -> Nat] : \A t \in Task : \A d \in taskDeps[t] :
    d \in Task /\ task[d] < task[t] /\ phaseOf[d] <= phaseOf[t]

LEMMA ApprovedIsListed ==
  ASSUME PlanningAccepts
  PROVE  Listed
<1>1. /\ \A t \in Task : taskDeps[t] \subseteq Task
      /\ \A t \in Task : \A d \in taskDeps[t] \cap Task : phaseOf[d] <= phaseOf[t]
      /\ ReachableTasks = Task
  BY DEF PlanningAccepts, ListAllows
<1>2. PICK task \in [Task -> Nat] :
        \A t \in Task : \A d \in taskDeps[t] : task[d] < task[t]
  BY <1>1, ReachedInOrder
<1>3. \A t \in Task : \A d \in taskDeps[t] :
        d \in Task /\ task[d] < task[t] /\ phaseOf[d] <= phaseOf[t]
  BY <1>1, <1>2
<1> QED BY <1>3 DEF Listed

LEMMA ListedIsExecutable ==
  ASSUME Typed, Listed, \A p \in Phase : phaseDeps[p] \subseteq 1..(p - 1)
  PROVE  IsExecutable
<1> DEFINE phase == [p \in Phase |-> p]
<1>1. PICK task \in [Task -> Nat] : \A t \in Task : \A d \in taskDeps[t] :
        d \in Task /\ task[d] < task[t] /\ phaseOf[d] <= phaseOf[t]
  BY DEF Listed
<1>2. phase \in [Phase -> Nat]
  BY DEF Phase
<1>3. ASSUME NEW t \in Task, NEW d \in taskDeps[t]
      PROVE  d \in Task /\ task[d] < task[t] /\ phase[phaseOf[d]] <= phase[phaseOf[t]]
  <2>1. d \in Task /\ phaseOf[d] \in Phase /\ phaseOf[t] \in Phase
    BY <1>1 DEF Typed
  <2> QED BY <1>1, <2>1
<1>4. ASSUME NEW p \in Phase, NEW q \in phaseDeps[p] PROVE q \in Phase /\ phase[q] < phase[p]
  <2>1. q \in Phase /\ q \in 1..(p - 1)
    BY DEF Typed
  <2> QED BY <2>1 DEF Phase
<1> HIDE DEF phase
<1>5. Orders(phase, task)
  BY <1>1, <1>2, <1>3, <1>4 DEF Orders
<1> QED BY <1>5, OrderedIsExecutable

\* What development asks of a plan, except for the phases of dependencies.
Unbroken ==
  /\ \A p \in Phase : p \notin phaseDeps[p]
  /\ HasOrder(PhaseCount, phaseDeps)
  /\ \A t \in Task : t \notin taskDeps[t] /\ taskDeps[t] \subseteq Task
  /\ HasOrder(TaskCount, taskDeps)

\* Where the search of planning finds no cycle, the sort of development ends.
LEMMA SearchAndSortAgree ==
  ASSUME NEW n \in Nat, NEW deps, CyclicNodes(n, deps) = {}
  PROVE  HasOrder(n, deps) /\ \A i \in 1..n : i \notin deps[i]
<1>1. IsAcyclic(n, deps)
  BY WalkFinds
<1>2. HasOrder(n, deps)
  BY <1>1, StableOrderIsTopological DEF OrderIsTopological, HasOrder
<1>3. ASSUME NEW i \in 1..n PROVE i \notin deps[i]
  <2>1. {i} \in (SUBSET (1..n)) \ {{}}
    OBVIOUS
  <2>2. \E j \in {i} : deps[j] \cap {i} = {}
    BY <1>1, <2>1 DEF IsAcyclic
  <2> QED BY <2>2
<1> QED BY <1>2, <1>3

LEMMA ApprovedIsUnbroken ==
  ASSUME PlanningAccepts
  PROVE  Unbroken
<1>1. PhaseCount \in Nat /\ TaskCount \in Nat
  BY GraphAssumption
<1>2. CyclicNodes(PhaseCount, phaseDeps) = {} /\ CyclicNodes(TaskCount, taskDeps) = {}
  BY DEF PlanningAccepts
<1>3. \A t \in Task : t \notin taskDeps[t] /\ taskDeps[t] \subseteq Task
  BY DEF PlanningAccepts
<1> QED BY <1>1, <1>2, <1>3, SearchAndSortAgree DEF Unbroken, Phase

-----------------------------------------------------------------------------
(* The theorems.                                                           *)

IInv ==
  /\ Typed
  /\ stage = "approved" => Listed /\ Unbroken
  /\ stage = "running" => Orderly
  /\ RefusalsAreExplained

LEMMA InitIsFounded == Init => IInv
<1> SUFFICES ASSUME Init PROVE IInv
  OBVIOUS
<1>1. 1 \in Phase
  BY GraphAssumption DEF Phase
<1> QED BY <1>1 DEF Init, IInv, Typed, RefusalsAreExplained

\* Only drafts are revised, so what a verdict found stays true.
LEMMA NextIsFounded ==
  ASSUME IInv, [Next]_vars
  PROVE  IInv'
<1> USE DEF IInv
<1>1. CASE ReviseTasks
  <2>1. PICK t \in Task :
          \/ \E d \in Task \cup {Unknown} :
               taskDeps' = [taskDeps EXCEPT ![t] = @ \cup {d}] /\ UNCHANGED phaseOf
          \/ \E p \in Phase : phaseOf' = [phaseOf EXCEPT ![t] = p] /\ UNCHANGED taskDeps
    BY <1>1 DEF ReviseTasks
  <2>2. stage = "draft" /\ UNCHANGED <<phaseDeps, userGates, stage, done>>
    BY <1>1 DEF ReviseTasks
  <2>3. Typed'
    BY <2>1, <2>2 DEF Typed
  <2> QED BY <2>2, <2>3 DEF RefusalsAreExplained
<1>2. CASE RevisePhases
  <2>1. Typed'
    BY <1>2 DEF RevisePhases, Typed
  <2> QED BY <1>2, <2>1 DEF RevisePhases, RefusalsAreExplained
<1>3. CASE Approve
  <2>1. Typed'
    BY <1>3 DEF Approve, Typed
  <2>2. Listed /\ Unbroken
    BY <1>3, ApprovedIsListed, ApprovedIsUnbroken DEF Approve
  <2>3. Listed' /\ Unbroken'
    BY <1>3, <2>2 DEF Approve, Listed, Unbroken
  <2> QED BY <1>3, <2>1, <2>3 DEF Approve, RefusalsAreExplained
<1>4. CASE Start
  <2>1. Typed' /\ stage' \in {"running", "refused"}
    BY <1>4 DEF Start, Verdict, Typed
  <2>2. stage' = "running" => Orderly
    BY <1>4, AcceptedIsOrderly DEF Start, Verdict
  <2>3. stage' = "running" => Orderly'
    BY <1>4, <2>2 DEF Start, Orderly, Orders
  <2>4. stage' = "refused" =>
          ~GatesAreDistinct \/ \E t \in Task : \E d \in taskDeps[t] : ~PhaseAllows(t, d)
    <3>1. Unbroken /\ stage' = Verdict
      BY <1>4 DEF Start
    <3> QED BY <3>1 DEF Verdict, Unbroken, DevelopmentAccepts
  <2>5. RefusalsAreExplained'
    BY <1>4, <2>4 DEF Start, RefusalsAreExplained, PhaseAllows, AncestorsFor,
       GatesAreDistinct
  <2> QED BY <2>1, <2>3, <2>5
<1>5. ASSUME NEW t \in Task, CompleteTask(t) PROVE IInv'
  <2>1. Typed' /\ stage = "running" /\ stage' = "running"
    BY <1>5 DEF CompleteTask, Typed
  <2>2. Orderly'
    BY <1>5, <2>1 DEF CompleteTask, Orderly, Orders
  <2> QED BY <2>1, <2>2 DEF RefusalsAreExplained
<1>6. CASE UNCHANGED vars
  <2>1. UNCHANGED <<phaseOf, phaseDeps, taskDeps, userGates, stage, done>>
    BY <1>6 DEF vars
  <2>2. RefusalsAreExplained'
    <3>1. \A p : AncestorsFor(p)' = AncestorsFor(p)
      BY <2>1 DEF AncestorsFor
    <3>2. \A t, d : PhaseAllows(t, d)' <=> PhaseAllows(t, d)
      BY <2>1, <3>1 DEF PhaseAllows
    <3> QED BY <2>1, <3>2 DEF RefusalsAreExplained, GatesAreDistinct
  <2>3. Typed' /\ (stage' = "approved" => Listed' /\ Unbroken') /\ (stage' = "running" => Orderly')
    BY <2>1 DEF Typed, Listed, Unbroken, Orderly, Orders
  <2> QED BY <2>2, <2>3
<1>7. CASE ReviseGates
  <2>1. Typed'
    BY <1>7 DEF ReviseGates, Typed
  <2> QED BY <1>7, <2>1 DEF ReviseGates, RefusalsAreExplained
<1> QED BY <1>1, <1>2, <1>3, <1>4, <1>5, <1>6, <1>7 DEF Next

LEMMA Foundation == Spec => []IInv
<1>1. IInv /\ [Next]_vars => IInv'
  BY NextIsFounded
<1> QED BY InitIsFounded, <1>1, PTL DEF Spec

\* Both helpers of graph.ts are exact on graphs of any size: the stable order
\* is topological, and complete unless the dependencies are cyclic; the walk of
\* dependentTaskIds reaches exactly the tasks downstream of its roots.
THEOREM HelpersAreCorrect == Spec => []HelpersAreExact
<1>1. HelpersAreExact
  BY GraphAssumption, StableOrderIsTopological, DependentsAreReached
     DEF HelpersAreExact, OrdersAreTopological, DependentsAreDownstream
<1> QED BY <1>1, PTL DEF Spec

\* A plan that validateDevelopmentGraph accepts has the two orders of which
\* module DevelopmentRun assumes that they respect every dependency.
THEOREM AcceptedPlansAreOrdered == Spec => []AcceptedPlanIsOrdered
<1>1. IInv => AcceptedPlanIsOrdered
  BY AcceptedIsOrdered DEF IInv, AcceptedPlanIsOrdered, Place
<1> QED BY Foundation, <1>1, PTL

\* The run of an accepted plan always has a task that can be completed next,
\* whichever tasks were completed before.
THEOREM AcceptedPlansNeverStop == Spec => []RunIsNeverStuck
<1>1. IInv => RunIsNeverStuck
  BY OrderlyNeverStops DEF IInv, RunIsNeverStuck
<1> QED BY Foundation, <1>1, PTL

\* A plan that validateExecutionPlan accepts, with its phases listed in an
\* order of their dependencies, can be carried out.
THEOREM ApprovedPlansAreExecutable == Spec => []ApprovedIsExecutable
<1>1. IInv => ApprovedIsExecutable
  BY ListedIsExecutable DEF IInv, ApprovedIsExecutable
<1> QED BY Foundation, <1>1, PTL

\* cyclicNodes finds a cycle whenever there is one and reports only nodes of
\* cycles, on graphs of any size; and, if every dependency names a task, the
\* tasks reported unreachable are those on a cycle and downstream of one.
THEOREM AllCyclesAreFound == Spec => []CyclesAreFound
<1>1. CyclesAreFound
  <2> DEFINE found == CyclicNodes(TaskCount, taskDeps)
             onCycle == OnCycle(TaskCount, taskDeps)
  <2>1. TaskCount \in Nat
    BY TaskSets
  <2>2. found \subseteq onCycle /\ (found = {} => IsAcyclic(TaskCount, taskDeps))
    BY <2>1, WalkFinds
  <2>3. IsAcyclic(TaskCount, taskDeps) => onCycle = {}
    BY <2>1, AcyclicHasNoCycle
  <2>4. (\A t \in Task : taskDeps[t] \subseteq Task)
          => ReachableTasks = Task \ DependentTaskIds(onCycle)
    BY UnreachableIsDownstream
  <2> HIDE DEF found, onCycle
  <2>5. found = {} <=> IsAcyclic(TaskCount, taskDeps)
    BY <2>2, <2>3
  <2> QED BY <2>2, <2>4, <2>5 DEF CyclesAreFound, found, onCycle
<1> QED BY <1>1, PTL DEF Spec

\* A plan that validateExecutionPlan accepts is refused by
\* validateDevelopmentGraph only for the phases of its dependencies or for two
\* user gates of one name: the depth-first search and the topological sort
\* never disagree on a cycle.
THEOREM ValidationsAgree == Spec => []RefusalsAreExplained
<1>1. IInv => RefusalsAreExplained
  BY DEF IInv
<1> QED BY Foundation, <1>1, PTL
=============================================================================
