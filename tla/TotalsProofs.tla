------------------------------ MODULE TotalsProofs ------------------------------
(***************************************************************************)
(* Lemmas about sums, for the proofs of the modules that form them.        *)
(* Counting units needs no induction: a sum is split by splitting a set.   *)
(***************************************************************************)
EXTENDS Totals, FiniteSetTheorems, TLAPS

\* The units, described by their members.
LEMMA UnitsMember ==
    ASSUME NEW f, NEW S, NEW u
    PROVE  u \in UnitsIn(f, S) <=> \E x \in S : \E i \in 1..f[x] : u = <<x, i>>
BY DEF UnitsIn

\* A finite set of natural quantities has finitely many units.
LEMMA UnitsFinite ==
    ASSUME NEW f, NEW S, IsFiniteSet(S), \A x \in S : f[x] \in Nat
    PROVE  IsFiniteSet(UnitsIn(f, S)) /\ Total(f, S) \in Nat
<1> DEFINE g == [x \in S |-> {x} \X (1..f[x])]
           T == {{x} \X (1..f[x]) : x \in S}
<1>1. g \in Surjection(S, T)
  BY DEF Surjection
<1>2. IsFiniteSet(T)
  BY <1>1, FS_Surjection
<1>3. ASSUME NEW U \in T PROVE IsFiniteSet(U)
  <2>1. PICK x \in S : U = {x} \X (1..f[x])
    OBVIOUS
  <2>2. IsFiniteSet({x})
    BY FS_Singleton
  <2>3. f[x] \in Int
    OBVIOUS
  <2>4. IsFiniteSet(1..f[x])
    BY <2>3, FS_Interval
  <2> QED BY <2>1, <2>2, <2>4, FS_Product
<1>4. IsFiniteSet(UnitsIn(f, S))
  BY <1>2, <1>3, FS_UNION DEF UnitsIn
<1> QED BY <1>4, FS_CardinalityType DEF Total

\* Nothing sums up to 0.
LEMMA TotalOfNone ==
    ASSUME NEW f
    PROVE  Total(f, {}) = 0
<1>1. UnitsIn(f, {}) = {}
  BY DEF UnitsIn
<1> QED BY <1>1, FS_EmptySet DEF Total

\* One quantity alone is its own sum.
LEMMA TotalOfOne ==
    ASSUME NEW f, NEW x, f[x] \in Nat
    PROVE  Total(f, {x}) = f[x]
<1>1. UnitsIn(f, {x}) = {x} \X (1..f[x])
  BY DEF UnitsIn
<1>2. IsFiniteSet({x}) /\ Cardinality({x}) = 1
  BY FS_Singleton
<1>3. IsFiniteSet(1..f[x]) /\ Cardinality(1..f[x]) = f[x]
  <2>1. f[x] \in Int
    OBVIOUS
  <2>2. /\ IsFiniteSet(1..f[x])
        /\ Cardinality(1..f[x]) = IF 1 > f[x] THEN 0 ELSE f[x] - 1 + 1
    BY <2>1, FS_Interval
  <2> QED BY <2>2
<1>4. Cardinality({x} \X (1..f[x])) = Cardinality({x}) * Cardinality(1..f[x])
  BY <1>2, <1>3, FS_Product
<1>5. Cardinality({x} \X (1..f[x])) = f[x]
  BY <1>2, <1>3, <1>4
<1> QED BY <1>1, <1>5 DEF Total

\* Sums depend on nothing but the quantities summed.
LEMMA TotalSame ==
    ASSUME NEW f, NEW g, NEW S, \A x \in S : f[x] = g[x]
    PROVE  Total(f, S) = Total(g, S)
<1>1. UnitsIn(f, S) = UnitsIn(g, S)
  BY DEF UnitsIn
<1> QED BY <1>1 DEF Total

\* The sum over two disjoint sets is the sum of the sums.
LEMMA TotalOfUnion ==
    ASSUME NEW f, NEW S, NEW T, IsFiniteSet(S), IsFiniteSet(T), S \cap T = {},
           \A x \in S \cup T : f[x] \in Nat
    PROVE  Total(f, S \cup T) = Total(f, S) + Total(f, T)
<1>1. UnitsIn(f, S \cup T) = UnitsIn(f, S) \cup UnitsIn(f, T)
  BY DEF UnitsIn
<1>2. UnitsIn(f, S) \cap UnitsIn(f, T) = {}
  BY UnitsMember
<1>3. /\ IsFiniteSet(UnitsIn(f, S)) /\ IsFiniteSet(UnitsIn(f, T))
      /\ Total(f, S) \in Nat /\ Total(f, T) \in Nat
  BY UnitsFinite
<1>4. Cardinality(UnitsIn(f, S) \cup UnitsIn(f, T)) =
        Cardinality(UnitsIn(f, S)) + Cardinality(UnitsIn(f, T))
          - Cardinality(UnitsIn(f, S) \cap UnitsIn(f, T))
  BY <1>3, FS_Union
<1>5. Total(f, S \cup T) = Total(f, S) + Total(f, T) - 0
  BY <1>1, <1>2, <1>4, FS_EmptySet DEF Total
<1> QED BY <1>3, <1>5

\* A sum is one of its quantities plus the sum of the others.
LEMMA TotalSplit ==
    ASSUME NEW f, NEW S, IsFiniteSet(S), NEW x \in S, \A y \in S : f[y] \in Nat
    PROVE  /\ Total(f, S) = Total(f, S \ {x}) + f[x]
           /\ Total(f, S \ {x}) \in Nat
<1>1. IsFiniteSet(S \ {x}) /\ IsFiniteSet({x})
  BY FS_RemoveElement, FS_Singleton
<1>2. S = (S \ {x}) \cup {x} /\ (S \ {x}) \cap {x} = {}
  OBVIOUS
<1>3. Total(f, (S \ {x}) \cup {x}) = Total(f, S \ {x}) + Total(f, {x})
  BY <1>1, <1>2, TotalOfUnion
<1> QED BY <1>1, <1>2, <1>3, TotalOfOne, UnitsFinite

\* No quantity exceeds the sum it is part of.
LEMMA TotalBoundsEach ==
    ASSUME NEW f, NEW S, IsFiniteSet(S), NEW x \in S, \A y \in S : f[y] \in Nat
    PROVE  f[x] <= Total(f, S)
<1>1. /\ Total(f, S) = Total(f, S \ {x}) + f[x]
      /\ Total(f, S \ {x}) \in Nat
  BY TotalSplit
<1> QED BY <1>1

\* When one quantity changes, the sum changes by as much.
LEMMA TotalChange ==
    ASSUME NEW f, NEW g, NEW S, IsFiniteSet(S), NEW x \in S,
           \A y \in S : f[y] \in Nat /\ g[y] \in Nat,
           \A y \in S \ {x} : g[y] = f[y]
    PROVE  Total(g, S) = Total(f, S) - f[x] + g[x]
<1>1. Total(g, S \ {x}) = Total(f, S \ {x})
  BY TotalSame
<1>2. Total(g, S) = Total(g, S \ {x}) + g[x]
  BY TotalSplit
<1>3. Total(f, S) = Total(f, S \ {x}) + f[x] /\ Total(f, S \ {x}) \in Nat
  BY TotalSplit
<1> QED BY <1>1, <1>2, <1>3

\* Smaller quantities have a smaller sum.
LEMMA TotalMonotonic ==
    ASSUME NEW f, NEW g, NEW S, IsFiniteSet(S),
           \A x \in S : f[x] \in Nat /\ g[x] \in Nat /\ f[x] <= g[x]
    PROVE  Total(f, S) <= Total(g, S)
<1>1. UnitsIn(f, S) \subseteq UnitsIn(g, S)
  <2> SUFFICES ASSUME NEW u \in UnitsIn(f, S) PROVE u \in UnitsIn(g, S)
    OBVIOUS
  <2>1. PICK x \in S : \E i \in 1..f[x] : u = <<x, i>>
    BY UnitsMember
  <2>2. 1..f[x] \subseteq 1..g[x]
    OBVIOUS
  <2> QED BY <2>1, <2>2, UnitsMember
<1>2. IsFiniteSet(UnitsIn(g, S))
  BY UnitsFinite
<1> QED BY <1>1, <1>2, FS_Subset DEF Total

\* A sum of zeros is 0.
LEMMA TotalZero ==
    ASSUME NEW f, NEW S, IsFiniteSet(S), \A x \in S : f[x] = 0
    PROVE  Total(f, S) = 0
<1>1. UnitsIn(f, S) = {}
  BY UnitsMember
<1> QED BY <1>1, FS_EmptySet DEF Total

\* A sum over fewer elements is not larger.
LEMMA TotalSubset ==
    ASSUME NEW f, NEW S, NEW T, T \subseteq S, IsFiniteSet(S), \A x \in S : f[x] \in Nat
    PROVE  Total(f, T) <= Total(f, S)
<1>1. UnitsIn(f, T) \subseteq UnitsIn(f, S)
  BY DEF UnitsIn
<1>2. IsFiniteSet(UnitsIn(f, S))
  BY UnitsFinite
<1> QED BY <1>1, <1>2, FS_Subset DEF Total

\* Quantities that are 0 outside a set sum up to the sum over this set.
LEMMA TotalOfPart ==
    ASSUME NEW f, NEW g, NEW S, NEW T, T \subseteq S,
           \A x \in T : g[x] = f[x], \A x \in S \ T : g[x] = 0
    PROVE  Total(g, S) = Total(f, T)
<1>1. ASSUME NEW u \in UnitsIn(g, S) PROVE u \in UnitsIn(f, T)
  <2>1. PICK x \in S : \E i \in 1..g[x] : u = <<x, i>>
    BY UnitsMember
  <2>2. x \in T
    BY <2>1
  <2> QED BY <2>1, <2>2, UnitsMember
<1>2. ASSUME NEW u \in UnitsIn(f, T) PROVE u \in UnitsIn(g, S)
  BY UnitsMember
<1>3. UnitsIn(g, S) = UnitsIn(f, T)
  BY <1>1, <1>2
<1> QED BY <1>3 DEF Total

\* The sum of the sums of two quantities is the sum of both: the units of the
\* second are stacked on those of the first.
LEMMA TotalOfSum ==
    ASSUME NEW f, NEW g, NEW h, NEW S, IsFiniteSet(S),
           \A x \in S : f[x] \in Nat /\ g[x] \in Nat /\ h[x] = f[x] + g[x]
    PROVE  Total(h, S) = Total(f, S) + Total(g, S)
<1> DEFINE U == UnitsIn(g, S)
           V == UnitsIn(h, S) \ UnitsIn(f, S)
           up == [u \in U |-> <<u[1], f[u[1]] + u[2]>>]
<1>1. ASSUME NEW u \in U
      PROVE  u[1] \in S /\ u[2] \in 1..g[u[1]] /\ u = <<u[1], u[2]>>
  BY UnitsMember
<1>2. ASSUME NEW x \in S, NEW i \in Nat
      PROVE  <<x, i>> \in V <=> i \in (f[x] + 1)..(f[x] + g[x])
  <2>1. <<x, i>> \in UnitsIn(h, S) <=> i \in 1..h[x]
    BY UnitsMember
  <2>2. <<x, i>> \in UnitsIn(f, S) <=> i \in 1..f[x]
    BY UnitsMember
  <2> QED BY <2>1, <2>2
<1>3. up \in [U -> V]
  <2> SUFFICES ASSUME NEW u \in U PROVE <<u[1], f[u[1]] + u[2]>> \in V
    OBVIOUS
  <2> QED BY <1>1, <1>2
<1>4. ASSUME NEW u \in U, NEW v \in U, up[u] = up[v] PROVE u = v
  <2>1. u[1] = v[1] /\ f[u[1]] + u[2] = f[v[1]] + v[2]
    BY <1>4
  <2>2. u[2] = v[2]
    BY <1>1, <2>1
  <2> QED BY <1>1, <2>1, <2>2
<1>5. ASSUME NEW v \in V PROVE \E u \in U : up[u] = v
  <2>0. PICK x \in S : \E j \in 1..h[x] : v = <<x, j>>
    BY UnitsMember
  <2>1. PICK i \in 1..h[x] : v = <<x, i>>
    BY <2>0
  <2>2. i \in (f[x] + 1)..(f[x] + g[x])
    BY <1>2, <2>1
  <2>3. i - f[x] \in 1..g[x] /\ f[x] + (i - f[x]) = i
    BY <2>2
  <2>4. <<x, i - f[x]>> \in U
    BY <2>3, UnitsMember
  <2> QED BY <2>1, <2>3, <2>4
<1>6. ExistsBijection(U, V)
  <2> HIDE DEF up, U, V
  <2>1. \A u, v \in DOMAIN up : up[u] = up[v] => u = v
    BY <1>3, <1>4
  <2> QED BY <1>3, <1>5, <2>1 DEF ExistsBijection, Bijection, Injection, IsInjective, Surjection
<1>7. UnitsIn(f, S) \subseteq UnitsIn(h, S) /\ UnitsIn(h, S) = UnitsIn(f, S) \cup V
  <2> SUFFICES ASSUME NEW u \in UnitsIn(f, S) PROVE u \in UnitsIn(h, S)
    OBVIOUS
  <2>1. PICK x \in S : \E i \in 1..f[x] : u = <<x, i>>
    BY UnitsMember
  <2>2. 1..f[x] \subseteq 1..h[x]
    OBVIOUS
  <2> QED BY <2>1, <2>2, UnitsMember
<1>8. /\ IsFiniteSet(UnitsIn(f, S)) /\ IsFiniteSet(U)
      /\ Total(f, S) \in Nat /\ Total(g, S) \in Nat
  BY UnitsFinite
<1>9. IsFiniteSet(V) /\ Cardinality(V) = Cardinality(U)
  BY <1>6, <1>8, FS_Bijection
<1>10. Cardinality(UnitsIn(f, S) \cup V) =
         Cardinality(UnitsIn(f, S)) + Cardinality(V) - Cardinality(UnitsIn(f, S) \cap V)
  BY <1>8, <1>9, FS_Union
<1>11. UnitsIn(f, S) \cap V = {}
  OBVIOUS
<1>12. Cardinality(UnitsIn(h, S)) = Cardinality(UnitsIn(f, S)) + Cardinality(U) - 0
  BY <1>7, <1>9, <1>10, <1>11, FS_EmptySet
<1> QED BY <1>8, <1>12 DEF Total

================================================================================
