----------------------------- MODULE Sums_proofs -----------------------------
(***************************************************************************)
(* How a sum changes: the facts the proofs about ledgers rest on.          *)
(***************************************************************************)
EXTENDS Sums, FiniteSetTheorems, TLAPS

\* The units of one key.
LEMMA UnitsOfOne ==
    ASSUME NEW k, NEW n \in Nat
    PROVE  /\ IsFiniteSet({k} \X (1 .. n))
           /\ Cardinality({k} \X (1 .. n)) = n
<1>1. IsFiniteSet({k}) /\ Cardinality({k}) = 1
  BY FS_Singleton
<1>2. IsFiniteSet(1 .. n) /\ Cardinality(1 .. n) = n
  BY FS_Interval
<1>3. /\ IsFiniteSet({k} \X (1 .. n))
      /\ Cardinality({k} \X (1 .. n)) = Cardinality({k}) * Cardinality(1 .. n)
  BY <1>1, <1>2, FS_Product
<1> QED BY <1>1, <1>2, <1>3

\* Two disjoint finite sets.
LEMMA DisjointUnion ==
    ASSUME NEW S, NEW T, IsFiniteSet(S), IsFiniteSet(T), S \cap T = {}
    PROVE  /\ IsFiniteSet(S \cup T)
           /\ Cardinality(S \cup T) = Cardinality(S) + Cardinality(T)
<1>1. Cardinality(S) \in Nat /\ Cardinality(T) \in Nat
  BY FS_CardinalityType
<1>2. Cardinality(S \cap T) = 0
  BY FS_EmptySet
<1>3. /\ IsFiniteSet(S \cup T)
      /\ Cardinality(S \cup T) =
             Cardinality(S) + Cardinality(T) - Cardinality(S \cap T)
  BY FS_Union
<1> QED BY <1>1, <1>2, <1>3

\* Nothing but zeros has no unit.
LEMMA SumOfZeros ==
    ASSUME NEW f, \A k \in DOMAIN f : f[k] = 0
    PROVE  IsFiniteSet(UnitsOf(f)) /\ SumOf(f) = 0
<1>1. UnitsOf(f) = {}
  BY SMT DEF UnitsOf
<1> QED BY <1>1, FS_EmptySet DEF SumOf

\* A sum is a natural number, at least each of its amounts.
LEMMA SumOfType ==
    ASSUME NEW S, NEW f \in [S -> Nat], IsFiniteSet(UnitsOf(f))
    PROVE  /\ SumOf(f) \in Nat
           /\ \A k \in S : f[k] <= SumOf(f)
<1>1. SumOf(f) \in Nat
  BY FS_CardinalityType DEF SumOf
<1>2. ASSUME NEW k \in S PROVE f[k] <= SumOf(f)
  <2>1. {k} \X (1 .. f[k]) \subseteq UnitsOf(f)
    BY DEF UnitsOf
  <2>2. Cardinality({k} \X (1 .. f[k])) <= SumOf(f)
    BY <2>1, FS_Subset DEF SumOf
  <2> QED BY <2>2, UnitsOfOne
<1> QED BY <1>1, <1>2

\* When one amount changes, the sum changes by the difference.
LEMMA SumOfChange ==
    ASSUME NEW S, NEW f \in [S -> Nat], NEW g \in [S -> Nat], NEW k \in S,
           \A j \in S \ {k} : g[j] = f[j],
           IsFiniteSet(UnitsOf(f))
    PROVE  /\ IsFiniteSet(UnitsOf(g))
           /\ SumOf(g) + f[k] = SumOf(f) + g[k]
           /\ SumOf(f) >= f[k]
<1> DEFINE rest == UNION {{j} \X (1 .. f[j]) : j \in S \ {k}}
           old == {k} \X (1 .. f[k])
           new == {k} \X (1 .. g[k])
<1>1. UnitsOf(f) = rest \cup old
  BY DEF UnitsOf
<1>2. UnitsOf(g) = rest \cup new
  BY DEF UnitsOf
<1>3. rest \cap old = {} /\ rest \cap new = {}
  OBVIOUS
<1>4. rest \subseteq UnitsOf(f)
  BY <1>1
<1>5. /\ IsFiniteSet(old) /\ Cardinality(old) = f[k]
      /\ IsFiniteSet(new) /\ Cardinality(new) = g[k]
  BY UnitsOfOne
<1> HIDE DEF rest, old, new
<1>6. IsFiniteSet(rest) /\ Cardinality(rest) \in Nat
  BY <1>4, FS_Subset, FS_CardinalityType
<1>7. SumOf(f) = Cardinality(rest) + f[k]
  <2>1. Cardinality(rest \cup old) = Cardinality(rest) + Cardinality(old)
    BY <1>3, <1>5, <1>6, DisjointUnion
  <2> QED BY <1>1, <1>5, <2>1 DEF SumOf
<1>8. IsFiniteSet(UnitsOf(g)) /\ SumOf(g) = Cardinality(rest) + g[k]
  <2>1. /\ IsFiniteSet(rest \cup new)
        /\ Cardinality(rest \cup new) = Cardinality(rest) + Cardinality(new)
    BY <1>3, <1>5, <1>6, DisjointUnion
  <2> QED BY <1>2, <1>5, <2>1 DEF SumOf
<1> QED BY <1>6, <1>7, <1>8

\* The sum of a sequence that is longer by one amount.
LEMMA SumOfMore ==
    ASSUME NEW n \in Nat, NEW f \in [1 .. n -> Nat], NEW g \in [1 .. n + 1 -> Nat],
           \A i \in 1 .. n : g[i] = f[i],
           IsFiniteSet(UnitsOf(f))
    PROVE  /\ IsFiniteSet(UnitsOf(g))
           /\ SumOf(g) = SumOf(f) + g[n + 1]
<1> DEFINE more == {n + 1} \X (1 .. g[n + 1])
<1>1. UnitsOf(g) = UnitsOf(f) \cup more
  <2>1. 1 .. n + 1 = (1 .. n) \cup {n + 1}
    OBVIOUS
  <2>2. \A u : u \in UnitsOf(f) <=> \E k \in 1 .. n : u \in {k} \X (1 .. f[k])
    BY DEF UnitsOf
  <2>3. \A u : u \in UnitsOf(g) <=> \E k \in 1 .. n + 1 : u \in {k} \X (1 .. g[k])
    BY DEF UnitsOf
  <2>4. \A k \in 1 .. n : {k} \X (1 .. f[k]) = {k} \X (1 .. g[k])
    OBVIOUS
  <2>5. \A u : u \in UnitsOf(g) <=>
                   \/ \E k \in 1 .. n : u \in {k} \X (1 .. g[k])
                   \/ u \in more
    <3> HIDE DEF more
    <3>1. more = {n + 1} \X (1 .. g[n + 1])
      BY DEF more
    <3>2. \A k : k \in 1 .. n + 1 <=> k \in 1 .. n \/ k = n + 1
      BY <2>1
    <3> QED BY <2>3, <3>1, <3>2, Zenon
  <2>6. \A u : u \in UnitsOf(f) <=> \E k \in 1 .. n : u \in {k} \X (1 .. g[k])
    BY <2>2, <2>4, Zenon
  <2> HIDE DEF more
  <2> QED BY <2>5, <2>6
<1>2. UnitsOf(f) \cap more = {}
  BY DEF UnitsOf
<1>3. IsFiniteSet(more) /\ Cardinality(more) = g[n + 1]
  <2>1. g[n + 1] \in Nat
    OBVIOUS
  <2> QED BY <2>1, UnitsOfOne
<1> HIDE DEF more
<1>4. /\ IsFiniteSet(UnitsOf(f) \cup more)
      /\ Cardinality(UnitsOf(f) \cup more) = Cardinality(UnitsOf(f)) + Cardinality(more)
  BY <1>2, <1>3, DisjointUnion
<1> QED BY <1>1, <1>3, <1>4 DEF SumOf

\* When every amount is split in two, the sum is.
LEMMA SumOfSplit ==
    ASSUME NEW S, NEW f \in [S -> Nat], NEW g \in [S -> Nat], NEW h \in [S -> Nat],
           \A k \in S : f[k] = g[k] + h[k],
           IsFiniteSet(UnitsOf(f))
    PROVE  /\ IsFiniteSet(UnitsOf(g)) /\ IsFiniteSet(UnitsOf(h))
           /\ SumOf(g) \in Nat /\ SumOf(h) \in Nat
           /\ SumOf(f) = SumOf(g) + SumOf(h)
<1> DEFINE above == UNION {{k} \X (g[k] + 1 .. f[k]) : k \in S}
           down == [u \in above |-> <<u[1], u[2] - g[u[1]]>>]
<1>1. \A u : u \in UnitsOf(f) <=>
          \E k \in S, n \in Nat : u = <<k, n>> /\ 1 <= n /\ n <= f[k]
  BY DEF UnitsOf
<1>2. \A u : u \in UnitsOf(g) <=>
          \E k \in S, n \in Nat : u = <<k, n>> /\ 1 <= n /\ n <= g[k]
  BY DEF UnitsOf
<1>3. \A u : u \in UnitsOf(h) <=>
          \E k \in S, n \in Nat : u = <<k, n>> /\ 1 <= n /\ n <= h[k]
  BY DEF UnitsOf
<1>4. \A u : u \in above <=>
          \E k \in S, n \in Nat : u = <<k, n>> /\ g[k] + 1 <= n /\ n <= f[k]
  <2>1. ASSUME NEW k \in S
        PROVE  g[k] \in Nat /\ f[k] \in Nat
    OBVIOUS
  <2> QED BY <2>1
<1>5. ASSUME NEW u \in above
      PROVE  /\ u[1] \in S /\ u[2] \in Nat /\ u = <<u[1], u[2]>>
             /\ g[u[1]] + 1 <= u[2] /\ u[2] <= f[u[1]]
  BY <1>4
<1>6. ASSUME NEW u \in above
      PROVE  down[u] = <<u[1], u[2] - g[u[1]]>> /\ down[u] \in UnitsOf(h)
  <2>1. down[u] = <<u[1], u[2] - g[u[1]]>>
    OBVIOUS
  <2>2. /\ u[1] \in S /\ u[2] - g[u[1]] \in Nat
        /\ 1 <= u[2] - g[u[1]] /\ u[2] - g[u[1]] <= h[u[1]]
    BY <1>5
  <2> QED BY <2>1, <2>2, <1>3
<1>7. ASSUME NEW w \in UnitsOf(h)
      PROVE  \E u \in above : down[u] = w
  <2>1. PICK k \in S, n \in Nat : w = <<k, n>> /\ 1 <= n /\ n <= h[k]
    BY <1>3
  <2>2. /\ n + g[k] \in Nat /\ g[k] + 1 <= n + g[k] /\ n + g[k] <= f[k]
        /\ (n + g[k]) - g[k] = n
    BY <2>1
  <2>3. <<k, n + g[k]>> \in above
    BY <2>2, <1>4
  <2>4. down[<<k, n + g[k]>>] = <<k, n>>
    BY <2>2, <2>3
  <2> QED BY <2>1, <2>3, <2>4
<1>8. ASSUME NEW u \in above, NEW w \in above, down[u] = down[w]
      PROVE  u = w
  <2>1. u[1] = w[1] /\ u[2] - g[u[1]] = w[2] - g[w[1]]
    BY <1>6, <1>8
  <2>2. /\ g[u[1]] \in Nat /\ u[2] \in Nat /\ w[2] \in Nat
        /\ u = <<u[1], u[2]>> /\ w = <<w[1], w[2]>>
    BY <1>5
  <2>3. u[2] - g[u[1]] = w[2] - g[u[1]]
    BY <2>1
  <2>4. u[2] = w[2]
    <3>1. \A a, b, c \in Nat : a - c = b - c => a = b
      OBVIOUS
    <3> HIDE DEF above, down
    <3> QED BY <2>2, <2>3, <3>1
  <2>5. <<u[1], u[2]>> = <<w[1], w[2]>>
    BY <2>1, <2>4
  <2> QED BY <2>2, <2>5
<1>9. UnitsOf(f) = UnitsOf(g) \cup above /\ UnitsOf(g) \cap above = {}
  <2>1. ASSUME NEW u \in UnitsOf(f) PROVE u \in UnitsOf(g) \cup above
    <3>1. PICK k \in S, n \in Nat : u = <<k, n>> /\ 1 <= n /\ n <= f[k]
      BY <1>1
    <3>2. CASE n <= g[k]
      BY <3>1, <3>2, <1>2
    <3>3. CASE g[k] + 1 <= n
      BY <3>1, <3>3, <1>4
    <3>4. g[k] \in Nat
      OBVIOUS
    <3> QED BY <3>2, <3>3, <3>4
  <2>2. ASSUME NEW u \in UnitsOf(g) PROVE u \in UnitsOf(f)
    <3>1. PICK k \in S, n \in Nat : u = <<k, n>> /\ 1 <= n /\ n <= g[k]
      BY <1>2
    <3>2. n <= f[k]
      BY <3>1
    <3> QED BY <3>1, <3>2, <1>1
  <2>3. ASSUME NEW u \in above PROVE u \in UnitsOf(f) /\ u \notin UnitsOf(g)
    <3>1. PICK k \in S, n \in Nat : u = <<k, n>> /\ g[k] + 1 <= n /\ n <= f[k]
      BY <1>4
    <3>2. 1 <= n /\ ~(n <= g[k])
      BY <3>1
    <3> QED BY <3>1, <3>2, <1>1, <1>2
  <2> QED BY <2>1, <2>2, <2>3
<1>10. down \in Bijection(above, UnitsOf(h))
  <2>1. down \in [above -> UnitsOf(h)]
    BY <1>6
  <2> HIDE DEF down, above
  <2> QED BY <2>1, <1>7, <1>8 DEF Bijection, Injection, Surjection, IsInjective
<1> HIDE DEF down, above
<1>11. /\ IsFiniteSet(UnitsOf(g)) /\ IsFiniteSet(above)
  BY <1>9, FS_Subset
<1>12. IsFiniteSet(UnitsOf(h)) /\ Cardinality(UnitsOf(h)) = Cardinality(above)
  BY <1>10, <1>11, FS_Bijection DEF ExistsBijection
<1>13. Cardinality(UnitsOf(f)) = Cardinality(UnitsOf(g)) + Cardinality(above)
  BY <1>9, <1>11, DisjointUnion
<1> QED BY <1>11, <1>12, <1>13, FS_CardinalityType DEF SumOf

\* Zeros do not count: a function on a part of S has the sum of the one that
\* is zero outside of it.
LEMMA SumOfPart ==
    ASSUME NEW S, NEW T \in SUBSET S, NEW g, NEW h,
           DOMAIN g = T, DOMAIN h = S,
           \A k \in T : h[k] = g[k], \A k \in S \ T : h[k] = 0
    PROVE  UnitsOf(h) = UnitsOf(g) /\ SumOf(h) = SumOf(g)
<1>1. \A u : u \in UnitsOf(g) <=> \E k \in T : \E n \in 1 .. g[k] : u = <<k, n>>
  BY DEF UnitsOf
<1>2. \A u : u \in UnitsOf(h) <=> \E k \in S : \E n \in 1 .. h[k] : u = <<k, n>>
  BY DEF UnitsOf
<1>3. \A k \in S : \A n \in 1 .. h[k] : k \in T
  BY SMT
<1>4. UnitsOf(h) = UnitsOf(g)
  BY <1>1, <1>2, <1>3
<1> QED BY <1>4 DEF SumOf

\* Amounts of different keys add up.
LEMMA SumOfApart ==
    ASSUME NEW S, NEW f, NEW g, NEW h,
           DOMAIN f = S, DOMAIN g = S, DOMAIN h = S,
           \A k \in S : \/ f[k] = g[k] /\ h[k] = 0
                        \/ f[k] = h[k] /\ g[k] = 0,
           IsFiniteSet(UnitsOf(g)), IsFiniteSet(UnitsOf(h))
    PROVE  /\ IsFiniteSet(UnitsOf(f))
           /\ SumOf(f) = SumOf(g) + SumOf(h)
<1>1. \A u : u \in UnitsOf(f) <=> \E k \in S : \E n \in 1 .. f[k] : u = <<k, n>>
  BY DEF UnitsOf
<1>2. \A u : u \in UnitsOf(g) <=> \E k \in S : \E n \in 1 .. g[k] : u = <<k, n>>
  BY DEF UnitsOf
<1>3. \A u : u \in UnitsOf(h) <=> \E k \in S : \E n \in 1 .. h[k] : u = <<k, n>>
  BY DEF UnitsOf
<1>4. 1 .. 0 = {}
  BY SMT
<1>5. UnitsOf(f) = UnitsOf(g) \cup UnitsOf(h)
  BY <1>1, <1>2, <1>3, <1>4
<1>6. UnitsOf(g) \cap UnitsOf(h) = {}
  <2>1. \A k \in S : 1 .. g[k] = {} \/ 1 .. h[k] = {}
    BY <1>4
  <2> QED BY <1>2, <1>3, <2>1
<1> QED BY <1>5, <1>6, DisjointUnion DEF SumOf
=============================================================================
