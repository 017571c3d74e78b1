-------------------------- MODULE InductionLemmas --------------------------
(***************************************************************************)
(* Facts about numbers and finite sums that the proofs of several          *)
(* components rest on.  Each is an induction over the naturals.            *)
(***************************************************************************)
EXTENDS Integers, Functions, FiniteSetsExt,
        FiniteSetTheorems, WellFoundedInduction, TLAPS

\* A non-empty set of naturals has a least element.
LEMMA LeastNatural ==
  ASSUME NEW T \in SUBSET Nat, T # {}
  PROVE  Min(T) \in T /\ \A k \in T : Min(T) <= k
PROOF
  <1>1. PICK m \in T : \A k \in T : ~ (<<k, m>> \in OpToRel(<, Nat))
    BY WFMin, NatLessThanWellFounded, Zenon
  <1>2. \A k \in T : m <= k
    <2>1. \A k \in T : ~ (k < m)
      BY <1>1 DEF OpToRel
    <2>. QED  BY <2>1, SMT
  <1>. QED  BY <1>2 DEF Min

\* Induction for a set: the least number outside of S is neither 0 nor a
\* successor.
LEMMA SetInduction ==
  ASSUME NEW S, 0 \in S, \A n \in Nat : n \in S => n + 1 \in S
  PROVE  Nat \subseteq S
PROOF
  <1>. DEFINE T == Nat \ S
              m == Min(T)
  <1>. SUFFICES ASSUME T # {} PROVE FALSE
    OBVIOUS
  <1>1. m \in T /\ \A k \in T : m <= k
    BY LeastNatural
  <1>. HIDE DEF m
  <1>2. m # 0
    BY <1>1
  <1>3. m - 1 \in S /\ m - 1 \in Nat
    BY <1>1, <1>2
  <1>4. (m - 1) + 1 = m
    BY <1>1
  <1>. QED  BY <1>1, <1>3, <1>4

-----------------------------------------------------------------------------
\* Quotient and remainder.
LEMMA DivMod ==
  ASSUME NEW v \in Nat, NEW n \in Nat \ {0}
  PROVE  /\ v \div n \in Nat /\ v % n \in 0 .. n - 1
         /\ v = (v \div n) * n + (v % n)
PROOF
  OBVIOUS

\* The remainder by n * b is a digit to the base b before the remainder by n.
LEMMA NextDigit ==
  ASSUME NEW v \in Nat, NEW n \in Nat \ {0}, NEW b \in Nat \ {0}
  PROVE  /\ b * n \in Nat \ {0}
         /\ v % (b * n) = (v % n) + ((v \div n) % b) * n
PROOF
  <1>. DEFINE q == v \div n
              r == v % n
              p == q \div b
              d == q % b
  <1>1. q \in Nat /\ r \in 0 .. n - 1 /\ v = q * n + r
    BY DivMod
  <1>2. p \in Nat /\ d \in 0 .. b - 1 /\ q = p * b + d
    BY <1>1, DivMod
  <1>. HIDE DEF q, r, p, d
  <1>3. b * n \in Nat \ {0}
    OBVIOUS
  <1>4. v = p * (b * n) + (d * n + r)
    <2>1. q * n = (p * b) * n + d * n
      BY <1>2
    <2>2. (p * b) * n = p * (b * n)
      BY <1>2
    <2>. QED  BY <1>1, <1>2, <2>1, <2>2
  <1>5. d * n + r \in 0 .. (b * n) - 1
    <2>1. d * n + r \in Nat
      BY <1>1, <1>2
    <2>2. (d + 1) * n <= b * n
      <3>1. d + 1 \in Nat /\ d + 1 <= b
        BY <1>2
      <3>. QED  BY <3>1
    <2>3. (d + 1) * n = d * n + n
      BY <1>2
    <2>. QED  BY <1>1, <1>2, <1>3, <2>1, <2>2, <2>3
  <1>6. v % (b * n) = d * n + r
    <2>. DEFINE m == b * n
                s == d * n + r
    <2>1. m \in Nat \ {0} /\ s \in 0 .. m - 1 /\ v = p * m + s
      BY <1>3, <1>4, <1>5
    <2>. HIDE DEF m, s
    <2>2. v % m = s
      BY <1>2, <2>1
    <2>. QED  BY <2>2 DEF m, s
  <1>. QED  BY <1>1, <1>2, <1>3, <1>6 DEF q, r, d

-----------------------------------------------------------------------------
(***************************************************************************)
(* Finite sums.  SumFunctionOnSet takes its summands in an order that      *)
(* CHOOSE picks, set by set; the sum does not depend on it.                *)
(***************************************************************************)
Pick(T) == CHOOSE x \in T : TRUE

\* The equation that defines the sums of f over the subsets of S.
SumEquation(f, S, g) ==
  g = [T \in SUBSET S |-> IF T = {} THEN 0 ELSE f[Pick(T)] + g[T \ {Pick(T)}]]

\* It has a solution, and SumFunctionOnSet is one's value.
LEMMA SumIsDefined ==
  ASSUME NEW f, NEW S, IsFiniteSet(S)
  PROVE  \E g : SumEquation(f, S, g) /\ SumFunctionOnSet(f, S) = g[S]
PROOF
  <1>. DEFINE Step(g, T) == IF T = {} THEN 0 ELSE f[Pick(T)] + g[T \ {Pick(T)}]
              Small(n) == {T \in SUBSET S : Cardinality(T) <= n}
              Solved(n) == \E g : /\ g = [T \in SUBSET S |-> g[T]]
                                  /\ \A T \in Small(n) : g[T] = Step(g, T)
              Good == {n \in Nat : Solved(n)}
  <1>1. \A T \in SUBSET S : IsFiniteSet(T) /\ Cardinality(T) \in Nat
    BY FS_Subset, FS_CardinalityType
  <1>2. \A T \in SUBSET S : T # {} =>
          /\ T \ {Pick(T)} \in SUBSET S
          /\ Cardinality(T \ {Pick(T)}) = Cardinality(T) - 1
    BY <1>1, FS_RemoveElement DEF Pick
  <1>3. 0 \in Good
    <2>. DEFINE g == [T \in SUBSET S |-> 0]
    <2>1. \A T \in Small(0) : T = {}
      BY <1>1, FS_EmptySet
    <2>2. g = [T \in SUBSET S |-> g[T]] /\ \A T \in Small(0) : g[T] = Step(g, T)
      BY <2>1
    <2>. HIDE DEF g, Step, Small
    <2>. QED  BY <2>2
  <1>4. ASSUME NEW n \in Nat, n \in Good PROVE n + 1 \in Good
    <2>1. PICK g : /\ g = [T \in SUBSET S |-> g[T]]
                   /\ \A T \in Small(n) : g[T] = Step(g, T)
      BY <1>4
    <2>. DEFINE h == [T \in SUBSET S |-> Step(g, T)]
    <2>2. ASSUME NEW T \in Small(n + 1) PROVE h[T] = Step(h, T)
      <3>1. CASE T = {}
        BY <3>1
      <3>2. CASE T # {}
        <4>. DEFINE U == T \ {Pick(T)}
        <4>1. U \in Small(n)
          <5>1. /\ U \in SUBSET S /\ Cardinality(U) = Cardinality(T) - 1
                /\ Cardinality(T) \in Nat /\ Cardinality(T) <= n + 1
            BY <1>1, <1>2, <3>2
          <5>. QED  BY <5>1
        <4>2. h[U] = g[U]
          BY <2>1, <4>1
        <4>. QED  BY <3>2, <4>2
      <3>. QED  BY <3>1, <3>2
    <2>3. h = [T \in SUBSET S |-> h[T]]
      OBVIOUS
    <2>. HIDE DEF h, Step, Small
    <2>4. Solved(n + 1)
      BY <2>2, <2>3
    <2>. HIDE DEF Solved
    <2>. QED  BY <2>4
  <1>5. Cardinality(S) \in Good
    <2>. HIDE DEF Good
    <2>. QED  BY <1>1, <1>3, <1>4, SetInduction
  <1>6. PICK g : /\ g = [T \in SUBSET S |-> g[T]]
                 /\ \A T \in Small(Cardinality(S)) : g[T] = Step(g, T)
    BY <1>5
  <1>7. \A T \in SUBSET S : T \in Small(Cardinality(S))
    BY FS_Subset
  <1>8. g = [T \in SUBSET S |-> Step(g, T)]
    <2>1. \A T \in SUBSET S : g[T] = Step(g, T)
      BY <1>6, <1>7
    <2>. HIDE DEF Step, Small
    <2>. QED  BY <1>6, <2>1
  <1>9. \E h : SumEquation(f, S, h)
    BY <1>8 DEF SumEquation
  <1>. DEFINE c == CHOOSE h : SumEquation(f, S, h)
  <1>10. SumEquation(f, S, c)
    BY <1>9
  <1>11. SumFunctionOnSet(f, S) = c[S]
    BY DEF SumFunctionOnSet, FoldFunctionOnSet, MapThenFoldSet, SumEquation, Pick
  <1>. QED  BY <1>10, <1>11

\* The solutions over two sets agree on their common subsets.
LEMMA SumIsUnique ==
  ASSUME NEW f, NEW S, IsFiniteSet(S), NEW V, NEW g, NEW h,
         SumEquation(f, S, g), SumEquation(f, V, h),
         NEW T \in SUBSET S, T \in SUBSET V
  PROVE  g[T] = h[T]
PROOF
  <1>. DEFINE Common(n) == {U \in SUBSET T : Cardinality(U) = n}
              Good == {n \in Nat : \A U \in Common(n) : g[U] = h[U]}
  <1>1. \A U \in SUBSET T : IsFiniteSet(U) /\ Cardinality(U) \in Nat
    BY FS_Subset, FS_CardinalityType
  <1>2. 0 \in Good
    BY <1>1, FS_EmptySet DEF SumEquation
  <1>3. ASSUME NEW n \in Nat, n \in Good PROVE n + 1 \in Good
    <2>1. ASSUME NEW U \in Common(n + 1) PROVE g[U] = h[U]
      <3>. DEFINE W == U \ {Pick(U)}
      <3>1. U # {} /\ Pick(U) \in U
        BY <1>1, FS_EmptySet DEF Pick
      <3>2. W \in Common(n)
        <4>1. Cardinality(W) = Cardinality(U) - 1
          BY <1>1, <3>1, FS_RemoveElement
        <4>. QED  BY <4>1
      <3>3. g[W] = h[W]
        BY <1>3, <3>2
      <3>. QED  BY <3>1, <3>3 DEF SumEquation
    <2>. QED  BY <2>1
  <1>4. Nat \subseteq Good
    <2>. HIDE DEF Good
    <2>. QED  BY <1>2, <1>3, SetInduction
  <1>. QED  BY <1>1, <1>4

\* A sum takes one summand after another.
LEMMA SumSteps ==
  ASSUME NEW f, NEW S, IsFiniteSet(S)
  PROVE  /\ S = {} => SumFunctionOnSet(f, S) = 0
         /\ S # {} => /\ Pick(S) \in S
                      /\ SumFunctionOnSet(f, S) =
                           f[Pick(S)] + SumFunctionOnSet(f, S \ {Pick(S)})
PROOF
  <1>. DEFINE R == S \ {Pick(S)}
  <1>1. PICK g : SumEquation(f, S, g) /\ SumFunctionOnSet(f, S) = g[S]
    BY SumIsDefined
  <1>2. PICK h : SumEquation(f, R, h) /\ SumFunctionOnSet(f, R) = h[R]
    <2>1. IsFiniteSet(R)
      BY FS_Subset
    <2>. QED  BY <2>1, SumIsDefined
  <1>3. g[R] = h[R]
    BY <1>1, <1>2, SumIsUnique
  <1>4. S # {} => Pick(S) \in S
    BY DEF Pick
  <1>5. g[S] = IF S = {} THEN 0 ELSE f[Pick(S)] + g[R]
    BY <1>1 DEF SumEquation
  <1>. QED  BY <1>1, <1>2, <1>3, <1>4, <1>5

\* A sum of integers is an integer.
LEMMA SumIsInt ==
  ASSUME NEW f, NEW S, IsFiniteSet(S), \A x \in S : f[x] \in Int
  PROVE  SumFunctionOnSet(f, S) \in Int
PROOF
  <1>. DEFINE Total(T) == SumFunctionOnSet(f, T)
              Sub(n) == {T \in SUBSET S : Cardinality(T) = n}
              Fine(n) == \A T \in Sub(n) : Total(T) \in Int
              Good == {n \in Nat : Fine(n)}
  <1>1. \A T \in SUBSET S : IsFiniteSet(T) /\ Cardinality(T) \in Nat
    BY FS_Subset, FS_CardinalityType
  <1>2. Fine(0)
    <2>1. \A T \in Sub(0) : T = {}
      BY <1>1, FS_EmptySet
    <2>2. Total({}) = 0
      BY FS_EmptySet, SumSteps
    <2>. QED  BY <2>1, <2>2
  <1>3. ASSUME NEW n \in Nat, Fine(n) PROVE Fine(n + 1)
    <2>. SUFFICES ASSUME NEW T \in Sub(n + 1) PROVE Total(T) \in Int
      OBVIOUS
    <2>. DEFINE y == Pick(T)
    <2>1. T # {} /\ T \in SUBSET S
      BY FS_EmptySet
    <2>2. y \in T /\ Total(T) = f[y] + Total(T \ {y})
      BY <1>1, <2>1, SumSteps
    <2>3. T \ {y} \in Sub(n)
      <3>1. Cardinality(T \ {y}) = Cardinality(T) - 1
        BY <1>1, <2>2, FS_RemoveElement
      <3>. QED  BY <3>1
    <2>. HIDE DEF Sub, y
    <2>4. Total(T \ {y}) \in Int /\ f[y] \in Int
      BY <1>3, <2>1, <2>2, <2>3
    <2>. QED  BY <2>2, <2>4
  <1>4. Nat \subseteq Good
    <2>. HIDE DEF Fine
    <2>1. 0 \in Good /\ \A n \in Nat : n \in Good => n + 1 \in Good
      BY <1>2, <1>3
    <2>. HIDE DEF Good
    <2>. QED  BY <2>1, SetInduction
  <1>5. S \in Sub(Cardinality(S)) /\ Cardinality(S) \in Nat
    BY <1>1
  <1>6. Fine(Cardinality(S))
    <2>. HIDE DEF Fine
    <2>. QED  BY <1>4, <1>5
  <1>. QED  BY <1>5, <1>6

\* Any summand may be taken first.
LEMMA SumRemove ==
  ASSUME NEW f, NEW S, IsFiniteSet(S), \A x \in S : f[x] \in Int, NEW z \in S
  PROVE  SumFunctionOnSet(f, S) = f[z] + SumFunctionOnSet(f, S \ {z})
PROOF
  <1>. DEFINE Total(T) == SumFunctionOnSet(f, T)
              Sub(n) == {T \in SUBSET S : Cardinality(T) = n}
              Fine(n) == \A T \in Sub(n) : \A x \in T : Total(T) = f[x] + Total(T \ {x})
              Good == {n \in Nat : Fine(n)}
  <1>1. \A T \in SUBSET S : IsFiniteSet(T) /\ Cardinality(T) \in Nat
    BY FS_Subset, FS_CardinalityType
  <1>2. \A T \in SUBSET S : Total(T) \in Int
    BY <1>1, SumIsInt
  <1>3. Fine(0)
    BY <1>1, FS_EmptySet
  <1>4. ASSUME NEW n \in Nat, Fine(n) PROVE Fine(n + 1)
    <2>. SUFFICES ASSUME NEW T \in Sub(n + 1), NEW x \in T
                  PROVE  Total(T) = f[x] + Total(T \ {x})
      OBVIOUS
    <2>. DEFINE y == Pick(T)
    <2>1. y \in T /\ Total(T) = f[y] + Total(T \ {y})
      BY <1>1, SumSteps
    <2>2. \A u \in T : T \ {u} \in Sub(n)
      <3>. TAKE u \in T
      <3>1. Cardinality(T \ {u}) = Cardinality(T) - 1
        BY <1>1, FS_RemoveElement
      <3>. QED  BY <3>1
    <2>3. /\ f[x] \in Int /\ f[y] \in Int
          /\ Total((T \ {x}) \ {y}) \in Int
      BY <1>2, <2>1
    <2>. HIDE DEF y, Sub
    <2>4. CASE x # y
      <3>. DEFINE U == T \ {x}
                  V == T \ {y}
                  W == U \ {y}
      <3>1. W = V \ {x}
        OBVIOUS
      <3>2. Total(V) = f[x] + Total(V \ {x})
        BY <1>4, <2>1, <2>2, <2>4
      <3>3. Total(U) = f[y] + Total(W)
        BY <1>4, <2>1, <2>2, <2>4
      <3>4. Total(T) = f[y] + Total(V) /\ Total(W) \in Int
        BY <2>1, <2>3
      <3>. HIDE DEF U, V, W
      <3>5. Total(T) = f[x] + Total(U)
        BY <2>3, <3>1, <3>2, <3>3, <3>4
      <3>. QED  BY <3>5 DEF U
    <2>. QED  BY <2>1, <2>4
  <1>5. Nat \subseteq Good
    <2>. HIDE DEF Fine
    <2>1. 0 \in Good /\ \A n \in Nat : n \in Good => n + 1 \in Good
      BY <1>3, <1>4
    <2>. HIDE DEF Good
    <2>. QED  BY <2>1, SetInduction
  <1>6. S \in Sub(Cardinality(S)) /\ Cardinality(S) \in Nat
    BY <1>1
  <1>7. Fine(Cardinality(S))
    <2>. HIDE DEF Fine
    <2>. QED  BY <1>5, <1>6
  <1>. QED  BY <1>6, <1>7

\* A sum grows with its summands.
LEMMA SumIsMonotonic ==
  ASSUME NEW f, NEW g, NEW S, IsFiniteSet(S),
         \A x \in S : f[x] \in Int /\ g[x] \in Int /\ f[x] <= g[x]
  PROVE  SumFunctionOnSet(f, S) <= SumFunctionOnSet(g, S)
PROOF
  <1>. DEFINE F(T) == SumFunctionOnSet(f, T)
              G(T) == SumFunctionOnSet(g, T)
              Sub(n) == {T \in SUBSET S : Cardinality(T) = n}
              Fine(n) == \A T \in Sub(n) : F(T) <= G(T)
              Good == {n \in Nat : Fine(n)}
  <1>1. \A T \in SUBSET S : IsFiniteSet(T) /\ Cardinality(T) \in Nat
    BY FS_Subset, FS_CardinalityType
  <1>2. \A T \in SUBSET S : F(T) \in Int /\ G(T) \in Int
    BY <1>1, SumIsInt
  <1>3. Fine(0)
    <2>1. \A T \in Sub(0) : T = {}
      BY <1>1, FS_EmptySet
    <2>2. F({}) = 0 /\ G({}) = 0
      BY FS_EmptySet, SumSteps
    <2>. QED  BY <2>1, <2>2
  <1>4. ASSUME NEW n \in Nat, Fine(n) PROVE Fine(n + 1)
    <2>. SUFFICES ASSUME NEW T \in Sub(n + 1) PROVE F(T) <= G(T)
      OBVIOUS
    <2>. DEFINE y == Pick(T)
    <2>1. T # {} /\ T \in SUBSET S
      BY FS_EmptySet
    <2>2. /\ y \in T /\ F(T) = f[y] + F(T \ {y})
          /\ G(T) = g[y] + G(T \ {y})
      BY <1>1, <2>1, SumSteps
    <2>3. T \ {y} \in Sub(n)
      <3>1. Cardinality(T \ {y}) = Cardinality(T) - 1
        BY <1>1, <2>2, FS_RemoveElement
      <3>. QED  BY <3>1
    <2>4. F(T \ {y}) \in Int /\ G(T \ {y}) \in Int
      BY <1>2
    <2>. HIDE DEF Sub, y
    <2>5. F(T \ {y}) <= G(T \ {y}) /\ f[y] \in Int /\ g[y] \in Int /\ f[y] <= g[y]
      BY <1>4, <2>1, <2>2, <2>3
    <2>. QED  BY <2>2, <2>4, <2>5
  <1>5. Nat \subseteq Good
    <2>. HIDE DEF Fine
    <2>1. 0 \in Good /\ \A n \in Nat : n \in Good => n + 1 \in Good
      BY <1>3, <1>4
    <2>. HIDE DEF Good
    <2>. QED  BY <2>1, SetInduction
  <1>6. S \in Sub(Cardinality(S)) /\ Cardinality(S) \in Nat
    BY <1>1
  <1>7. Fine(Cardinality(S))
    <2>. HIDE DEF Fine
    <2>. QED  BY <1>5, <1>6
  <1>. QED  BY <1>6, <1>7

\* It depends on the summands alone.
LEMMA SumIsEqual ==
  ASSUME NEW f, NEW g, NEW S, IsFiniteSet(S),
         \A x \in S : f[x] \in Int /\ f[x] = g[x]
  PROVE  SumFunctionOnSet(f, S) = SumFunctionOnSet(g, S)
PROOF
  <1>1. \A x \in S : /\ f[x] \in Int /\ g[x] \in Int
                     /\ f[x] <= g[x] /\ g[x] <= f[x]
    OBVIOUS
  <1>2. /\ SumFunctionOnSet(f, S) <= SumFunctionOnSet(g, S)
        /\ SumFunctionOnSet(g, S) <= SumFunctionOnSet(f, S)
    BY <1>1, SumIsMonotonic
  <1>3. SumFunctionOnSet(f, S) \in Int /\ SumFunctionOnSet(g, S) \in Int
    BY <1>1, SumIsInt
  <1>. QED  BY <1>2, <1>3

\* A new summand is added.
LEMMA SumAdd ==
  ASSUME NEW f, NEW S, IsFiniteSet(S), NEW z, z \notin S,
         \A x \in S \cup {z} : f[x] \in Int
  PROVE  SumFunctionOnSet(f, S \cup {z}) = f[z] + SumFunctionOnSet(f, S)
PROOF
  <1>. DEFINE T == S \cup {z}
  <1>1. IsFiniteSet(T)
    BY FS_AddElement
  <1>2. T \ {z} = S /\ z \in T
    OBVIOUS
  <1>. HIDE DEF T
  <1>3. SumFunctionOnSet(f, T) = f[z] + SumFunctionOnSet(f, T \ {z})
    <2>1. \A x \in T : f[x] \in Int
      BY DEF T
    <2>. QED  BY <1>1, <1>2, <2>1, SumRemove
  <1>. QED  BY <1>2, <1>3 DEF T

\* When one summand changes, so does the sum.
LEMMA SumChange ==
  ASSUME NEW f, NEW g, NEW S, IsFiniteSet(S), NEW z \in S,
         \A x \in S : f[x] \in Int /\ g[x] \in Int /\ (x # z => f[x] = g[x])
  PROVE  SumFunctionOnSet(g, S) = SumFunctionOnSet(f, S) + (g[z] - f[z])
PROOF
  <1>1. IsFiniteSet(S \ {z})
    BY FS_RemoveElement
  <1>2. SumFunctionOnSet(f, S \ {z}) = SumFunctionOnSet(g, S \ {z})
    <2>1. \A x \in S \ {z} : f[x] \in Int /\ f[x] = g[x]
      OBVIOUS
    <2>. QED  BY <1>1, <2>1, SumIsEqual
  <1>3. /\ SumFunctionOnSet(f, S) = f[z] + SumFunctionOnSet(f, S \ {z})
        /\ SumFunctionOnSet(g, S) = g[z] + SumFunctionOnSet(g, S \ {z})
    BY SumRemove
  <1>4. SumFunctionOnSet(f, S \ {z}) \in Int
    BY <1>1, SumIsInt
  <1>. QED  BY <1>2, <1>3, <1>4

\* A sum of naturals is a natural, and at least that over a subset.
LEMMA SumOfSubset ==
  ASSUME NEW f, NEW S, IsFiniteSet(S), \A x \in S : f[x] \in Nat,
         NEW R \in SUBSET S
  PROVE  /\ SumFunctionOnSet(f, S) \in Nat
         /\ SumFunctionOnSet(f, R) <= SumFunctionOnSet(f, S)
PROOF
  <1>. DEFINE Total(T) == SumFunctionOnSet(f, T)
              Sub(n) == {T \in SUBSET S : Cardinality(T) = n}
              Fine(n) == \A T \in Sub(n) : Total(T \cap R) <= Total(T) /\ Total(T) \in Nat
              Good == {n \in Nat : Fine(n)}
  <1>1. \A T \in SUBSET S : IsFiniteSet(T) /\ Cardinality(T) \in Nat
    BY FS_Subset, FS_CardinalityType
  <1>2. \A T \in SUBSET S : Total(T) \in Int
    BY <1>1, SumIsInt
  <1>3. Fine(0)
    <2>1. \A T \in Sub(0) : T = {} /\ T \cap R = {}
      BY <1>1, FS_EmptySet
    <2>2. Total({}) = 0
      BY FS_EmptySet, SumSteps
    <2>. QED  BY <2>1, <2>2
  <1>4. ASSUME NEW n \in Nat, Fine(n) PROVE Fine(n + 1)
    <2>. SUFFICES ASSUME NEW T \in Sub(n + 1)
                  PROVE  Total(T \cap R) <= Total(T) /\ Total(T) \in Nat
      OBVIOUS
    <2>. DEFINE y == Pick(T)
                U == T \ {y}
    <2>1. T # {} /\ T \in SUBSET S
      BY FS_EmptySet
    <2>2. y \in T /\ Total(T) = f[y] + Total(U)
      BY <1>1, <2>1, SumSteps
    <2>3. U \in Sub(n)
      <3>1. Cardinality(U) = Cardinality(T) - 1
        BY <1>1, <2>2, FS_RemoveElement
      <3>. QED  BY <3>1
    <2>4. /\ Total(U \cap R) <= Total(U) /\ Total(U) \in Nat
          /\ Total(U \cap R) \in Int /\ f[y] \in Nat
      BY <1>2, <1>4, <2>1, <2>2, <2>3
    <2>5. CASE y \in R
      <3>1. (T \cap R) \ {y} = U \cap R
        OBVIOUS
      <3>2. Total(T \cap R) = f[y] + Total((T \cap R) \ {y})
        <4>1. IsFiniteSet(T \cap R) /\ \A x \in T \cap R : f[x] \in Int
          BY <1>1, <2>1
        <4>. QED  BY <2>2, <2>5, <4>1, SumRemove
      <3>. QED  BY <2>2, <2>4, <3>1, <3>2
    <2>6. CASE y \notin R
      <3>1. T \cap R = U \cap R
        BY <2>6
      <3>2. Total(T \cap R) = Total(U \cap R)
        BY <3>1
      <3>. HIDE DEF U, y, Total
      <3>. QED  BY <2>2, <2>4, <3>2
    <2>. QED  BY <2>5, <2>6
  <1>5. Nat \subseteq Good
    <2>1. 0 \in Good
      BY <1>3
    <2>2. ASSUME NEW n \in Nat, n \in Good PROVE n + 1 \in Good
      <3>1. Fine(n + 1)
        BY <1>4, <2>2
      <3>. HIDE DEF Fine
      <3>. QED  BY <3>1
    <2>. HIDE DEF Good
    <2>. QED  BY <2>1, <2>2, SetInduction
  <1>6. S \in Sub(Cardinality(S)) /\ Cardinality(S) \in Nat /\ S \cap R = R
    BY <1>1
  <1>7. Fine(Cardinality(S))
    <2>. HIDE DEF Fine
    <2>. QED  BY <1>5, <1>6
  <1>. QED  BY <1>6, <1>7

\* A sum of nothing but zeros is zero.
LEMMA SumIsZero ==
  ASSUME NEW f, NEW S, IsFiniteSet(S), \A x \in S : f[x] = 0
  PROVE  SumFunctionOnSet(f, S) = 0
PROOF
  <1>. DEFINE Total(T) == SumFunctionOnSet(f, T)
              Sub(n) == {T \in SUBSET S : Cardinality(T) = n}
              Fine(n) == \A T \in Sub(n) : Total(T) = 0
              Good == {n \in Nat : Fine(n)}
  <1>1. \A T \in SUBSET S : IsFiniteSet(T) /\ Cardinality(T) \in Nat
    BY FS_Subset, FS_CardinalityType
  <1>2. Fine(0)
    <2>1. \A T \in Sub(0) : T = {}
      BY <1>1, FS_EmptySet
    <2>2. Total({}) = 0
      BY FS_EmptySet, SumSteps
    <2>. QED  BY <2>1, <2>2
  <1>3. ASSUME NEW n \in Nat, Fine(n) PROVE Fine(n + 1)
    <2>. SUFFICES ASSUME NEW T \in Sub(n + 1) PROVE Total(T) = 0
      OBVIOUS
    <2>. DEFINE y == Pick(T)
    <2>1. T # {} /\ T \in SUBSET S
      BY FS_EmptySet
    <2>2. y \in T /\ Total(T) = f[y] + Total(T \ {y})
      BY <1>1, <2>1, SumSteps
    <2>3. T \ {y} \in Sub(n)
      <3>1. Cardinality(T \ {y}) = Cardinality(T) - 1
        BY <1>1, <2>2, FS_RemoveElement
      <3>. QED  BY <3>1
    <2>. HIDE DEF Sub, y
    <2>4. Total(T \ {y}) = 0 /\ f[y] = 0
      BY <1>3, <2>1, <2>2, <2>3
    <2>. QED  BY <2>2, <2>4
  <1>4. Nat \subseteq Good
    <2>. HIDE DEF Fine
    <2>1. 0 \in Good /\ \A n \in Nat : n \in Good => n + 1 \in Good
      BY <1>2, <1>3
    <2>. HIDE DEF Good
    <2>. QED  BY <2>1, SetInduction
  <1>5. S \in Sub(Cardinality(S)) /\ Cardinality(S) \in Nat
    BY <1>1
  <1>6. Fine(Cardinality(S))
    <2>. HIDE DEF Fine
    <2>. QED  BY <1>4, <1>5
  <1>. QED  BY <1>5, <1>6
=============================================================================
