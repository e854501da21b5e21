------------------------------ MODULE FoldFacts ------------------------------
(***************************************************************************)
(* What a fold over a finite set computes.  The community modules define   *)
(* SumFunction by recursion over the subsets of the domain, each time with *)
(* an element CHOOSEn from what is left; that the recursion has a value,   *)
(* and one only, follows from the well-foundedness of the strict subset    *)
(* ordering, and then so do the laws of a sum.                             *)
(***************************************************************************)
EXTENDS Integers, FiniteSets, Functions, FiniteSetTheorems, WellFoundedInduction, TLAPS

\* A set of subsets of a finite set has a smallest one.
LEMMA SmallestSet ==
  ASSUME NEW S, IsFiniteSet(S), NEW B \in SUBSET (SUBSET S), B # {}
  PROVE  \E T \in B : \A U \in B : ~(U \subseteq T /\ U # T)
  <1>1. FiniteSubsetsOf(S) = SUBSET S
    BY FS_FiniteSubsetsOfFinite
  <1>2. IsWellFoundedOn(StrictSubsetOrdering(S), SUBSET S)
    BY <1>1, FS_StrictSubsetOrderingWellFounded
  <1>3. PICK T \in B : \A U \in B : ~ (<<U, T>> \in StrictSubsetOrdering(S))
    BY <1>2, WFMin
  <1>4. QED BY <1>3 DEF StrictSubsetOrdering

\* A step of a fold: from the element taken and the value so far to the next.
Steps(S, D) == [S \X D -> D]

\* An element of each subset that has one
Selectors(S)  == {c \in [(SUBSET S) \ {{}} -> S] : \A s \in DOMAIN c : c[s] \in s}

\* it is the fold of h from base, for every subset of S.
IsFold(it, S, base, h, c) ==
  \A s \in SUBSET S :
     it[s] = IF s = {} THEN base ELSE h[<<c[s], it[s \ {c[s]}]>>]

\* Two folds of the same elements agree where both are defined.
LEMMA FoldUnique ==
  ASSUME NEW S, IsFiniteSet(S), NEW T \in SUBSET S, NEW U \in SUBSET S,
         NEW c \in Selectors(S), NEW base, NEW h, NEW i, NEW j,
         IsFold(i, T, base, h, c), IsFold(j, U, base, h, c)
  PROVE  \A s \in (SUBSET T) \cap (SUBSET U) : i[s] = j[s]
  <1> DEFINE B == {s \in (SUBSET T) \cap (SUBSET U) : i[s] # j[s]}
  <1>1. SUFFICES ASSUME B # {} PROVE FALSE
    OBVIOUS
  <1>2. B \in SUBSET (SUBSET S)
    OBVIOUS
  <1>3. PICK s \in B : \A r \in B : ~(r \subseteq s /\ r # s)
    <2> HIDE DEF B
    <2> QED BY <1>1, <1>2, SmallestSet
  <1>4. s # {}
    BY DEF IsFold
  <1>5. c[s] \in s
    BY <1>4 DEF Selectors
  <1>6. i[s \ {c[s]}] = j[s \ {c[s]}]
    BY <1>3, <1>5
  <1>7. i[s] = j[s]
    BY <1>4, <1>5, <1>6 DEF IsFold
  <1>8. QED BY <1>7

\* The recursion of a fold has a value.
LEMMA FoldExists ==
  ASSUME NEW S, IsFiniteSet(S), NEW D, NEW base \in D, NEW h \in Steps(S, D),
         NEW c \in Selectors(S)
  PROVE  \E it \in [SUBSET S -> D] : IsFold(it, S, base, h, c)
  <1> DEFINE Good(T) == \E it \in [SUBSET T -> D] : IsFold(it, T, base, h, c)
             B == {T \in SUBSET S : ~ Good(T)}
  <1>1. SUFFICES ASSUME B # {} PROVE FALSE
    OBVIOUS
  <1>2. PICK T \in B : \A U \in B : ~(U \subseteq T /\ U # T)
    <2>1. B \in SUBSET (SUBSET S)
      OBVIOUS
    <2> HIDE DEF B
    <2> QED BY <1>1, <2>1, SmallestSet
  <1>0. T \in SUBSET S
    OBVIOUS
  <1>3. T # {}
    <2>1. SUFFICES ASSUME T = {} PROVE FALSE
      OBVIOUS
    <2>2. IsFold([s \in SUBSET T |-> base], T, base, h, c)
      BY <2>1 DEF IsFold
    <2>3. QED BY <2>2
  <1>4. c[T] \in T
    BY <1>3 DEF Selectors
  <1>5. \A U \in SUBSET T : U # T => Good(U)
    BY <1>2
  <1> DEFINE fold(U) == CHOOSE it \in [SUBSET U -> D] : IsFold(it, U, base, h, c)
             R == T \ {c[T]}
             last == h[<<c[T], fold(R)[R]>>]
             g == [s \in SUBSET T |-> IF s = T THEN last ELSE fold(s)[s]]
  <1>6. \A U \in SUBSET T : U # T => fold(U) \in [SUBSET U -> D] /\ IsFold(fold(U), U, base, h, c)
    BY <1>5
  <1> HIDE DEF fold, Good, B
  <1>7. R # T /\ R \in SUBSET T
    BY <1>4
  <1>8. \A s \in SUBSET T : s # T => fold(s)[s] \in D
    BY <1>6
  <1>9. last \in D
    BY <1>0, <1>4, <1>7, <1>8 DEF Steps
  <1>10. g \in [SUBSET T -> D]
    BY <1>8, <1>9
  <1>11. ASSUME NEW s \in SUBSET T
         PROVE  g[s] = IF s = {} THEN base ELSE h[<<c[s], g[s \ {c[s]}]>>]
    <2>1. CASE s = T
      BY <2>1, <1>3, <1>7
    <2>2. CASE s # T /\ s = {}
      <3>1. fold(s)[s] = base
        BY <2>2, <1>6 DEF IsFold
      <3>2. QED BY <2>2, <3>1
    <2>3. CASE s # T /\ s # {}
      <3> DEFINE r == s \ {c[s]}
      <3>1. c[s] \in s
        BY <1>0, <2>3 DEF Selectors
      <3>2. r \in SUBSET T /\ r # T /\ r \in SUBSET s
        BY <2>3
      <3>3. IsFold(fold(s), s, base, h, c) /\ IsFold(fold(r), r, base, h, c)
        BY <2>3, <3>2, <1>6
      <3>4. fold(s)[s] = h[<<c[s], fold(s)[r]>>]
        <4>1. s \in SUBSET s
          OBVIOUS
        <4>2. QED BY <4>1, <2>3, <3>3 DEF IsFold
      <3>5. fold(s)[r] = fold(r)[r]
        <4>1. r \in (SUBSET s) \cap (SUBSET r)
          BY <3>2
        <4>2. s \in SUBSET S /\ r \in SUBSET S
          BY <1>0, <3>2
        <4> HIDE DEF r
        <4>3. PICK i, j : i = fold(s) /\ j = fold(r)
          OBVIOUS
        <4>4. IsFold(i, s, base, h, c) /\ IsFold(j, r, base, h, c)
          BY <3>3, <4>3
        <4>5. \A x \in (SUBSET s) \cap (SUBSET r) : i[x] = j[x]
          BY <4>2, <4>4, FoldUnique
        <4>6. QED BY <4>1, <4>3, <4>5
      <3>6. g[s] = fold(s)[s]
        BY <2>3
      <3>7. g[r] = fold(r)[r]
        BY <3>2
      <3> HIDE DEF g
      <3>8. QED BY <2>3, <3>4, <3>5, <3>6, <3>7
    <2>4. QED BY <2>1, <2>2, <2>3
  <1>12. IsFold(g, T, base, h, c)
    BY <1>11 DEF IsFold
  <1>13. QED
    <2>1. Good(T)
      BY <1>10, <1>12 DEF Good
    <2>2. QED BY <2>1 DEF B

------------------------------------------------------------------------------
\* Sums

\* it has the sum of f over every subset of S.
IsSum(it, f, S) ==
  /\ DOMAIN it = SUBSET S
  /\ \A s \in SUBSET S :
       it[s] = IF s = {} THEN 0
               ELSE f[CHOOSE x \in s : TRUE] + it[s \ {CHOOSE x \in s : TRUE}]

\* SumFunction is such a fold.
LEMMA SumIs ==
  ASSUME NEW S, IsFiniteSet(S), NEW f \in [S -> Int]
  PROVE  \E it \in [SUBSET S -> Int] : SumFunction(f) = it[S] /\ IsSum(it, f, S)
  <1> DEFINE Sums(it) == it = [s \in SUBSET S |->
                                 IF s = {} THEN 0
                                 ELSE f[CHOOSE x \in s : TRUE] + it[s \ {CHOOSE x \in s : TRUE}]]
             c == [s \in (SUBSET S) \ {{}} |-> CHOOSE x \in s : TRUE]
             h == [x \in S \X Int |-> f[x[1]] + x[2]]
  <1>1. SumFunction(f) = (CHOOSE it : Sums(it))[S]
    BY DEF SumFunction, SumFunctionOnSet, FoldFunctionOnSet, MapThenFoldSet
  <1>2. c \in Selectors(S)
    BY DEF Selectors
  <1>3. h \in Steps(S, Int)
    BY DEF Steps
  <1>4. PICK it \in [SUBSET S -> Int] : IsFold(it, S, 0, h, c)
    <2> HIDE DEF h, c
    <2> QED BY <1>2, <1>3, FoldExists, 0 \in Int
  <1>5. ASSUME NEW s \in SUBSET S
        PROVE  it[s] = IF s = {} THEN 0
                       ELSE f[CHOOSE x \in s : TRUE] + it[s \ {CHOOSE x \in s : TRUE}]
    <2>1. CASE s = {}
      BY <2>1, <1>4 DEF IsFold
    <2>2. CASE s # {}
      <3>1. c[s] = (CHOOSE x \in s : TRUE) /\ c[s] \in S
        BY <2>2
      <3> HIDE DEF c
      <3>2. it[s] = h[<<c[s], it[s \ {c[s]}]>>]
        BY <2>2, <1>4 DEF IsFold
      <3>3. it[s \ {c[s]}] \in Int
        BY <1>4
      <3>4. h[<<c[s], it[s \ {c[s]}]>>] = f[c[s]] + it[s \ {c[s]}]
        BY <3>1, <3>3
      <3>5. QED BY <2>2, <3>1, <3>2, <3>4
    <2>3. QED BY <2>1, <2>2
  <1>6. Sums(it)
    BY <1>4, <1>5
  <1> DEFINE sums == CHOOSE i : Sums(i)
  <1>7. Sums(sums)
    BY <1>6
  <1> HIDE DEF sums
  <1>8. IsSum(sums, f, S)
    BY <1>7 DEF IsSum
  <1>9. sums \in [SUBSET S -> Int]
    <2> DEFINE B == {s \in SUBSET S : sums[s] \notin Int}
    <2>1. SUFFICES ASSUME B # {} PROVE FALSE
      BY <1>7
    <2>2. PICK s \in B : \A r \in B : ~(r \subseteq s /\ r # s)
      <3>1. B \in SUBSET (SUBSET S)
        OBVIOUS
      <3> HIDE DEF B
      <3> QED BY <2>1, <3>1, SmallestSet
    <2>3. s # {}
      BY <1>8 DEF IsSum
    <2> DEFINE y == CHOOSE x \in s : TRUE
    <2>4. y \in s
      BY <2>3
    <2>5. sums[s \ {y}] \in Int
      BY <2>2, <2>4
    <2>6. sums[s] = f[y] + sums[s \ {y}]
      BY <2>3, <1>8 DEF IsSum
    <2>7. QED BY <2>4, <2>5, <2>6
  <1>10. SumFunction(f) = sums[S]
    BY <1>1 DEF sums
  <1>11. QED BY <1>8, <1>9, <1>10

\* Where f changes at t only, the sum changes by as much.
LEMMA SumChange ==
  ASSUME NEW S, IsFiniteSet(S), NEW f \in [S -> Int], NEW g \in [S -> Int], NEW t \in S,
         \A u \in S : u # t => g[u] = f[u]
  PROVE  SumFunction(g) = SumFunction(f) + g[t] - f[t]
  <1>1. PICK i \in [SUBSET S -> Int] : SumFunction(f) = i[S] /\ IsSum(i, f, S)
    BY SumIs
  <1>2. PICK j \in [SUBSET S -> Int] : SumFunction(g) = j[S] /\ IsSum(j, g, S)
    BY SumIs
  <1> DEFINE Diff(s) == IF t \in s THEN g[t] - f[t] ELSE 0
             B == {s \in SUBSET S : j[s] # i[s] + Diff(s)}
  <1>3. ASSUME B # {} PROVE FALSE
    <2>1. PICK s \in B : \A r \in B : ~(r \subseteq s /\ r # s)
      <3>1. B \in SUBSET (SUBSET S)
        OBVIOUS
      <3> HIDE DEF B
      <3> QED BY <1>3, <3>1, SmallestSet
    <2>2. s # {}
      <3>1. i[{}] = 0 /\ j[{}] = 0 /\ Diff({}) = 0
        BY <1>1, <1>2 DEF IsSum
      <3>2. {} \notin B
        BY <3>1
      <3>3. QED BY <3>2
    <2> DEFINE y == CHOOSE x \in s : TRUE
    <2>3. y \in s
      BY <2>2
    <2>4. j[s \ {y}] = i[s \ {y}] + Diff(s \ {y})
      BY <2>1, <2>3
    <2>5. i[s] = f[y] + i[s \ {y}] /\ j[s] = g[y] + j[s \ {y}]
      BY <2>2, <1>1, <1>2 DEF IsSum
    <2>6. i[s \ {y}] \in Int
      OBVIOUS
    <2> HIDE DEF y
    <2>7. CASE y = t
      BY <2>3, <2>4, <2>5, <2>6, <2>7
    <2>8. CASE y # t
      BY <2>3, <2>4, <2>5, <2>6, <2>8
    <2>9. QED BY <2>7, <2>8
  <1>4. j[S] = i[S] + Diff(S)
    BY <1>3
  <1>5. i[S] \in Int
    OBVIOUS
  <1>6. QED BY <1>1, <1>2, <1>4, <1>5

\* The sum of natural numbers is a natural number.
LEMMA SumIsNatural ==
  ASSUME NEW S, IsFiniteSet(S), NEW f \in [S -> Nat]
  PROVE  SumFunction(f) \in Nat
  <1>1. PICK i \in [SUBSET S -> Int] : SumFunction(f) = i[S] /\ IsSum(i, f, S)
    <2>1. f \in [S -> Int]
      OBVIOUS
    <2>2. QED BY <2>1, SumIs
  <1> DEFINE B == {s \in SUBSET S : i[s] \notin Nat}
  <1>2. ASSUME B # {} PROVE FALSE
    <2>1. PICK s \in B : \A r \in B : ~(r \subseteq s /\ r # s)
      <3>1. B \in SUBSET (SUBSET S)
        OBVIOUS
      <3> HIDE DEF B
      <3> QED BY <1>2, <3>1, SmallestSet
    <2>2. s # {}
      <3>1. i[{}] = 0
        BY <1>1 DEF IsSum
      <3>2. QED BY <3>1
    <2> DEFINE y == CHOOSE x \in s : TRUE
    <2>3. y \in s
      BY <2>2
    <2>4. i[s \ {y}] \in Nat
      BY <2>1, <2>3
    <2>5. i[s] = f[y] + i[s \ {y}]
      BY <2>2, <1>1 DEF IsSum
    <2>6. QED BY <2>3, <2>4, <2>5
  <1>3. QED BY <1>1, <1>2

\* The sum of numbers none of which is greater than k is not greater than k times
\* as many as there are.
LEMMA SumBound ==
  ASSUME NEW S, IsFiniteSet(S), NEW k \in Nat, NEW f \in [S -> 0 .. k]
  PROVE  SumFunction(f) \in Nat /\ SumFunction(f) <= k * Cardinality(S)
  <1>1. PICK i \in [SUBSET S -> Int] : SumFunction(f) = i[S] /\ IsSum(i, f, S)
    <2>1. f \in [S -> Int]
      OBVIOUS
    <2>2. QED BY <2>1, SumIs
  <1>2. \A s \in SUBSET S : IsFiniteSet(s) /\ Cardinality(s) \in Nat
    BY FS_Subset, FS_CardinalityType
  <1> DEFINE B == {s \in SUBSET S : ~(0 <= i[s] /\ i[s] <= k * Cardinality(s))}
  <1>3. ASSUME B # {} PROVE FALSE
    <2>1. PICK s \in B : \A r \in B : ~(r \subseteq s /\ r # s)
      <3>1. B \in SUBSET (SUBSET S)
        OBVIOUS
      <3> HIDE DEF B
      <3> QED BY <1>3, <3>1, SmallestSet
    <2>2. s # {}
      <3>1. i[{}] = 0
        BY <1>1 DEF IsSum
      <3>2. Cardinality({}) = 0
        BY FS_EmptySet
      <3>3. {} \notin B
        BY <3>1, <3>2
      <3>4. QED BY <3>3
    <2> DEFINE y == CHOOSE x \in s : TRUE
               r == s \ {y}
    <2>3. y \in s
      BY <2>2
    <2>4. 0 <= i[r] /\ i[r] <= k * Cardinality(r)
      BY <2>1, <2>3
    <2>5. i[s] = f[y] + i[r]
      BY <2>2, <1>1 DEF IsSum
    <2>6. i[r] \in Int /\ f[y] \in 0 .. k
      BY <2>3
    <2>7. Cardinality(r) = Cardinality(s) - 1 /\ Cardinality(s) \in Nat /\ Cardinality(r) \in Nat
      BY <2>3, <1>2, FS_RemoveElement
    <2>8. k * Cardinality(s) = k * Cardinality(r) + k
      <3> DEFINE m == Cardinality(r)
      <3>1. Cardinality(s) = m + 1 /\ m \in Nat
        BY <2>7
      <3> HIDE DEF m
      <3>2. k * (m + 1) = k * m + k
        BY <3>1
      <3>3. QED BY <3>1, <3>2 DEF m
    <2>9. 0 <= i[s] /\ i[s] <= k * Cardinality(s)
      <3> DEFINE p == k * Cardinality(r)
                 q == k * Cardinality(s)
      <3>1. p \in Int
        BY <2>7
      <3>2. q = p + k /\ i[r] <= p
        BY <2>8, <2>4
      <3> HIDE DEF p, y, r, q
      <3>3. 0 <= i[s] /\ i[s] <= q
        BY <2>4, <2>5, <2>6, <3>1, <3>2
      <3>4. QED BY <3>3 DEF q
    <2>10. QED BY <2>9
  <1>4. 0 <= i[S] /\ i[S] <= k * Cardinality(S)
    BY <1>3
  <1>5. QED BY <1>1, <1>4

\* What one or two of the numbers contribute.
LEMMA SumParts ==
  ASSUME NEW S, IsFiniteSet(S), NEW f \in [S -> Nat], NEW t \in S
  PROVE  /\ SumFunction(f) >= f[t]
         /\ \A u \in S : u # t => SumFunction(f) >= f[t] + f[u]
  <1> DEFINE g == [f EXCEPT ![t] = 0]
  <1>1. g \in [S -> Nat] /\ f \in [S -> Int] /\ g \in [S -> Int]
    OBVIOUS
  <1>2. SumFunction(g) = SumFunction(f) + g[t] - f[t]
    <2>1. \A u \in S : u # t => g[u] = f[u]
      OBVIOUS
    <2> HIDE DEF g
    <2>2. QED BY <1>1, <2>1, SumChange
  <1>3. SumFunction(f) \in Nat /\ SumFunction(g) \in Nat
    <2> HIDE DEF g
    <2> QED BY <1>1, SumIsNatural
  <1>4. g[t] = 0 /\ f[t] \in Nat
    OBVIOUS
  <1>5. SumFunction(f) >= f[t]
    BY <1>2, <1>3, <1>4
  <1>6. ASSUME NEW u \in S, u # t PROVE SumFunction(f) >= f[t] + f[u]
    <2> DEFINE e == [g EXCEPT ![u] = 0]
    <2>1. e \in [S -> Nat] /\ e \in [S -> Int]
      OBVIOUS
    <2>2. SumFunction(e) = SumFunction(g) + e[u] - g[u]
      <3>1. \A v \in S : v # u => e[v] = g[v]
        OBVIOUS
      <3> HIDE DEF e, g
      <3>2. QED BY <1>1, <2>1, <3>1, SumChange
    <2>3. SumFunction(e) \in Nat
      <3> HIDE DEF e
      <3> QED BY <2>1, SumIsNatural
    <2>4. e[u] = 0 /\ g[u] = f[u] /\ f[u] \in Nat
      BY <1>6
    <2>5. QED BY <1>2, <1>3, <1>4, <2>2, <2>3, <2>4
  <1>7. QED BY <1>5, <1>6

\* The sum is zero only if all are.
LEMMA SumZero ==
  ASSUME NEW S, IsFiniteSet(S), NEW f \in [S -> Nat]
  PROVE  SumFunction(f) = 0 <=> \A t \in S : f[t] = 0
  <1>1. ASSUME SumFunction(f) = 0, NEW t \in S PROVE f[t] = 0
    BY <1>1, SumParts
  <1>2. ASSUME \A t \in S : f[t] = 0 PROVE SumFunction(f) = 0
    <2>1. f \in [S -> 0 .. 0] /\ 0 \in Nat
      BY <1>2
    <2>2. SumFunction(f) \in Nat /\ SumFunction(f) <= 0 * Cardinality(S)
      BY <2>1, SumBound
    <2>3. 0 * Cardinality(S) = 0
      BY FS_CardinalityType
    <2>4. QED BY <2>2, <2>3
  <1>3. QED BY <1>1, <1>2
=============================================================================
