--------------------------- MODULE Callout_proofs ---------------------------
(***************************************************************************)
(* Proofs about Callout: setting the time aside, every step keeps what is  *)
(* due in front of what is not, and while it is there the softclock is on  *)
(* its way to an entry that is due; setting the time breaks the first only *)
(* when something is due, and the second only when nothing is.             *)
(*                                                                         *)
(* First comes what the folds and the merge that the list operations are   *)
(* made of compute, then what each operation does to the order of a list.  *)
(***************************************************************************)
EXTENDS Callout, FoldFacts, SequenceTheorems

------------------------------------------------------------------------------
(* Folds along 1 .. n *)

\* A set of natural numbers that is not empty has a smallest one.
LEMMA Smallest ==
  ASSUME NEW B \in SUBSET Nat, B # {}
  PROVE  \E m \in B : \A k \in B : m <= k
  <1>1. PICK b \in B : TRUE
    OBVIOUS
  <1> DEFINE C == {k \in B : k <= b}
             T == {1 .. k : k \in C}
  <1>2. IsFiniteSet(1 .. b)
    BY FS_Interval
  <1>3. T \in SUBSET (SUBSET (1 .. b)) /\ T # {}
    <2>1. \A k \in C : 1 .. k \subseteq 1 .. b
      OBVIOUS
    <2>2. b \in C
      BY <1>1
    <2>3. QED BY <2>1, <2>2
  <1>4. PICK s \in T : \A r \in T : ~(r \subseteq s /\ r # s)
    <2>1. PICK I, U : I = 1 .. b /\ U = T
      OBVIOUS
    <2> HIDE DEF T, C
    <2>2. IsFiniteSet(I) /\ U \in SUBSET (SUBSET I) /\ U # {}
      BY <1>2, <1>3, <2>1
    <2>3. PICK s \in U : \A r \in U : ~(r \subseteq s /\ r # s)
      BY <2>2, SmallestSet
    <2>4. QED BY <2>1, <2>3
  <1>5. PICK m \in C : s = 1 .. m
    OBVIOUS
  <1>6. ASSUME NEW k \in B, k < m
        PROVE  FALSE
    <2>1. k \in C /\ 1 .. k \in T
      BY <1>5, <1>6
    <2>2. 1 .. k \subseteq 1 .. m /\ m \in 1 .. m /\ m \notin 1 .. k
      BY <1>5, <1>6
    <2>3. QED BY <1>4, <1>5, <2>1, <2>2
  <1>7. QED BY <1>5, <1>6

\* The last of 1 .. n is n.
LEMMA MaxOfInterval ==
  ASSUME NEW n \in Nat \ {0}
  PROVE  Max(1 .. n) = n /\ (1 .. n) \ {n} = 1 .. (n - 1)
  BY DEF Max

\* A set of some of 1 .. n has a last one.
LEMMA MaxOfSet ==
  ASSUME NEW n \in Nat, NEW s \in SUBSET (1 .. n), s # {}
  PROVE  Max(s) \in s
  <1> DEFINE B == {n - k : k \in s}
  <1>1. B \in SUBSET Nat /\ B # {}
    <2>1. \A k \in s : k \in Int /\ n - k \in Nat
      OBVIOUS
    <2>2. QED BY <2>1
  <1>2. PICK m \in B : \A k \in B : m <= k
    <2> HIDE DEF B
    <2> QED BY <1>1, Smallest
  <1>3. PICK x \in s : m = n - x
    OBVIOUS
  <1>4. \A y \in s : x >= y
    <2> TAKE y \in s
    <2>1. n - y \in B
      OBVIOUS
    <2>2. QED BY <1>2, <1>3, <2>1
  <1>5. QED BY <1>3, <1>4 DEF Max

\* What a fold over 1 .. n takes next.
Latest(n) == [s \in (SUBSET (1 .. n)) \ {{}} |-> Max(s)]

\* Such a fold takes 1, 2 and so on: its value at 1 .. i comes from i and from
\* its value at 1 .. i - 1.
LEMMA AlongIntervals ==
  ASSUME NEW n \in Nat, NEW base, NEW h, NEW it, IsFold(it, 1 .. n, base, h, Latest(n))
  PROVE  /\ it[1 .. 0] = base
         /\ \A i \in 1 .. n : it[1 .. i] = h[<<i, it[1 .. (i - 1)]>>]
  <1>1. it[1 .. 0] = base
    <2>1. 1 .. 0 = {}
      OBVIOUS
    <2>2. {} \in SUBSET (1 .. n)
      OBVIOUS
    <2>3. QED BY <2>1, <2>2 DEF IsFold
  <1>2. ASSUME NEW i \in 1 .. n
        PROVE  it[1 .. i] = h[<<i, it[1 .. (i - 1)]>>]
    <2>1. 1 .. i \in SUBSET (1 .. n) /\ 1 .. i # {}
      OBVIOUS
    <2>2. Latest(n)[1 .. i] = i
      BY <2>1, MaxOfInterval DEF Latest
    <2>3. (1 .. i) \ {i} = 1 .. (i - 1)
      BY MaxOfInterval
    <2>4. it[1 .. i] = h[<<Latest(n)[1 .. i], it[(1 .. i) \ {Latest(n)[1 .. i]}]>>]
      BY <2>1 DEF IsFold
    <2>5. QED BY <2>2, <2>3, <2>4
  <1>3. QED BY <1>1, <1>2, Zenon

\* it is the fold of h from base over 1 .. n, and it[1 .. i] its value at i.
GoesAlong(it, n, base, h) ==
  /\ IsFold(it, 1 .. n, base, h, Latest(n))
  /\ it[1 .. 0] = base
  /\ \A i \in 1 .. n : it[1 .. i] = h[<<i, it[1 .. (i - 1)]>>]

\* There is such a fold, of any step.
LEMMA FoldAlong ==
  ASSUME NEW n \in Nat, NEW D, NEW base \in D, NEW h \in Steps(1 .. n, D)
  PROVE  \E it \in [SUBSET (1 .. n) -> D] : GoesAlong(it, n, base, h)
  <1>1. Latest(n) \in Selectors(1 .. n)
    BY MaxOfSet DEF Latest, Selectors
  <1>2. IsFiniteSet(1 .. n)
    BY FS_Interval
  <1>3. PICK it \in [SUBSET (1 .. n) -> D] : IsFold(it, 1 .. n, base, h, Latest(n))
    BY <1>1, <1>2, FoldExists
  <1>4. QED BY <1>3, AlongIntervals DEF GoesAlong

\* What timeout subtracts on its way: Remainder as a function of the entries
\* passed.
LEMMA RemainderIs ==
  ASSUME NEW q \in Seq(Entries), NEW t \in Int, NEW n \in 0 .. Len(q)
  PROVE  \E r \in [0 .. n -> Int] :
           /\ r[0] = t /\ r[n] = Remainder(q, t, n)
           /\ \A i \in 1 .. n : r[i] = IF q[i].time > 0 THEN r[i - 1] - q[i].time ELSE r[i - 1]
  <1> DEFINE s == SubSeq(q, 1, n)
             IsIt(it) == it = [x \in SUBSET (DOMAIN s) |->
                                 IF x = {} THEN t
                                 ELSE IF s[Max(x)].time > 0
                                      THEN it[x \ {Max(x)}] - s[Max(x)].time
                                      ELSE it[x \ {Max(x)}]]
             h == [y \in (1 .. n) \X Int |->
                     IF q[y[1]].time > 0 THEN y[2] - q[y[1]].time ELSE y[2]]
  <1>0. n \in Nat /\ Len(q) \in Nat
    OBVIOUS
  <1>1. Remainder(q, t, n) = (CHOOSE it : IsIt(it))[DOMAIN s]
    BY DEF Remainder, FoldLeft, MapThenFoldSet
  <1>2. DOMAIN s = 1 .. n /\ \A i \in 1 .. n : s[i] = q[i] /\ q[i].time \in Int
    <2>1. Len(s) = n /\ DOMAIN s = 1 .. n /\ \A i \in 1 .. n : s[i] = q[i]
      OBVIOUS
    <2>2. \A i \in 1 .. n : q[i] \in Entries
      OBVIOUS
    <2>3. QED BY <2>1, <2>2 DEF Entries
  <1>3. h \in Steps(1 .. n, Int)
    BY <1>2 DEF Steps
  <1>10. PICK it \in [SUBSET (1 .. n) -> Int] : GoesAlong(it, n, t, h)
    <2> HIDE DEF h
    <2> QED BY <1>0, <1>3, FoldAlong
  <1>4. /\ IsFold(it, 1 .. n, t, h, Latest(n)) /\ it[1 .. 0] = t
        /\ \A i \in 1 .. n : it[1 .. i] = h[<<i, it[1 .. (i - 1)]>>]
    BY <1>10 DEF GoesAlong
  <1>5. IsIt(it)
    <2>1. ASSUME NEW x \in SUBSET (1 .. n), x # {}
          PROVE  it[x] = IF s[Max(x)].time > 0 THEN it[x \ {Max(x)}] - s[Max(x)].time
                         ELSE it[x \ {Max(x)}]
      <3>1. Max(x) \in 1 .. n /\ Latest(n)[x] = Max(x)
        BY <1>0, <2>1, MaxOfSet DEF Latest
      <3>2. it[x] = h[<<Max(x), it[x \ {Max(x)}]>>]
        BY <2>1, <3>1, <1>4 DEF IsFold
      <3>3. it[x \ {Max(x)}] \in Int
        BY <1>4
      <3>4. QED BY <1>2, <3>1, <3>2, <3>3
    <2>2. it[{}] = t
      BY <1>4 DEF IsFold
    <2>3. QED BY <1>2, <1>4, <2>1, <2>2
  <1> DEFINE iter == CHOOSE i : IsIt(i)
  <1>6. IsIt(iter)
    BY <1>5
  <1> HIDE DEF iter
  <1> DEFINE r == [i \in 0 .. n |-> it[1 .. i]]
  <1>7. /\ r[0] = t /\ r \in [0 .. n -> Int]
        /\ \A i \in 1 .. n : r[i] = IF q[i].time > 0 THEN r[i - 1] - q[i].time ELSE r[i - 1]
    <2>1. r[0] = t /\ r \in [0 .. n -> Int]
      BY <1>0, <1>4, <1>4
    <2>2. ASSUME NEW i \in 1 .. n
          PROVE  r[i] = IF q[i].time > 0 THEN r[i - 1] - q[i].time ELSE r[i - 1]
      <3>1. it[1 .. i] = h[<<i, it[1 .. (i - 1)]>>]
        BY <1>4
      <3>2. i - 1 \in 0 .. n /\ it[1 .. (i - 1)] \in Int
        BY <1>4
      <3>3. QED BY <3>1, <3>2
    <2>3. QED BY <2>1, <2>2
  <1>8. \A i \in 0 .. n : iter[1 .. i] = r[i]
    <2> DEFINE B == {i \in 0 .. n : iter[1 .. i] # r[i]}
    <2>1. SUFFICES ASSUME B # {} PROVE FALSE
      OBVIOUS
    <2>2. PICK m \in B : \A k \in B : m <= k
      <3>1. B \in SUBSET Nat
        OBVIOUS
      <3> HIDE DEF B
      <3>2. QED BY <2>1, <3>1, Smallest
    <2>3. m # 0
      <3>1. 1 .. 0 = {} /\ {} \in SUBSET (DOMAIN s)
        OBVIOUS
      <3>2. iter[1 .. 0] = t
        BY <1>6, <3>1
      <3>3. QED BY <3>2, <1>7
    <2>4. m \in 1 .. n /\ m - 1 \in 0 .. n /\ iter[1 .. (m - 1)] = r[m - 1]
      <3>1. m \in 1 .. n /\ m - 1 \in 0 .. n /\ ~(m <= m - 1)
        BY <1>0, <2>2, <2>3
      <3> HIDE DEF r, s
      <3>2. QED BY <2>2, <3>1
    <2>5. 1 .. m \in SUBSET (DOMAIN s) /\ 1 .. m # {}
      <3>1. m \in Nat /\ m <= n /\ m \in 1 .. m
        BY <1>0, <2>4
      <3>2. 1 .. m \subseteq 1 .. n
        BY <1>0, <3>1
      <3>3. QED BY <1>2, <3>1, <3>2
    <2>6. Max(1 .. m) = m /\ (1 .. m) \ {m} = 1 .. (m - 1)
      BY <2>4, MaxOfInterval
    <2>7. iter[1 .. m] = IF s[m].time > 0 THEN iter[1 .. (m - 1)] - s[m].time
                         ELSE iter[1 .. (m - 1)]
      BY <1>6, <2>5, <2>6
    <2>8. QED BY <1>2, <1>7, <2>4, <2>7
  <1>9. Remainder(q, t, n) = r[n]
    <2>1. Remainder(q, t, n) = iter[1 .. n]
      BY <1>1, <1>2 DEF iter
    <2> HIDE DEF r
    <2>2. n \in 0 .. n
      BY <1>0
    <2>3. QED BY <1>8, <2>1, <2>2
  <1>11. QED BY <1>7, <1>9

\* Each entry passed that is not due takes its time off.
LEMMA RemainderSteps ==
  ASSUME NEW q \in Seq(Entries), NEW t \in Int
  PROVE  /\ Remainder(q, t, 0) = t
         /\ \A n \in 0 .. Len(q) : Remainder(q, t, n) \in Int
         /\ \A n \in 1 .. Len(q) :
              Remainder(q, t, n) = IF q[n].time > 0 THEN Remainder(q, t, n - 1) - q[n].time
                                   ELSE Remainder(q, t, n - 1)
  <1>0. Len(q) \in Nat
    OBVIOUS
  <1>1. Remainder(q, t, 0) = t
    <2>1. 0 \in 0 .. Len(q)
      BY <1>0
    <2>2. QED BY <2>1, RemainderIs
  <1>2. ASSUME NEW n \in 0 .. Len(q)
        PROVE  Remainder(q, t, n) \in Int
    <2>1. n \in 0 .. n
      BY <1>0
    <2>2. QED BY <2>1, RemainderIs
  <1>3. ASSUME NEW n \in 1 .. Len(q)
        PROVE  Remainder(q, t, n) = IF q[n].time > 0 THEN Remainder(q, t, n - 1) - q[n].time
                                    ELSE Remainder(q, t, n - 1)
    <2>1. n \in 0 .. Len(q) /\ n - 1 \in 0 .. Len(q) /\ n \in Nat
      BY <1>0
    <2>2. PICK r \in [0 .. n -> Int] :
            /\ r[0] = t /\ r[n] = Remainder(q, t, n)
            /\ \A i \in 1 .. n : r[i] = IF q[i].time > 0 THEN r[i - 1] - q[i].time ELSE r[i - 1]
      BY <2>1, RemainderIs
    <2>3. PICK l \in [0 .. (n - 1) -> Int] :
            /\ l[0] = t /\ l[n - 1] = Remainder(q, t, n - 1)
            /\ \A i \in 1 .. (n - 1) :
                 l[i] = IF q[i].time > 0 THEN l[i - 1] - q[i].time ELSE l[i - 1]
      BY <2>1, RemainderIs
    <2>4. \A i \in 0 .. (n - 1) : l[i] = r[i]
      <3> DEFINE B == {i \in 0 .. (n - 1) : l[i] # r[i]}
      <3>1. SUFFICES ASSUME B # {} PROVE FALSE
        OBVIOUS
      <3>2. B \in SUBSET Nat
        OBVIOUS
      <3>3. PICK m \in B : \A k \in B : m <= k
        <4> HIDE DEF B
        <4> QED BY <3>1, <3>2, Smallest
      <3>4. m # 0
        BY <2>2, <2>3
      <3>5. m \in 1 .. (n - 1) /\ m \in 1 .. n /\ m - 1 \in 0 .. (n - 1) /\ ~(m <= m - 1)
        BY <2>1, <3>4
      <3>6. l[m - 1] = r[m - 1]
        BY <3>3, <3>5
      <3>7. QED BY <2>2, <2>3, <3>5, <3>6
    <2>5. n - 1 \in 0 .. (n - 1) /\ n \in 1 .. n
      BY <2>1
    <2>6. QED BY <2>2, <2>3, <2>4, <2>5
  <1>4. QED BY <1>1, <1>2, <1>3

\* The elements of a sequence after an insertion.
LEMMA InsertAtIs ==
  ASSUME NEW S, NEW s \in Seq(S), NEW k \in 1 .. Len(s) + 1, NEW e \in S
  PROVE  /\ InsertAt(s, k, e) \in Seq(S)
         /\ Len(InsertAt(s, k, e)) = Len(s) + 1
         /\ \A i \in 1 .. Len(s) + 1 :
              InsertAt(s, k, e)[i] = IF i < k THEN s[i] ELSE IF i = k THEN e ELSE s[i - 1]
  <1>0. Len(s) \in Nat
    OBVIOUS
  <1> DEFINE a == SubSeq(s, 1, k - 1)
             b == SubSeq(s, k, Len(s))
  <1>1. /\ a \in Seq(S) /\ Len(a) = k - 1
        /\ \A i \in 1 .. k - 1 : a[i] = s[i]
    BY <1>0
  <1>2. /\ b \in Seq(S) /\ Len(b) = Len(s) - k + 1
        /\ \A i \in 1 .. Len(s) - k + 1 : b[i] = s[k + i - 1]
    BY <1>0
  <1>3. InsertAt(s, k, e) = a \o <<e>> \o b
    BY DEF InsertAt
  <1> HIDE DEF a, b
  <1>4. PICK x : x = a \o <<e>>
    OBVIOUS
  <1>5. /\ x \in Seq(S) /\ Len(x) = k
        /\ \A i \in 1 .. k : x[i] = IF i < k THEN s[i] ELSE e
    BY <1>0, <1>1, <1>4
  <1>6. PICK y : y = x \o b
    OBVIOUS
  <1>7. y \in Seq(S) /\ Len(y) = Len(s) + 1
    BY <1>0, <1>2, <1>5, <1>6
  <1>8. ASSUME NEW i \in 1 .. Len(s) + 1
        PROVE  y[i] = IF i < k THEN s[i] ELSE IF i = k THEN e ELSE s[i - 1]
    <2>1. CASE i <= k
      <3>1. y[i] = x[i]
        BY <1>0, <1>2, <1>5, <1>6, <2>1
      <3>2. QED BY <1>0, <1>5, <2>1, <3>1
    <2>2. CASE i > k
      <3>1. y[i] = b[i - k]
        BY <1>0, <1>2, <1>5, <1>6, <2>2
      <3>2. i - k \in 1 .. Len(s) - k + 1 /\ k + (i - k) - 1 = i - 1
        BY <1>0, <2>2
      <3>3. QED BY <1>0, <1>2, <2>2, <3>1, <3>2
    <2>3. QED BY <1>0, <2>1, <2>2
  <1>9. QED BY <1>3, <1>4, <1>6, <1>7, <1>8

\* The elements of a sequence after a removal.
LEMMA RemoveAtIs ==
  ASSUME NEW S, NEW s \in Seq(S), NEW k \in 1 .. Len(s)
  PROVE  /\ RemoveAt(s, k) \in Seq(S)
         /\ Len(RemoveAt(s, k)) = Len(s) - 1
         /\ \A i \in 1 .. Len(s) - 1 : RemoveAt(s, k)[i] = IF i < k THEN s[i] ELSE s[i + 1]
  <1>0. Len(s) \in Nat
    OBVIOUS
  <1> DEFINE a == SubSeq(s, 1, k - 1)
             b == SubSeq(s, k + 1, Len(s))
  <1>1. /\ a \in Seq(S) /\ Len(a) = k - 1
        /\ \A i \in 1 .. k - 1 : a[i] = s[i]
    BY <1>0
  <1>2. /\ b \in Seq(S) /\ Len(b) = Len(s) - k
        /\ \A i \in 1 .. Len(s) - k : b[i] = s[k + i]
    BY <1>0
  <1>3. RemoveAt(s, k) = a \o b
    BY DEF RemoveAt
  <1> HIDE DEF a, b
  <1>6. PICK y : y = a \o b
    OBVIOUS
  <1>7. y \in Seq(S) /\ Len(y) = Len(s) - 1
    BY <1>0, <1>1, <1>2, <1>6
  <1>8. ASSUME NEW i \in 1 .. Len(s) - 1
        PROVE  y[i] = IF i < k THEN s[i] ELSE s[i + 1]
    <2>1. CASE i < k
      BY <1>0, <1>1, <1>2, <1>6, <2>1
    <2>2. CASE i >= k
      <3>1. y[i] = b[i - (k - 1)]
        BY <1>0, <1>1, <1>2, <1>6, <2>2
      <3>2. i - (k - 1) \in 1 .. Len(s) - k /\ k + (i - (k - 1)) = i + 1
        BY <1>0, <2>2
      <3>3. QED BY <1>0, <1>2, <2>2, <3>1, <3>2
    <2>3. QED BY <1>0, <2>1, <2>2
  <1>9. QED BY <1>3, <1>6, <1>7, <1>8

------------------------------------------------------------------------------
(* The order of the list *)

\* DueComeFirst, of any list.
InOrder(q) ==
    \A i, j \in DOMAIN q :
      i < j => /\ q[j].time <= 0 /\ q[i].time <= 0 => q[i].time <= q[j].time
               /\ q[i].time > 0 => q[j].time >= 0

IsDue(q) == q # <<>> /\ q[1].time <= 0

\* Later changes the time of an entry only.
LEMMA LaterIs ==
  ASSUME NEW e \in Entries, NEW n \in Int
  PROVE  Later(e, n) \in Entries /\ Later(e, n).time = e.time + n /\ Later(e, n).call = e.call
  BY DEF Later, Entries

\* Delay changes the time of one entry only, if there is one there.
LEMMA DelayIs ==
  ASSUME NEW q \in Seq(Entries), NEW k \in Nat \ {0}, NEW n \in Int
  PROVE  /\ Delay(q, k, n) \in Seq(Entries) /\ Len(Delay(q, k, n)) = Len(q)
         /\ \A i \in 1 .. Len(q) :
              /\ i # k => Delay(q, k, n)[i] = q[i]
              /\ i = k => Delay(q, k, n)[i].time = q[i].time + n
  <1>1. CASE k <= Len(q)
    <2>1. q[k] \in Entries /\ k \in 1 .. Len(q) /\ Len(q) \in Nat
      BY <1>1
    <2>2. Later(q[k], n) \in Entries /\ Later(q[k], n).time = q[k].time + n
      BY <2>1, LaterIs
    <2>3. Delay(q, k, n) = [q EXCEPT ![k] = Later(q[k], n)]
      BY <1>1 DEF Delay
    <2>4. QED BY <2>1, <2>2, <2>3
  <1>2. CASE ~(k <= Len(q))
    <2>1. Delay(q, k, n) = q
      BY <1>2 DEF Delay
    <2>2. QED BY <1>2, <2>1
  <1>3. QED BY <1>1, <1>2

\* timeout stops before an entry whose time is not less than what is left of
\* t, and something is left then.
LEMMA PassedIs ==
  ASSUME NEW q \in Seq(Entries), NEW t \in Nat \ {0}
  PROVE  /\ Passed(q, t) \in 0 .. Len(q)
         /\ Remainder(q, t, Passed(q, t)) \in Nat \ {0}
         /\ Passed(q, t) < Len(q)
              => q[Passed(q, t) + 1].time >= Remainder(q, t, Passed(q, t))
  <1>0. Len(q) \in Nat /\ \A i \in 1 .. Len(q) : q[i].time \in Int
    <2>1. \A i \in 1 .. Len(q) : q[i] \in Entries
      OBVIOUS
    <2>2. QED BY <2>1 DEF Entries
  <1> DEFINE B == {n \in 0 .. Len(q) : n < Len(q) => q[n + 1].time >= Remainder(q, t, n)}
  <1>1. B \in SUBSET Nat /\ Len(q) \in B
    BY <1>0
  <1>2. PICK m \in B : \A k \in B : m <= k
    <2> HIDE DEF B
    <2> QED BY <1>1, Smallest
  <1>3. Passed(q, t) = Min(B)
    BY DEF Passed
  <1>4. Min(B) \in B /\ \A k \in B : Min(B) <= k
    <2> HIDE DEF B
    <2> QED BY <1>2 DEF Min
  <1>5. PICK p \in 0 .. Len(q) :
          /\ p = Passed(q, t)
          /\ p < Len(q) => q[p + 1].time >= Remainder(q, t, p)
          /\ \A n \in 0 .. Len(q) : n < p => q[n + 1].time < Remainder(q, t, n)
    <2>1. Min(B) \in 0 .. Len(q) /\ (Min(B) < Len(q) => q[Min(B) + 1].time >= Remainder(q, t, Min(B)))
      BY <1>4
    <2>2. ASSUME NEW n \in 0 .. Len(q), n < Min(B)
          PROVE  q[n + 1].time < Remainder(q, t, n)
      <3>1. n \notin B
        <4> HIDE DEF B
        <4> QED BY <1>0, <1>1, <1>4, <2>2
      <3>2. n < Len(q) /\ n + 1 \in 1 .. Len(q)
        BY <1>0, <2>1, <2>2
      <3>3. Remainder(q, t, n) \in Int
        BY RemainderSteps
      <3>4. QED BY <1>0, <3>1, <3>2, <3>3
    <2>3. QED
      <3> HIDE DEF B
      <3> QED BY <1>3, <2>1, <2>2
  <1>6. \A n \in 0 .. p : Remainder(q, t, n) > 0
    <2> DEFINE C == {n \in 0 .. p : ~(Remainder(q, t, n) > 0)}
    <2>1. SUFFICES ASSUME C # {} PROVE FALSE
      OBVIOUS
    <2>2. C \in SUBSET Nat
      OBVIOUS
    <2>3. PICK n \in C : \A k \in C : n <= k
      <3> HIDE DEF C
      <3> QED BY <2>1, <2>2, Smallest
    <2>4. n # 0
      BY RemainderSteps
    <2>5. /\ n \in 1 .. Len(q) /\ n - 1 \in 0 .. Len(q) /\ n - 1 < p /\ n - 1 \in 0 .. p
          /\ (n - 1) + 1 = n /\ ~(n <= n - 1)
      BY <1>0, <1>5, <2>4
    <2>6. Remainder(q, t, n - 1) > 0
      BY <2>3, <2>5
    <2>7. q[n].time < Remainder(q, t, n - 1)
      BY <1>5, <2>5
    <2>8. /\ Remainder(q, t, n - 1) \in Int
          /\ Remainder(q, t, n) = IF q[n].time > 0 THEN Remainder(q, t, n - 1) - q[n].time
                                  ELSE Remainder(q, t, n - 1)
      BY <2>5, RemainderSteps
    <2>9. Remainder(q, t, n) > 0
      BY <1>0, <2>5, <2>6, <2>7, <2>8
    <2>10. QED BY <2>9
  <1>7. p \in 0 .. p /\ Remainder(q, t, p) \in Int
    <2>1. \A n \in 0 .. Len(q) : Remainder(q, t, n) \in Int
      <3>1. t \in Int
        OBVIOUS
      <3> HIDE DEF B
      <3>2. QED BY <3>1, RemainderSteps
    <2>2. p \in Nat
      <3> HIDE DEF B
      <3> QED BY <1>0
    <2>3. \A n \in Nat : n \in 0 .. n
      OBVIOUS
    <2>4. p \in 0 .. p
      BY <2>2, <2>3
    <2>5. QED BY <2>1, <2>4
  <1>8. QED BY <1>5, <1>6, <1>7

\* timeout keeps the order of the list, and makes nothing due.
LEMMA InsertedIs ==
  ASSUME NEW q \in Seq(Entries), NEW c \in Calls, NEW t \in Nat \ {0}
  PROVE  /\ Inserted(q, c, t) \in Seq(Entries)
         /\ Len(Inserted(q, c, t)) = Len(q) + 1
         /\ InOrder(q) => /\ InOrder(Inserted(q, c, t))
                          /\ IsDue(Inserted(q, c, t)) => IsDue(q)
  <1>0. Len(q) \in Nat /\ DOMAIN q = 1 .. Len(q) /\ \A i \in 1 .. Len(q) : q[i].time \in Int
    <2>1. \A i \in 1 .. Len(q) : q[i] \in Entries
      OBVIOUS
    <2>2. QED BY <2>1 DEF Entries
  <1>1. PICK p, r : p = Passed(q, t) /\ r = Remainder(q, t, Passed(q, t))
    OBVIOUS
  <1>2. p \in 0 .. Len(q) /\ r \in Nat \ {0} /\ (p < Len(q) => q[p + 1].time >= r)
    BY <1>1, PassedIs
  <1>3. PICK d : d = Delay(q, p + 1, -r)
    OBVIOUS
  <1>4. /\ d \in Seq(Entries) /\ Len(d) = Len(q)
        /\ \A i \in 1 .. Len(q) : /\ i # p + 1 => d[i] = q[i]
                                  /\ i = p + 1 => d[i].time = q[i].time - r
    <2>1. p + 1 \in Nat \ {0} /\ -r \in Int
      BY <1>0, <1>2
    <2>2. /\ d \in Seq(Entries) /\ Len(d) = Len(q)
          /\ \A i \in 1 .. Len(q) : /\ i # p + 1 => d[i] = q[i]
                                    /\ i = p + 1 => d[i].time = q[i].time + -r
      BY <1>3, <2>1, DelayIs
    <2>3. QED BY <1>0, <1>2, <2>2
  <1>5. PICK e : e = [call |-> c, time |-> r]
    OBVIOUS
  <1>6. e \in Entries /\ e.time = r
    BY <1>2, <1>5 DEF Entries
  <1>7. PICK y : y = Inserted(q, c, t)
    OBVIOUS
  <1>8. /\ y \in Seq(Entries) /\ Len(y) = Len(q) + 1
        /\ \A i \in 1 .. Len(q) + 1 :
             y[i] = IF i < p + 1 THEN d[i] ELSE IF i = p + 1 THEN e ELSE d[i - 1]
    <2>1. y = InsertAt(d, p + 1, e)
      BY <1>1, <1>3, <1>5, <1>7 DEF Inserted
    <2>2. p + 1 \in 1 .. Len(d) + 1
      BY <1>0, <1>2, <1>4
    <2>3. PICK k : k = p + 1
      OBVIOUS
    <2>4. k \in 1 .. Len(d) + 1
      BY <2>2, <2>3
    <2>5. /\ InsertAt(d, k, e) \in Seq(Entries) /\ Len(InsertAt(d, k, e)) = Len(d) + 1
          /\ \A i \in 1 .. Len(d) + 1 :
               InsertAt(d, k, e)[i] = IF i < k THEN d[i] ELSE IF i = k THEN e ELSE d[i - 1]
      <3>1. d \in Seq(Entries) /\ e \in Entries
        BY <1>4, <1>6
      <3>2. \A n \in 1 .. Len(d) + 1 : \A x \in Entries :
              /\ InsertAt(d, n, x) \in Seq(Entries) /\ Len(InsertAt(d, n, x)) = Len(d) + 1
              /\ \A i \in 1 .. Len(d) + 1 :
                   InsertAt(d, n, x)[i] = IF i < n THEN d[i] ELSE IF i = n THEN x ELSE d[i - 1]
        BY <3>1, InsertAtIs
      <3>3. QED BY <2>4, <3>1, <3>2
    <2>6. QED BY <1>4, <2>1, <2>3, <2>5
  <1>9. DOMAIN y = 1 .. Len(q) + 1
    BY <1>8
  <1>10. InOrder(q) => \A i \in 1 .. Len(q) + 1 :
           /\ i <= p => y[i] = q[i]
           /\ i = p + 1 => y[i].time = r
           /\ i > p + 1 => y[i].time >= 0 /\ y[i].time \in Int
    <2> HAVE InOrder(q)
    <2> TAKE i \in 1 .. Len(q) + 1
    <2>1. CASE i <= p
      <3>1. i < p + 1 /\ i # p + 1 /\ i \in 1 .. Len(q) /\ ~(i > p + 1)
        BY <1>0, <1>2, <2>1
      <3>2. y[i] = d[i]
        BY <1>8, <3>1
      <3>3. d[i] = q[i]
        BY <1>4, <3>1
      <3>4. QED BY <3>1, <3>2, <3>3
    <2>2. CASE i = p + 1
      <3>1. ~(i < p + 1) /\ ~(i <= p) /\ ~(i > p + 1)
        BY <1>0, <1>2, <2>2
      <3>2. y[i] = e
        BY <1>8, <2>2, <3>1
      <3>3. QED BY <1>6, <3>1, <3>2
    <2>3. CASE i > p + 1
      <3>1. y[i] = d[i - 1] /\ i - 1 \in 1 .. Len(q) /\ p + 1 \in 1 .. Len(q) /\ p < Len(q)
        BY <1>0, <1>2, <1>8, <2>3
      <3>2. CASE i - 1 = p + 1
        BY <1>0, <1>2, <1>4, <3>1, <3>2
      <3>3. CASE i - 1 > p + 1
        <4>0. q[p + 1].time > 0
          BY <1>0, <1>2, <3>1
        <4>1. q[i - 1].time >= 0
          BY <1>0, <3>1, <3>3, <4>0 DEF InOrder
        <4>2. QED BY <1>0, <1>2, <1>4, <2>3, <3>1, <3>3, <4>1
      <3>4. QED BY <1>0, <1>2, <2>3, <3>2, <3>3
    <2>4. QED BY <1>0, <1>2, <2>1, <2>2, <2>3
  <1>11. InOrder(q) => InOrder(y)
    <2> HAVE InOrder(q)
    <2>1. SUFFICES ASSUME NEW i \in 1 .. Len(q) + 1, NEW j \in 1 .. Len(q) + 1, i < j
                   PROVE  /\ y[j].time <= 0 /\ y[i].time <= 0 => y[i].time <= y[j].time
                          /\ y[i].time > 0 => y[j].time >= 0
      BY <1>9 DEF InOrder
    <2>2. CASE j <= p
      BY <1>0, <1>2, <1>10, <2>1, <2>2 DEF InOrder
    <2>3. CASE j > p
      <3>1. y[j].time >= 0 /\ y[j].time \in Int
        BY <1>0, <1>2, <1>10, <2>3
      <3>2. y[i].time \in Int
        BY <1>0, <1>2, <1>10, <2>1
      <3>3. QED BY <3>1, <3>2
    <2>4. QED BY <1>0, <1>2, <2>2, <2>3
  <1>12. ASSUME InOrder(q), IsDue(y)
         PROVE  IsDue(q)
    <2>1. 1 \in 1 .. Len(q) + 1 /\ y[1].time <= 0
      BY <1>0, <1>12 DEF IsDue
    <2>2. p >= 1
      BY <1>0, <1>2, <1>10, <1>12, <2>1
    <2>3. y[1] = q[1] /\ Len(q) >= 1
      BY <1>0, <1>2, <1>10, <1>12, <2>1, <2>2
    <2>4. QED BY <2>1, <2>3 DEF IsDue
  <1>13. QED BY <1>7, <1>8, <1>11, <1>12

\* untimeout keeps the order of the list, and makes nothing due.
LEMMA RemovedIs ==
  ASSUME NEW q \in Seq(Entries), NEW k \in 1 .. Len(q)
  PROVE  /\ Removed(q, k) \in Seq(Entries)
         /\ Len(Removed(q, k)) = Len(q) - 1
         /\ InOrder(q) => /\ InOrder(Removed(q, k))
                          /\ IsDue(Removed(q, k)) => IsDue(q)
  <1>0. Len(q) \in Nat /\ DOMAIN q = 1 .. Len(q) /\ \A i \in 1 .. Len(q) : q[i].time \in Int
    <2>1. \A i \in 1 .. Len(q) : q[i] \in Entries
      OBVIOUS
    <2>2. QED BY <2>1 DEF Entries
  <1>1. PICK d : d = (IF q[k].time > 0 THEN Delay(q, k + 1, q[k].time) ELSE q)
    OBVIOUS
  <1>2. /\ d \in Seq(Entries) /\ Len(d) = Len(q)
        /\ \A i \in 1 .. Len(q) :
             /\ i # k + 1 => d[i] = q[i]
             /\ i = k + 1 => d[i].time = IF q[k].time > 0 THEN q[i].time + q[k].time
                                         ELSE q[i].time
    <2>1. CASE q[k].time > 0
      <3>1. k + 1 \in Nat \ {0} /\ q[k].time \in Int
        BY <1>0
      <3>2. d = Delay(q, k + 1, q[k].time)
        BY <1>1, <2>1
      <3>3. /\ d \in Seq(Entries) /\ Len(d) = Len(q)
            /\ \A i \in 1 .. Len(q) : /\ i # k + 1 => d[i] = q[i]
                                      /\ i = k + 1 => d[i].time = q[i].time + q[k].time
        BY <3>1, <3>2, DelayIs
      <3>4. QED BY <2>1, <3>3
    <2>2. CASE ~(q[k].time > 0)
      BY <1>1, <2>2
    <2>3. QED BY <2>1, <2>2
  <1>3. PICK y : y = Removed(q, k)
    OBVIOUS
  <1>4. /\ y \in Seq(Entries) /\ Len(y) = Len(q) - 1
        /\ \A i \in 1 .. Len(q) - 1 : y[i] = IF i < k THEN d[i] ELSE d[i + 1]
    <2>1. y = RemoveAt(d, k) /\ k \in 1 .. Len(d)
      BY <1>1, <1>2, <1>3 DEF Removed
    <2>2. QED BY <1>2, <2>1, RemoveAtIs
  <1>5. DOMAIN y = 1 .. Len(q) - 1
    BY <1>0, <1>4
  <1>6. \A i \in 1 .. Len(q) - 1 :
          /\ i < k => y[i] = q[i]
          /\ i >= k => i + 1 \in 1 .. Len(q)
          /\ i > k => y[i] = q[i + 1]
          /\ i = k => y[i].time = IF q[k].time > 0 THEN q[i + 1].time + q[k].time
                                  ELSE q[i + 1].time
    <2> TAKE i \in 1 .. Len(q) - 1
    <2>1. CASE i < k
      BY <1>0, <1>2, <1>4, <2>1
    <2>2. CASE i >= k
      <3>1. y[i] = d[i + 1] /\ i + 1 \in 1 .. Len(q)
        BY <1>0, <1>4, <2>2
      <3>2. QED BY <1>0, <1>2, <2>2, <3>1
    <2>3. QED BY <1>0, <2>1, <2>2
  <1>7. InOrder(q) => InOrder(y)
    <2> HAVE InOrder(q)
    <2>1. SUFFICES ASSUME NEW i \in 1 .. Len(q) - 1, NEW j \in 1 .. Len(q) - 1, i < j
                   PROVE  /\ y[j].time <= 0 /\ y[i].time <= 0 => y[i].time <= y[j].time
                          /\ y[i].time > 0 => y[j].time >= 0
      BY <1>5 DEF InOrder
    <2>2. CASE j < k
      <3>1. y[i] = q[i] /\ y[j] = q[j] /\ i \in 1 .. Len(q) /\ j \in 1 .. Len(q)
        BY <1>0, <1>6, <2>1, <2>2
      <3>2. QED BY <1>0, <2>1, <3>1 DEF InOrder
    <2>3. CASE j > k /\ i # k
      <3>1. PICK m \in 1 .. Len(q) : y[i] = q[m] /\ m < j + 1
        BY <1>0, <1>6, <2>1, <2>3
      <3>2. y[j] = q[j + 1] /\ j + 1 \in 1 .. Len(q)
        BY <1>0, <1>6, <2>3
      <3>3. QED BY <1>0, <3>1, <3>2 DEF InOrder
    <2>4. CASE j > k /\ i = k
      <3>1. /\ y[j] = q[j + 1] /\ j + 1 \in 1 .. Len(q) /\ i + 1 \in 1 .. Len(q) /\ i + 1 < j + 1
            /\ k < j + 1 /\ k < i + 1
            /\ y[i].time = IF q[k].time > 0 THEN q[i + 1].time + q[k].time ELSE q[i + 1].time
        BY <1>0, <1>6, <2>1, <2>4
      <3>2. CASE q[k].time > 0
        <4>1. q[j + 1].time >= 0 /\ q[i + 1].time >= 0
          BY <1>0, <3>1, <3>2 DEF InOrder
        <4>2. QED BY <1>0, <3>1, <3>2, <4>1
      <3>3. CASE ~(q[k].time > 0)
        BY <1>0, <3>1, <3>3 DEF InOrder
      <3>4. QED BY <3>2, <3>3
    <2>5. CASE j = k
      <3>1. /\ y[i] = q[i] /\ i \in 1 .. Len(q) /\ j + 1 \in 1 .. Len(q) /\ i < j + 1 /\ i < k
            /\ y[j].time = IF q[k].time > 0 THEN q[j + 1].time + q[k].time ELSE q[j + 1].time
        BY <1>0, <1>6, <2>1, <2>5
      <3>2. CASE q[k].time > 0
        <4>0. k < j + 1
          BY <1>0, <2>5
        <4>1. q[j + 1].time >= 0
          BY <1>0, <3>1, <3>2, <4>0 DEF InOrder
        <4>2. q[i].time \in Int /\ q[k].time \in Int /\ q[j + 1].time \in Int
          BY <1>0, <3>1
        <4>3. QED BY <3>1, <3>2, <4>1, <4>2
      <3>3. CASE ~(q[k].time > 0)
        BY <1>0, <3>1, <3>3 DEF InOrder
      <3>4. QED BY <3>2, <3>3
    <2>6. QED BY <1>0, <2>1, <2>2, <2>3, <2>4, <2>5
  <1>8. ASSUME InOrder(q), IsDue(y)
        PROVE  IsDue(q)
    <2>1. 1 \in 1 .. Len(q) - 1 /\ y[1].time <= 0
      BY <1>0, <1>4, <1>8 DEF IsDue
    <2>2. CASE k > 1
      BY <1>0, <1>6, <2>1, <2>2 DEF IsDue
    <2>3. CASE k = 1
      <3>1. /\ y[1].time = IF q[1].time > 0 THEN q[2].time + q[1].time ELSE q[2].time
            /\ 2 \in 1 .. Len(q) /\ 1 \in 1 .. Len(q)
        BY <1>0, <1>6, <2>1, <2>3
      <3>2. q[1].time > 0 => q[2].time >= 0
        BY <1>0, <1>8, <3>1 DEF InOrder
      <3>3. QED BY <1>0, <2>1, <3>1, <3>2 DEF IsDue
    <2>4. QED BY <1>0, <2>2, <2>3
  <1>9. QED BY <1>3, <1>4, <1>7, <1>8

\* hardclock keeps the order of the list, and needs softclock if it has made an
\* entry due.
LEMMA TickedIs ==
  ASSUME NEW q \in Seq(Entries)
  PROVE  /\ Ticked(q) \in Seq(Entries)
         /\ Len(Ticked(q)) = Len(q)
         /\ InOrder(q) => InOrder(Ticked(q))
         /\ IsDue(Ticked(q)) => q # <<>> /\ q[1].time <= 1
  <1>0. /\ Len(q) \in Nat /\ DOMAIN q = 1 .. Len(q)
        /\ \A i \in 1 .. Len(q) : q[i] \in Entries /\ q[i].time \in Int
    <2>1. \A i \in 1 .. Len(q) : q[i] \in Entries
      OBVIOUS
    <2>2. QED BY <2>1 DEF Entries
  <1> DEFINE late(i) == \A j \in 1 .. i - 1 : q[j].time <= 0
  <1>1. PICK y : y = Ticked(q)
    OBVIOUS
  <1>2. DOMAIN y = 1 .. Len(q)
    BY <1>0, <1>1 DEF Ticked
  <1>3. \A i \in 1 .. Len(q) :
          /\ y[i] \in Entries /\ y[i].time \in Int
          /\ late(i) => y[i].time = q[i].time - 1
          /\ ~late(i) => y[i] = q[i]
    <2> TAKE i \in 1 .. Len(q)
    <2>1. y[i] = IF late(i) THEN Later(q[i], -1) ELSE q[i]
      <3>1. y = [k \in DOMAIN q |-> IF late(k) THEN Later(q[k], -1) ELSE q[k]]
        BY <1>1 DEF Ticked
      <3> HIDE DEF late
      <3>2. QED BY <1>0, <3>1
    <2>2. Later(q[i], -1) \in Entries /\ Later(q[i], -1).time = q[i].time + -1
      <3>1. q[i] \in Entries /\ -1 \in Int
        BY <1>0
      <3>2. QED BY <3>1, LaterIs
    <2> HIDE DEF late
    <2>3. QED BY <1>0, <2>1, <2>2
  <1>4. y \in Seq(Entries) /\ Len(y) = Len(q)
    <2>1. y \in [1 .. Len(q) -> Entries]
      <3>1. y = [i \in 1 .. Len(q) |-> y[i]]
        BY <1>0, <1>1 DEF Ticked
      <3>2. QED BY <1>3, <3>1
    <2>2. QED BY <1>0, <2>1
  <1>5. InOrder(q) => InOrder(y)
    <2> HAVE InOrder(q)
    <2>1. SUFFICES ASSUME NEW i \in 1 .. Len(q), NEW j \in 1 .. Len(q), i < j
                   PROVE  /\ y[j].time <= 0 /\ y[i].time <= 0 => y[i].time <= y[j].time
                          /\ y[i].time > 0 => y[j].time >= 0
      BY <1>2 DEF InOrder
    <2>2. /\ q[j].time <= 0 /\ q[i].time <= 0 => q[i].time <= q[j].time
          /\ q[i].time > 0 => q[j].time >= 0
      BY <1>0, <2>1 DEF InOrder
    <2>3. late(j) => late(i) /\ q[i].time <= 0
      BY <1>0, <2>1
    <2>4. ASSUME late(i), ~late(j)
          PROVE  q[j].time >= 0
      <3>1. PICK m \in 1 .. j - 1 : ~(q[m].time <= 0)
        BY <2>4
      <3>2. m \in 1 .. Len(q) /\ m < j
        BY <1>0
      <3>3. QED BY <1>0, <3>1, <3>2 DEF InOrder
    <2>5. ASSUME ~late(i)
          PROVE  q[i].time >= 0 /\ q[j].time >= 0
      <3>1. PICK m \in 1 .. i - 1 : ~(q[m].time <= 0)
        BY <2>5
      <3>2. m \in 1 .. Len(q) /\ m < i /\ m < j
        BY <1>0, <2>1
      <3>3. QED BY <1>0, <3>1, <3>2 DEF InOrder
    <2>6. q[i].time \in Int /\ q[j].time \in Int
      BY <1>0
    <2>7. /\ late(i) => y[i].time = q[i].time - 1
          /\ ~late(i) => y[i] = q[i]
          /\ late(j) => y[j].time = q[j].time - 1
          /\ ~late(j) => y[j] = q[j]
      BY <1>3
    <2> HIDE DEF late
    <2>8. CASE late(j)
      BY <2>2, <2>3, <2>6, <2>7, <2>8
    <2>9. CASE ~late(j) /\ late(i)
      BY <2>4, <2>6, <2>7, <2>9
    <2>10. CASE ~late(j) /\ ~late(i)
      BY <2>2, <2>5, <2>6, <2>7, <2>10
    <2>11. QED BY <2>8, <2>9, <2>10
  <1>6. ASSUME IsDue(y)
        PROVE  q # <<>> /\ q[1].time <= 1
    <2>1. 1 \in 1 .. Len(q) /\ y[1].time <= 0
      BY <1>0, <1>4, <1>6 DEF IsDue
    <2>2. late(1)
      OBVIOUS
    <2>3. y[1].time = q[1].time - 1
      BY <1>3, <2>1, <2>2
    <2>4. QED BY <1>0, <2>1, <2>3
  <1>7. QED BY <1>1, <1>4, <1>5, <1>6

\* Taking the first entry keeps the order of the list.
LEMMA TailIs ==
  ASSUME NEW q \in Seq(Entries), q # <<>>
  PROVE  /\ Tail(q) \in Seq(Entries)
         /\ Len(Tail(q)) = Len(q) - 1
         /\ InOrder(q) => InOrder(Tail(q))
  <1>1. PICK y : y = Tail(q)
    OBVIOUS
  <1>2. /\ y \in Seq(Entries) /\ Len(q) \in Nat \ {0} /\ Len(y) = Len(q) - 1
        /\ DOMAIN y = 1 .. Len(q) - 1
        /\ \A i \in 1 .. Len(q) - 1 : y[i] = q[i + 1]
    BY <1>1
  <1>3. ASSUME InOrder(q), NEW i \in 1 .. Len(q) - 1, NEW j \in 1 .. Len(q) - 1, i < j
        PROVE  /\ y[j].time <= 0 /\ y[i].time <= 0 => y[i].time <= y[j].time
               /\ y[i].time > 0 => y[j].time >= 0
    <2>1. i + 1 \in DOMAIN q /\ j + 1 \in DOMAIN q /\ i + 1 < j + 1
      BY <1>2, <1>3
    <2>2. QED BY <1>2, <1>3, <2>1 DEF InOrder
  <1>4. InOrder(q) => InOrder(y)
    BY <1>2, <1>3 DEF InOrder
  <1>5. QED BY <1>1, <1>2, <1>4

------------------------------------------------------------------------------
(* Setting the time: the merge of the entries that move and those that stay *)

\* Entries placed by the time left to them, as psx4_adjust_callout has them.
Items == [call : Calls, pos : Int]

Sorted(s) == \A i, j \in DOMAIN s : i < j => s[i].pos <= s[j].pos

\* No item of s from place i on comes before x.
NotBefore(s, i, x) == \A m \in DOMAIN s : m >= i => x <= s[m].pos

\* The places in two lists, and what merge has for them when f has the rest.
Places(a, k) == (0 .. Len(a)) \X (0 .. Len(k))
ToMerge(a, k, p) == (Len(a) - p[1]) + (Len(k) - p[2])
MergeStep(a, k, f, p) ==
    IF p[1] = Len(a) THEN SubSeq(k, p[2] + 1, Len(k))
    ELSE IF p[2] = Len(k) THEN SubSeq(a, p[1] + 1, Len(a))
    ELSE IF a[p[1] + 1].pos < k[p[2] + 1].pos
    THEN <<a[p[1] + 1]>> \o f[<<p[1] + 1, p[2]>>]
    ELSE <<k[p[2] + 1]>> \o f[<<p[1], p[2] + 1>>]

\* One step on in either list there is one item less to merge.
LEMMA PlaceAfter ==
  ASSUME NEW a, NEW k, Len(a) \in Nat, Len(k) \in Nat, NEW p \in Places(a, k)
  PROVE  /\ ToMerge(a, k, p) \in Nat /\ p[1] \in 0 .. Len(a) /\ p[2] \in 0 .. Len(k)
         /\ p[1] # Len(a) => /\ <<p[1] + 1, p[2]>> \in Places(a, k)
                             /\ ToMerge(a, k, <<p[1] + 1, p[2]>>) = ToMerge(a, k, p) - 1
         /\ p[2] # Len(k) => /\ <<p[1], p[2] + 1>> \in Places(a, k)
                             /\ ToMerge(a, k, <<p[1], p[2] + 1>>) = ToMerge(a, k, p) - 1
  <1>1. p[1] \in 0 .. Len(a) /\ p[2] \in 0 .. Len(k)
    BY DEF Places
  <1>2. ToMerge(a, k, p) \in Nat
    BY <1>1 DEF ToMerge
  <1>3. PICK i \in 0 .. Len(a), j \in 0 .. Len(k) : p = <<i, j>>
    BY DEF Places
  <1>4. i # Len(a) => /\ <<i + 1, j>> \in Places(a, k)
                     /\ ToMerge(a, k, <<i + 1, j>>) = ToMerge(a, k, <<i, j>>) - 1
    BY DEF Places, ToMerge
  <1>5. j # Len(k) => /\ <<i, j + 1>> \in Places(a, k)
                     /\ ToMerge(a, k, <<i, j + 1>>) = ToMerge(a, k, <<i, j>>) - 1
    BY DEF Places, ToMerge
  <1>6. QED BY <1>1, <1>2, <1>3, <1>4, <1>5

\* A step of the merge depends on places with less to merge only.
LEMMA MergeStepSame ==
  ASSUME NEW a, NEW k, Len(a) \in Nat, Len(k) \in Nat, NEW p \in Places(a, k),
         NEW f, NEW g,
         \A r \in Places(a, k) : ToMerge(a, k, r) < ToMerge(a, k, p) => f[r] = g[r]
  PROVE  MergeStep(a, k, f, p) = MergeStep(a, k, g, p)
  <1>1. /\ ToMerge(a, k, p) \in Nat
        /\ p[1] # Len(a) => /\ <<p[1] + 1, p[2]>> \in Places(a, k)
                            /\ ToMerge(a, k, <<p[1] + 1, p[2]>>) = ToMerge(a, k, p) - 1
        /\ p[2] # Len(k) => /\ <<p[1], p[2] + 1>> \in Places(a, k)
                            /\ ToMerge(a, k, <<p[1], p[2] + 1>>) = ToMerge(a, k, p) - 1
    BY PlaceAfter
  <1>2. p[1] # Len(a) => f[<<p[1] + 1, p[2]>>] = g[<<p[1] + 1, p[2]>>]
    BY <1>1
  <1>3. p[2] # Len(k) => f[<<p[1], p[2] + 1>>] = g[<<p[1], p[2] + 1>>]
    BY <1>1
  <1>4. QED BY <1>2, <1>3 DEF MergeStep

\* The recursion of the merge has a value.
LEMMA MergeExists ==
  ASSUME NEW a, NEW k, Len(a) \in Nat, Len(k) \in Nat
  PROVE  \E f : f = [p \in Places(a, k) |-> MergeStep(a, k, f, p)]
  <1> DEFINE P == Places(a, k)
             size(p) == ToMerge(a, k, p)
             Upto(n, f) == \A p \in P : size(p) < n => f[p] = MergeStep(a, k, f, p)
             B == {n \in Nat : ~ \E f : f = [p \in P |-> f[p]] /\ Upto(n, f)}
  <1>0. \A p \in P : size(p) \in Nat /\ size(p) <= Len(a) + Len(k)
    <2> TAKE p \in P
    <2>1. size(p) \in Nat /\ p[1] \in 0 .. Len(a) /\ p[2] \in 0 .. Len(k)
      BY PlaceAfter
    <2>2. QED BY <2>1 DEF ToMerge
  <1>1. B = {}
    <2>1. SUFFICES ASSUME B # {} PROVE FALSE
      OBVIOUS
    <2>2. B \in SUBSET Nat
      OBVIOUS
    <2>3. PICK m \in B : \A n \in B : m <= n
      <3> HIDE DEF B
      <3> QED BY <2>1, <2>2, Smallest
    <2>4. m # 0
      <3>1. SUFFICES ASSUME m = 0 PROVE FALSE
        OBVIOUS
      <3>2. PICK f : f = [p \in P |-> 0]
        OBVIOUS
      <3>3. f = [p \in P |-> f[p]] /\ Upto(0, f)
        <4> HIDE DEF P, size
        <4> QED BY <1>0, <3>2
      <3> HIDE DEF Upto, P
      <3>4. QED BY <3>1, <3>3
    <2>5. m \in Nat /\ m - 1 \in Nat /\ m - 1 \notin B
      <3>1. m \in Nat /\ m - 1 \in Nat /\ ~(m <= m - 1)
        BY <2>4
      <3> HIDE DEF B
      <3>2. QED BY <2>3, <3>1
    <2>6. PICK f : f = [p \in P |-> f[p]] /\ Upto(m - 1, f)
      <3> HIDE DEF Upto, P
      <3> QED BY <2>5
    <2>7. PICK g : g = [p \in P |-> IF size(p) < m - 1 THEN f[p] ELSE MergeStep(a, k, f, p)]
      OBVIOUS
    <2>8. Upto(m, g)
      <3>1. SUFFICES ASSUME NEW p \in P, size(p) < m
                     PROVE  g[p] = MergeStep(a, k, g, p)
        BY DEF Upto
      <3>2. \A r \in P : size(r) < size(p) => g[r] = f[r]
        <4> HIDE DEF size, P
        <4> QED BY <1>0, <2>5, <2>7, <3>1
      <3>3. MergeStep(a, k, g, p) = MergeStep(a, k, f, p)
        BY <3>2, MergeStepSame
      <3>4. g[p] = MergeStep(a, k, f, p)
        <4> HIDE DEF size, P
        <4> QED BY <2>6, <2>7
      <3>5. QED BY <3>3, <3>4
    <2>9. g = [p \in P |-> g[p]]
      BY <2>7
    <2>10. m \notin B
      <3> HIDE DEF Upto, P
      <3> QED BY <2>8, <2>9
    <2>11. QED BY <2>10
  <1>2. PICK n \in Nat : n = Len(a) + Len(k) + 1
    OBVIOUS
  <1>3. PICK f : f = [p \in P |-> f[p]] /\ Upto(n, f)
    <2>1. n \notin B
      BY <1>1
    <2> HIDE DEF Upto, P
    <2>2. QED BY <2>1
  <1>4. \A p \in P : f[p] = MergeStep(a, k, f, p)
    <2> HIDE DEF size, P
    <2> QED BY <1>0, <1>2, <1>3
  <1>5. f = [p \in P |-> MergeStep(a, k, f, p)]
    <2> HIDE DEF P
    <2> QED BY <1>3, <1>4
  <1>6. QED BY <1>5

\* Merged is such a value.
LEMMA MergedIs ==
  ASSUME NEW a, NEW k, Len(a) \in Nat, Len(k) \in Nat
  PROVE  \E f : /\ Merged(a, k) = f[<<0, 0>>]
                /\ \A p \in Places(a, k) : f[p] = MergeStep(a, k, f, p)
  <1> DEFINE IsMerge(f) == f = [p \in (0 .. Len(a)) \X (0 .. Len(k)) |-> MergeStep(a, k, f, p)]
  <1>1. Merged(a, k) = (CHOOSE f : IsMerge(f))[<<0, 0>>]
    BY DEF Merged, MergeStep
  <1>2. PICK f : IsMerge(f)
    BY MergeExists DEF Places
  <1> DEFINE g == CHOOSE f1 : IsMerge(f1)
  <1>3. IsMerge(g)
    <2> HIDE DEF IsMerge
    <2> QED BY <1>2
  <1>4. \A p \in Places(a, k) : g[p] = MergeStep(a, k, g, p)
    <2> HIDE DEF g
    <2> QED BY <1>3 DEF Places
  <1>5. Merged(a, k) = g[<<0, 0>>]
    BY <1>1
  <1> HIDE DEF g
  <1>6. QED BY <1>4, <1>5

\* What is left of a length.
LEMMA Rests ==
  ASSUME NEW x \in Nat, NEW u \in 0 .. x, NEW z \in Nat
  PROVE  /\ x - u \in Nat /\ (x - u) + (z - z) = x - u
         /\ u + 1 \in Nat /\ u + 1 >= 1 /\ x - (u + 1) + 1 = x - u
         /\ u # x => u + 1 \in 1 .. x /\ u + 1 <= x
         /\ u = x => ~(u + 1 <= x) /\ x - u = 0
  OBVIOUS

\* An item before a sorted list of items, none of which comes before it.
LEMMA ConsIs ==
  ASSUME NEW e \in Items, NEW s \in Seq(Items), Sorted(s), NotBefore(s, 1, e.pos)
  PROVE  /\ <<e>> \o s \in Seq(Items) /\ Len(<<e>> \o s) = Len(s) + 1
         /\ Sorted(<<e>> \o s)
         /\ \A x \in Int : x <= e.pos /\ NotBefore(s, 1, x) => NotBefore(<<e>> \o s, 1, x)
  <1>0. Len(s) \in Nat /\ DOMAIN s = 1 .. Len(s)
    OBVIOUS
  <1>1. PICK y : y = <<e>> \o s
    OBVIOUS
  <1>2. /\ y \in Seq(Items) /\ Len(y) = Len(s) + 1 /\ DOMAIN y = 1 .. Len(s) + 1
        /\ y[1] = e /\ \A i \in 2 .. Len(s) + 1 : y[i] = s[i - 1]
    BY <1>0, <1>1
  <1>3. Sorted(y)
    <2>1. SUFFICES ASSUME NEW i \in 1 .. Len(s) + 1, NEW j \in 1 .. Len(s) + 1, i < j
                   PROVE  y[i].pos <= y[j].pos
      BY <1>2 DEF Sorted
    <2>2. y[j] = s[j - 1] /\ j - 1 \in DOMAIN s /\ j - 1 >= 1
      BY <1>0, <1>2, <2>1
    <2>3. CASE i = 1
      BY <1>2, <2>2, <2>3 DEF NotBefore
    <2>4. CASE i # 1
      <3>1. y[i] = s[i - 1] /\ i - 1 \in DOMAIN s /\ i - 1 < j - 1
        BY <1>0, <1>2, <2>1, <2>4
      <3>2. QED BY <2>2, <3>1 DEF Sorted
    <2>5. QED BY <2>3, <2>4
  <1>4. ASSUME NEW x \in Int, x <= e.pos, NotBefore(s, 1, x)
        PROVE  NotBefore(y, 1, x)
    <2>1. SUFFICES ASSUME NEW i \in 1 .. Len(s) + 1
                   PROVE  x <= y[i].pos
      BY <1>2 DEF NotBefore
    <2>2. CASE i = 1
      BY <1>2, <1>4, <2>2
    <2>3. CASE i # 1
      <3>1. y[i] = s[i - 1] /\ i - 1 \in DOMAIN s /\ i - 1 >= 1
        BY <1>0, <1>2, <2>3
      <3>2. QED BY <1>4, <3>1 DEF NotBefore
    <2>4. QED BY <2>2, <2>3
  <1>5. QED BY <1>1, <1>2, <1>3, <1>4

\* The length of what is left.
LEMMA Lengths ==
  ASSUME NEW x \in Nat, NEW u \in 0 .. x, NEW w,
         w = IF u + 1 <= x THEN x - (u + 1) + 1 ELSE 0
  PROVE  w = x - u
  OBVIOUS

\* What is left of a sorted list.
LEMMA RestIs ==
  ASSUME NEW s \in Seq(Items), NEW i \in 0 .. Len(s)
  PROVE  /\ SubSeq(s, i + 1, Len(s)) \in Seq(Items)
         /\ Len(SubSeq(s, i + 1, Len(s))) = Len(s) - i
         /\ Sorted(s) => Sorted(SubSeq(s, i + 1, Len(s)))
         /\ \A x \in Int : NotBefore(s, i + 1, x) => NotBefore(SubSeq(s, i + 1, Len(s)), 1, x)
  <1>0. Len(s) \in Nat /\ DOMAIN s = 1 .. Len(s)
    OBVIOUS
  <1>1. PICK y : y = SubSeq(s, i + 1, Len(s))
    OBVIOUS
  <1>2. /\ y \in Seq(Items) /\ Len(y) = Len(s) - i /\ DOMAIN y = 1 .. Len(s) - i
        /\ \A n \in 1 .. Len(s) - i : y[n] = s[n + i] /\ n + i \in DOMAIN s
    <2>1. y \in Seq(Items) /\ Len(y) = Len(s) - i /\ DOMAIN y = 1 .. Len(s) - i
      <3>1. PICK m \in Int : m = i + 1
        BY <1>0
      <3>2. Len(s) \in Int /\ \A x \in m .. Len(s) : s[x] \in Items
        BY <1>0, <3>1
      <3>. DEFINE z == SubSeq(s, m, Len(s))
      <3>7. z \in Seq(Items) /\ Len(z) = IF m <= Len(s) THEN Len(s) - m + 1 ELSE 0
        BY <3>2, SubSeqProperties
      <3>. HIDE DEF z
      <3>8. y = z
        BY <1>1, <3>1 DEF z
      <3>3. /\ y \in Seq(Items)
            /\ Len(y) = IF i + 1 <= Len(s) THEN Len(s) - (i + 1) + 1 ELSE 0
        BY <3>1, <3>7, <3>8, Zenon
      <3>5. Len(y) = Len(s) - i
        BY <1>0, <3>3, Lengths, Zenon
      <3>6. QED BY <3>3, <3>5
    <2>2. ASSUME NEW n \in 1 .. Len(s) - i PROVE y[n] = s[n + i] /\ n + i \in DOMAIN s
      BY <1>0, <1>1
    <2>3. QED BY <2>1, <2>2
  <1>3. Sorted(s) => Sorted(y)
    <2> HAVE Sorted(s)
    <2>1. SUFFICES ASSUME NEW n \in 1 .. Len(s) - i, NEW m \in 1 .. Len(s) - i, n < m
                   PROVE  y[n].pos <= y[m].pos
      BY <1>2 DEF Sorted
    <2>2. n + i < m + i
      BY <1>0, <2>1
    <2>3. QED BY <1>2, <2>2 DEF Sorted
  <1>4. ASSUME NEW x \in Int, NotBefore(s, i + 1, x)
        PROVE  NotBefore(y, 1, x)
    <2>1. SUFFICES ASSUME NEW n \in 1 .. Len(s) - i
                   PROVE  x <= y[n].pos
      BY <1>2 DEF NotBefore
    <2>2. n + i >= i + 1
      BY <1>0
    <2>3. QED BY <1>2, <1>4, <2>2 DEF NotBefore
  <1>5. QED BY <1>1, <1>2, <1>3, <1>4

\* What merging gives from place p on.
IsMergedFrom(a, k, p, s) ==
    /\ s \in Seq(Items) /\ Len(s) = ToMerge(a, k, p) /\ Sorted(s)
    /\ \A x \in Int : NotBefore(a, p[1] + 1, x) /\ NotBefore(k, p[2] + 1, x) => NotBefore(s, 1, x)

\* A step of the merge gives a sorted list if the rest is one.
LEMMA MergeStepIs ==
  ASSUME NEW a \in Seq(Items), NEW k \in Seq(Items), Sorted(a), Sorted(k), NEW f,
         NEW p \in Places(a, k),
         \A r \in Places(a, k) :
           ToMerge(a, k, r) < ToMerge(a, k, p) => IsMergedFrom(a, k, r, f[r])
  PROVE  IsMergedFrom(a, k, p, MergeStep(a, k, f, p))
  <1>0. Len(a) \in Nat /\ Len(k) \in Nat /\ DOMAIN a = 1 .. Len(a) /\ DOMAIN k = 1 .. Len(k)
    OBVIOUS
  <1>1. PICK i \in 0 .. Len(a), j \in 0 .. Len(k) : p = <<i, j>>
    BY DEF Places
  <1>2. p[1] = i /\ p[2] = j /\ ToMerge(a, k, p) = (Len(a) - i) + (Len(k) - j)
    BY <1>1 DEF ToMerge
  <1>3. PICK y : y = MergeStep(a, k, f, p)
    OBVIOUS
  <1>4. CASE i = Len(a)
    <2>1. y = SubSeq(k, j + 1, Len(k))
      BY <1>2, <1>3, <1>4 DEF MergeStep
    <2>2. /\ y \in Seq(Items) /\ Len(y) = Len(k) - j /\ Sorted(y)
          /\ \A x \in Int : NotBefore(k, j + 1, x) => NotBefore(y, 1, x)
      BY <2>1, RestIs
    <2>3. Len(y) = ToMerge(a, k, p)
      BY <1>0, <1>2, <1>4, <2>2
    <2>4. QED BY <1>2, <1>3, <2>2, <2>3 DEF IsMergedFrom
  <1>5. CASE i # Len(a) /\ j = Len(k)
    <2>1. y = SubSeq(a, i + 1, Len(a))
      BY <1>2, <1>3, <1>5 DEF MergeStep
    <2>2. /\ y \in Seq(Items) /\ Len(y) = Len(a) - i /\ Sorted(y)
          /\ \A x \in Int : NotBefore(a, i + 1, x) => NotBefore(y, 1, x)
      BY <2>1, RestIs
    <2>3. Len(y) = ToMerge(a, k, p)
      BY <1>0, <1>2, <1>5, <2>2
    <2>4. QED BY <1>2, <1>3, <2>2, <2>3 DEF IsMergedFrom
  <1>6. CASE i # Len(a) /\ j # Len(k)
    <2>3. /\ i \in Nat /\ j \in Nat /\ Len(a) \in Nat /\ Len(k) \in Nat
          /\ i < Len(a) /\ j < Len(k)
      <3>1. Len(a) \in Nat /\ Len(k) \in Nat
        BY <1>0
      <3>2. i \in Nat /\ j \in Nat /\ i <= Len(a) /\ j <= Len(k)
        BY <3>1
      <3>3. PICK la \in Nat, lk \in Nat : la = Len(a) /\ lk = Len(k)
        BY <3>1
      <3>4. i <= la /\ j <= lk /\ i # la /\ j # lk
        BY <1>6, <3>2, <3>3
      <3>5. i < la /\ j < lk
        BY <3>2, <3>4
      <3>6. QED BY <3>2, <3>3, <3>5
    <2>0. /\ i + 1 \in DOMAIN a /\ j + 1 \in DOMAIN k
          /\ a[i + 1] \in Items /\ k[j + 1] \in Items
          /\ a[i + 1].pos \in Int /\ k[j + 1].pos \in Int
      <3>0. i + 1 \in 1 .. Len(a) /\ j + 1 \in 1 .. Len(k)
        BY <2>3
      <3>1. i + 1 \in DOMAIN a /\ j + 1 \in DOMAIN k
        BY <1>0, <3>0
      <3>2. a[i + 1] \in Items /\ k[j + 1] \in Items
        BY <3>1
      <3>3. QED BY <3>1, <3>2 DEF Items
    <2>1. CASE a[i + 1].pos < k[j + 1].pos
      <3>1. PICK r : r = <<i + 1, j>>
        OBVIOUS
      <3>2. /\ r \in Places(a, k) /\ r[1] = i + 1 /\ r[2] = j
            /\ ToMerge(a, k, r) = ToMerge(a, k, p) - 1 /\ ToMerge(a, k, p) \in Nat
        <4>0. i + 1 \in 0 .. Len(a) /\ j \in 0 .. Len(k)
          BY <2>3
        <4>1. r[1] = i + 1 /\ r[2] = j /\ i + 1 \in 0 .. Len(a) /\ j \in 0 .. Len(k)
          BY <3>1, <4>0
        <4>2. r \in Places(a, k)
          BY <3>1, <4>1 DEF Places
        <4>3. ToMerge(a, k, r) = ToMerge(a, k, p) - 1 /\ ToMerge(a, k, p) \in Nat
          BY <1>0, <1>2, <4>1 DEF ToMerge
        <4>4. QED BY <4>1, <4>2, <4>3
      <3>3. IsMergedFrom(a, k, r, f[r])
        BY <3>2
      <3>4. y = <<a[i + 1]>> \o f[r]
        BY <1>2, <1>3, <1>6, <2>1, <3>1 DEF MergeStep
      <3>5. NotBefore(a, i + 2, a[i + 1].pos) /\ NotBefore(k, j + 1, a[i + 1].pos)
        <4>1. ASSUME NEW m \in DOMAIN a, m >= i + 2
              PROVE  a[i + 1].pos <= a[m].pos
          <5>1. i + 1 < m
            BY <1>0, <4>1
          <5>2. QED BY <2>0, <5>1 DEF Sorted
        <4>2. ASSUME NEW m \in DOMAIN k, m >= j + 1
              PROVE  a[i + 1].pos <= k[m].pos
          <5>1. k[j + 1].pos <= k[m].pos /\ k[m].pos \in Int
            <6>1. k[m] \in Items
              OBVIOUS
            <6>2. CASE m = j + 1
              BY <2>0, <6>2
            <6>3. CASE m # j + 1
              <7>1. j + 1 < m
                BY <1>0, <4>2, <6>3
              <7>2. QED BY <2>0, <6>1, <7>1 DEF Sorted, Items
            <6>4. QED BY <6>2, <6>3
          <5>2. QED BY <2>0, <2>1, <5>1
        <4>3. QED BY <4>1, <4>2 DEF NotBefore
      <3>6. r[1] + 1 = i + 2 /\ r[2] + 1 = j + 1
        BY <1>0, <3>2
      <3>7. /\ f[r] \in Seq(Items) /\ Len(f[r]) = ToMerge(a, k, r) /\ Sorted(f[r])
            /\ NotBefore(f[r], 1, a[i + 1].pos)
            /\ \A x \in Int : NotBefore(a, i + 2, x) /\ NotBefore(k, j + 1, x)
                             => NotBefore(f[r], 1, x)
        BY <2>0, <3>3, <3>5, <3>6 DEF IsMergedFrom
      <3>8. /\ y \in Seq(Items) /\ Len(y) = Len(f[r]) + 1 /\ Sorted(y)
            /\ \A x \in Int : x <= a[i + 1].pos /\ NotBefore(f[r], 1, x) => NotBefore(y, 1, x)
        BY <2>0, <3>4, <3>7, ConsIs
      <3>9. ASSUME NEW x \in Int, NotBefore(a, i + 1, x), NotBefore(k, j + 1, x)
            PROVE  NotBefore(y, 1, x)
        <4>1. x <= a[i + 1].pos /\ NotBefore(a, i + 2, x)
          BY <1>0, <2>0, <3>9 DEF NotBefore
        <4>2. QED BY <3>7, <3>8, <3>9, <4>1
      <3>10. Len(y) = ToMerge(a, k, p)
        BY <3>2, <3>7, <3>8
      <3>11. QED BY <1>2, <1>3, <3>8, <3>9, <3>10 DEF IsMergedFrom
    <2>2. CASE ~(a[i + 1].pos < k[j + 1].pos)
      <3>1. PICK r : r = <<i, j + 1>>
        OBVIOUS
      <3>2. /\ r \in Places(a, k) /\ r[1] = i /\ r[2] = j + 1
            /\ ToMerge(a, k, r) = ToMerge(a, k, p) - 1 /\ ToMerge(a, k, p) \in Nat
        <4>0. i \in 0 .. Len(a) /\ j + 1 \in 0 .. Len(k)
          BY <2>3
        <4>1. r[1] = i /\ r[2] = j + 1 /\ i \in 0 .. Len(a) /\ j + 1 \in 0 .. Len(k)
          BY <3>1, <4>0
        <4>2. r \in Places(a, k)
          BY <3>1, <4>1 DEF Places
        <4>3. ToMerge(a, k, r) = ToMerge(a, k, p) - 1 /\ ToMerge(a, k, p) \in Nat
          BY <1>0, <1>2, <4>1 DEF ToMerge
        <4>4. QED BY <4>1, <4>2, <4>3
      <3>3. IsMergedFrom(a, k, r, f[r])
        BY <3>2
      <3>4. y = <<k[j + 1]>> \o f[r]
        BY <1>2, <1>3, <1>6, <2>2, <3>1 DEF MergeStep
      <3>5. NotBefore(a, i + 1, k[j + 1].pos) /\ NotBefore(k, j + 2, k[j + 1].pos)
        <4>1. ASSUME NEW m \in DOMAIN k, m >= j + 2
              PROVE  k[j + 1].pos <= k[m].pos
          <5>1. j + 1 < m
            BY <1>0, <4>1
          <5>2. QED BY <2>0, <5>1 DEF Sorted
        <4>2. ASSUME NEW m \in DOMAIN a, m >= i + 1
              PROVE  k[j + 1].pos <= a[m].pos
          <5>1. a[i + 1].pos <= a[m].pos /\ a[m].pos \in Int
            <6>1. a[m] \in Items
              OBVIOUS
            <6>2. CASE m = i + 1
              BY <2>0, <6>2
            <6>3. CASE m # i + 1
              <7>1. i + 1 < m
                BY <1>0, <4>2, <6>3
              <7>2. QED BY <2>0, <6>1, <7>1 DEF Sorted, Items
            <6>4. QED BY <6>2, <6>3
          <5>2. QED BY <2>0, <2>2, <5>1
        <4>3. QED BY <4>1, <4>2 DEF NotBefore
      <3>6. r[1] + 1 = i + 1 /\ r[2] + 1 = j + 2
        BY <1>0, <3>2
      <3>7. /\ f[r] \in Seq(Items) /\ Len(f[r]) = ToMerge(a, k, r) /\ Sorted(f[r])
            /\ NotBefore(f[r], 1, k[j + 1].pos)
            /\ \A x \in Int : NotBefore(a, i + 1, x) /\ NotBefore(k, j + 2, x)
                             => NotBefore(f[r], 1, x)
        BY <2>0, <3>3, <3>5, <3>6 DEF IsMergedFrom
      <3>8. /\ y \in Seq(Items) /\ Len(y) = Len(f[r]) + 1 /\ Sorted(y)
            /\ \A x \in Int : x <= k[j + 1].pos /\ NotBefore(f[r], 1, x) => NotBefore(y, 1, x)
        BY <2>0, <3>4, <3>7, ConsIs
      <3>9. ASSUME NEW x \in Int, NotBefore(a, i + 1, x), NotBefore(k, j + 1, x)
            PROVE  NotBefore(y, 1, x)
        <4>1. x <= k[j + 1].pos /\ NotBefore(k, j + 2, x)
          BY <1>0, <2>0, <3>9 DEF NotBefore
        <4>2. QED BY <3>7, <3>8, <3>9, <4>1
      <3>10. Len(y) = ToMerge(a, k, p)
        BY <3>2, <3>7, <3>8
      <3>11. QED BY <1>2, <1>3, <3>8, <3>9, <3>10 DEF IsMergedFrom
    <2>4. QED BY <2>1, <2>2
  <1>7. QED BY <1>4, <1>5, <1>6

\* Whatever the order of two lists, their merge has all items of both.
LEMMA MergedKeeps ==
  ASSUME NEW a \in Seq(Items), NEW k \in Seq(Items)
  PROVE  Merged(a, k) \in Seq(Items) /\ Len(Merged(a, k)) = Len(a) + Len(k)
  <1> DEFINE Fits(p, s) == s \in Seq(Items) /\ Len(s) = ToMerge(a, k, p)
  <1>0. Len(a) \in Nat /\ Len(k) \in Nat /\ DOMAIN a = 1 .. Len(a) /\ DOMAIN k = 1 .. Len(k)
    OBVIOUS
  <1>1. PICK f : /\ Merged(a, k) = f[<<0, 0>>]
                 /\ \A p \in Places(a, k) : f[p] = MergeStep(a, k, f, p)
    BY <1>0, MergedIs
  <1>2. \A p \in Places(a, k) : ToMerge(a, k, p) \in Nat
    BY <1>0, PlaceAfter
  <1>3. ASSUME NEW p \in Places(a, k),
               \A r \in Places(a, k) : ToMerge(a, k, r) < ToMerge(a, k, p) => Fits(r, f[r])
        PROVE  Fits(p, f[p])
    <2>1. PICK i \in 0 .. Len(a), j \in 0 .. Len(k) : p = <<i, j>>
      BY DEF Places
    <2>2. p[1] = i /\ p[2] = j /\ ToMerge(a, k, p) = (Len(a) - i) + (Len(k) - j)
      BY <2>1 DEF ToMerge
    <2>3. f[p] = MergeStep(a, k, f, p)
      BY <1>1
    <2>4. CASE i = Len(a)
      <3>1. f[p] = SubSeq(k, j + 1, Len(k))
        BY <2>2, <2>3, <2>4 DEF MergeStep
      <3>2. /\ SubSeq(k, j + 1, Len(k)) \in Seq(Items)
            /\ Len(SubSeq(k, j + 1, Len(k))) = Len(k) - j
        BY RestIs
      <3>3. ToMerge(a, k, p) = Len(k) - j
        BY <1>0, <2>2, <2>4
      <3>4. QED BY <3>1, <3>2, <3>3
    <2>5. CASE i # Len(a) /\ j = Len(k)
      <3>1. f[p] = SubSeq(a, i + 1, Len(a))
        BY <2>2, <2>3, <2>5 DEF MergeStep
      <3>2. /\ SubSeq(a, i + 1, Len(a)) \in Seq(Items)
            /\ Len(SubSeq(a, i + 1, Len(a))) = Len(a) - i
        BY RestIs
      <3>3. ToMerge(a, k, p) = Len(a) - i
        <4>1. (Len(a) - i) + (Len(k) - Len(k)) = Len(a) - i
          BY <1>0, Rests
        <4>2. QED BY <2>2, <2>5, <4>1
      <3>4. QED BY <3>1, <3>2, <3>3
    <2>6. CASE i # Len(a) /\ j # Len(k)
      <3>1. PICK r \in Places(a, k), x \in Items :
              f[p] = <<x>> \o f[r] /\ ToMerge(a, k, r) = ToMerge(a, k, p) - 1
        <4>1. /\ <<i + 1, j>> \in Places(a, k) /\ ToMerge(a, k, <<i + 1, j>>) = ToMerge(a, k, p) - 1
              /\ <<i, j + 1>> \in Places(a, k) /\ ToMerge(a, k, <<i, j + 1>>) = ToMerge(a, k, p) - 1
          <5>1. /\ p[1] # Len(a) => /\ <<p[1] + 1, p[2]>> \in Places(a, k)
                                    /\ ToMerge(a, k, <<p[1] + 1, p[2]>>) = ToMerge(a, k, p) - 1
                /\ p[2] # Len(k) => /\ <<p[1], p[2] + 1>> \in Places(a, k)
                                    /\ ToMerge(a, k, <<p[1], p[2] + 1>>) = ToMerge(a, k, p) - 1
            BY <1>0, PlaceAfter
          <5>2. /\ <<p[1] + 1, p[2]>> = <<i + 1, j>> /\ <<p[1], p[2] + 1>> = <<i, j + 1>>
                /\ p[1] # Len(a) /\ p[2] # Len(k)
            BY <2>2, <2>6
          <5>3. PICK u, w : u = <<i + 1, j>> /\ w = <<i, j + 1>>
            OBVIOUS
          <5>4. /\ u \in Places(a, k) /\ ToMerge(a, k, u) = ToMerge(a, k, p) - 1
                /\ w \in Places(a, k) /\ ToMerge(a, k, w) = ToMerge(a, k, p) - 1
            BY <5>1, <5>2, <5>3
          <5>5. QED BY <5>3, <5>4
        <4>2. a[i + 1] \in Items /\ k[j + 1] \in Items
          <5>1. i + 1 \in 1 .. Len(a) /\ j + 1 \in 1 .. Len(k)
            BY <1>0, <2>6, Rests
          <5>2. \A n \in 1 .. Len(a) : a[n] \in Items
            OBVIOUS
          <5>3. \A n \in 1 .. Len(k) : k[n] \in Items
            OBVIOUS
          <5>4. QED BY <5>1, <5>2, <5>3
        <4>3. CASE a[i + 1].pos < k[j + 1].pos
          <5>1. f[p] = <<a[i + 1]>> \o f[<<i + 1, j>>]
            BY <2>2, <2>3, <2>6, <4>3 DEF MergeStep
          <5>2. QED BY <4>1, <4>2, <5>1
        <4>4. CASE ~(a[i + 1].pos < k[j + 1].pos)
          <5>1. f[p] = <<k[j + 1]>> \o f[<<i, j + 1>>]
            BY <2>2, <2>3, <2>6, <4>4 DEF MergeStep
          <5>2. QED BY <4>1, <4>2, <5>1
        <4>5. QED BY <4>3, <4>4
      <3>2. ToMerge(a, k, p) \in Nat /\ ToMerge(a, k, r) < ToMerge(a, k, p)
        BY <1>2, <3>1
      <3>3. f[r] \in Seq(Items) /\ Len(f[r]) = ToMerge(a, k, p) - 1
        BY <1>3, <3>1, <3>2
      <3>4. PICK z \in Seq(Items) : z = f[r]
        BY <3>3
      <3>5. <<x>> \o z \in Seq(Items) /\ Len(<<x>> \o z) = Len(z) + 1
        OBVIOUS
      <3>6. f[p] = <<x>> \o z /\ Len(z) = ToMerge(a, k, p) - 1
        BY <3>1, <3>3, <3>4
      <3>7. QED BY <3>2, <3>5, <3>6
    <2>7. QED BY <2>4, <2>5, <2>6
  <1> DEFINE B == {n \in Nat : \E p \in Places(a, k) : ToMerge(a, k, p) = n /\ ~Fits(p, f[p])}
  <1> HIDE DEF Fits
  <1>4. B = {}
    <2>1. SUFFICES ASSUME B # {} PROVE FALSE
      OBVIOUS
    <2>2. B \in SUBSET Nat
      OBVIOUS
    <2>3. PICK m \in B : \A n \in B : m <= n
      <3> HIDE DEF B
      <3> QED BY <2>1, <2>2, Smallest
    <2>4. PICK p \in Places(a, k) : ToMerge(a, k, p) = m /\ ~Fits(p, f[p])
      OBVIOUS
    <2>5. ASSUME NEW r \in Places(a, k), ToMerge(a, k, r) < ToMerge(a, k, p)
          PROVE  Fits(r, f[r])
      <3>1. PICK n \in Nat : n = ToMerge(a, k, r) /\ n < m /\ m \in Nat
        BY <1>2, <2>4, <2>5
      <3>2. n \notin B
        <4> HIDE DEF B
        <4> QED BY <2>3, <3>1
      <3>3. QED BY <3>1, <3>2
    <2>6. Fits(p, f[p])
      BY <1>3, <2>5
    <2>7. QED BY <2>4, <2>6
  <1>5. PICK z : z = <<0, 0>>
    OBVIOUS
  <1>6. z \in Places(a, k) /\ ToMerge(a, k, z) = Len(a) + Len(k)
    BY <1>0, <1>5 DEF Places, ToMerge
  <1>7. Fits(z, f[z])
    BY <1>2, <1>4, <1>6
  <1>8. QED BY <1>1, <1>5, <1>6, <1>7 DEF Fits

\* The merge of two sorted lists is sorted, has all items, and begins no earlier
\* than they do.
LEMMA MergedInOrder ==
  ASSUME NEW a \in Seq(Items), NEW k \in Seq(Items), Sorted(a), Sorted(k)
  PROVE  /\ Merged(a, k) \in Seq(Items)
         /\ Len(Merged(a, k)) = Len(a) + Len(k)
         /\ Sorted(Merged(a, k))
         /\ \A x \in Int : NotBefore(a, 1, x) /\ NotBefore(k, 1, x) => NotBefore(Merged(a, k), 1, x)
  <1>0. Len(a) \in Nat /\ Len(k) \in Nat
    OBVIOUS
  <1>1. PICK f : /\ Merged(a, k) = f[<<0, 0>>]
                 /\ \A p \in Places(a, k) : f[p] = MergeStep(a, k, f, p)
    BY <1>0, MergedIs
  <1>2. \A p \in Places(a, k) : ToMerge(a, k, p) \in Nat
    BY <1>0, PlaceAfter
  <1> DEFINE B == {n \in Nat : \E p \in Places(a, k) :
                                 ToMerge(a, k, p) = n /\ ~IsMergedFrom(a, k, p, f[p])}
  <1>3. B = {}
    <2>1. SUFFICES ASSUME B # {} PROVE FALSE
      OBVIOUS
    <2>2. B \in SUBSET Nat
      OBVIOUS
    <2>3. PICK m \in B : \A n \in B : m <= n
      <3> HIDE DEF B
      <3> QED BY <2>1, <2>2, Smallest
    <2>4. PICK p \in Places(a, k) : ToMerge(a, k, p) = m /\ ~IsMergedFrom(a, k, p, f[p])
      OBVIOUS
    <2>5. ASSUME NEW r \in Places(a, k), ToMerge(a, k, r) < ToMerge(a, k, p)
          PROVE  IsMergedFrom(a, k, r, f[r])
      <3>1. PICK n \in Nat : n = ToMerge(a, k, r) /\ n < m /\ m \in Nat
        BY <1>2, <2>4, <2>5
      <3>2. n \notin B
        <4> HIDE DEF B
        <4> QED BY <2>3, <3>1
      <3>3. QED BY <3>1, <3>2
    <2>6. IsMergedFrom(a, k, p, MergeStep(a, k, f, p))
      BY <2>5, MergeStepIs
    <2>7. QED BY <1>1, <2>4, <2>6
  <1>4. PICK z : z = <<0, 0>>
    OBVIOUS
  <1>5. z \in Places(a, k) /\ z[1] + 1 = 1 /\ z[2] + 1 = 1 /\ ToMerge(a, k, z) = Len(a) + Len(k)
    BY <1>0, <1>4 DEF Places, ToMerge
  <1>6. IsMergedFrom(a, k, z, f[z])
    BY <1>2, <1>3, <1>5
  <1>7. QED BY <1>1, <1>4, <1>5, <1>6 DEF IsMergedFrom

------------------------------------------------------------------------------
(* Setting the time: the separation of the list *)

\* The two lists that psx4_adjust_callout makes, and its variables.
Separations == [abs : Seq(Items), kept : Seq(Items), carry : Int, pdelta : Int]

\* What psx4_adjust_callout has found after entry e, if it had found acc before.
SeparateStep(acc, e) ==
    LET t == e.time + acc.carry
        placed == [call |-> e.call, pos |-> t + acc.pdelta] IN
    IF e.call \in Absolute
    THEN [acc EXCEPT !.abs = Append(@, placed),
                     !.carry = IF t > 0 THEN t ELSE 0]
    ELSE [acc EXCEPT !.kept = Append(@, placed),
                     !.carry = 0, !.pdelta = @ + t]

\* The two ways of separating an entry.
LEMMA SeparateStepIs ==
  ASSUME NEW acc \in Separations, NEW e \in Entries
  PROVE  /\ SeparateStep(acc, e) \in Separations
         /\ \E placed \in Items :
              /\ placed = [call |-> e.call, pos |-> (e.time + acc.carry) + acc.pdelta]
              /\ e.call \in Absolute =>
                   SeparateStep(acc, e) =
                     [abs |-> Append(acc.abs, placed), kept |-> acc.kept,
                      carry |-> IF e.time + acc.carry > 0 THEN e.time + acc.carry ELSE 0,
                      pdelta |-> acc.pdelta]
              /\ e.call \notin Absolute =>
                   SeparateStep(acc, e) =
                     [abs |-> acc.abs, kept |-> Append(acc.kept, placed),
                      carry |-> 0, pdelta |-> acc.pdelta + (e.time + acc.carry)]
  <1>0. /\ acc.abs \in Seq(Items) /\ acc.kept \in Seq(Items)
        /\ acc.carry \in Int /\ acc.pdelta \in Int
        /\ e.time \in Int /\ e.call \in Calls
    BY DEF Separations, Entries
  <1>1. PICK placed : placed = [call |-> e.call, pos |-> (e.time + acc.carry) + acc.pdelta]
    OBVIOUS
  <1>2. placed \in Items
    BY <1>0, <1>1 DEF Items
  <1>3. e.call \in Absolute =>
           SeparateStep(acc, e) =
             [abs |-> Append(acc.abs, placed), kept |-> acc.kept,
              carry |-> IF e.time + acc.carry > 0 THEN e.time + acc.carry ELSE 0,
              pdelta |-> acc.pdelta]
    BY <1>1 DEF SeparateStep, Separations
  <1>4. e.call \notin Absolute =>
           SeparateStep(acc, e) =
             [abs |-> acc.abs, kept |-> Append(acc.kept, placed),
              carry |-> 0, pdelta |-> acc.pdelta + (e.time + acc.carry)]
    BY <1>1 DEF SeparateStep, Separations
  <1>5. Append(acc.abs, placed) \in Seq(Items) /\ Append(acc.kept, placed) \in Seq(Items)
    BY <1>0, <1>2
  <1>6. SeparateStep(acc, e) \in Separations
    <2>0. \A a \in Seq(Items), k \in Seq(Items), c \in Int, d \in Int :
             [abs |-> a, kept |-> k, carry |-> c, pdelta |-> d] \in Separations
      BY DEF Separations
    <2>1. CASE e.call \in Absolute
      <3>1. (IF e.time + acc.carry > 0 THEN e.time + acc.carry ELSE 0) \in Int
        BY <1>0
      <3>2. PICK a, c : /\ a = Append(acc.abs, placed)
                        /\ c = IF e.time + acc.carry > 0 THEN e.time + acc.carry ELSE 0
        OBVIOUS
      <3>3. SeparateStep(acc, e) =
              [abs |-> a, kept |-> acc.kept, carry |-> c, pdelta |-> acc.pdelta]
        BY <1>3, <2>1, <3>2
      <3>4. a \in Seq(Items) /\ c \in Int
        BY <1>5, <3>1, <3>2
      <3>5. QED BY <1>0, <2>0, <3>3, <3>4
    <2>2. CASE e.call \notin Absolute
      <3>1. acc.pdelta + (e.time + acc.carry) \in Int
        BY <1>0
      <3>2. PICK k, d : k = Append(acc.kept, placed) /\ d = acc.pdelta + (e.time + acc.carry)
        OBVIOUS
      <3>3. SeparateStep(acc, e) = [abs |-> acc.abs, kept |-> k, carry |-> 0, pdelta |-> d]
        BY <1>4, <2>2, <3>2
      <3>4. k \in Seq(Items) /\ d \in Int /\ 0 \in Int
        BY <1>5, <3>1, <3>2
      <3>5. QED BY <1>0, <2>0, <3>3, <3>4
    <2>3. QED BY <2>1, <2>2
  <1>7. QED BY <1>1, <1>2, <1>3, <1>4, <1>6

\* The fold as a function of the number of entries seen.
LEMMA SeparatedBySteps ==
  ASSUME NEW q \in Seq(Entries)
  PROVE  \E r \in [0 .. Len(q) -> Separations] :
           /\ r[0] = [abs |-> <<>>, kept |-> <<>>, carry |-> 0, pdelta |-> 0]
           /\ r[Len(q)] = Separated(q)
           /\ \A i \in 1 .. Len(q) : r[i] = SeparateStep(r[i - 1], q[i])
  <1> DEFINE n == Len(q)
             none == [abs |-> <<>>, kept |-> <<>>, carry |-> 0, pdelta |-> 0]
             IsIt(it) == it = [x \in SUBSET (DOMAIN q) |->
                                 IF x = {} THEN none
                                 ELSE SeparateStep(it[x \ {Max(x)}], q[Max(x)])]
             h == [y \in (1 .. n) \X Separations |-> SeparateStep(y[2], q[y[1]])]
  <1>0. n \in Nat /\ DOMAIN q = 1 .. n /\ \A i \in 1 .. n : q[i] \in Entries
    OBVIOUS
  <1>1. Separated(q) = (CHOOSE it : IsIt(it))[DOMAIN q]
    BY DEF Separated, FoldLeft, MapThenFoldSet, SeparateStep
  <1>2. none \in Separations
    BY DEF Separations
  <1> HIDE DEF n, none
  <1>3. h \in Steps(1 .. n, Separations)
    <2>1. ASSUME NEW y \in (1 .. n) \X Separations
          PROVE  SeparateStep(y[2], q[y[1]]) \in Separations
      BY <1>0, SeparateStepIs
    <2>2. QED BY <2>1 DEF Steps
  <1>4. PICK it \in [SUBSET (1 .. n) -> Separations] : GoesAlong(it, n, none, h)
    <2> HIDE DEF h
    <2> QED BY <1>0, <1>2, <1>3, FoldAlong
  <1>5. /\ IsFold(it, 1 .. n, none, h, Latest(n)) /\ it[1 .. 0] = none
        /\ \A i \in 1 .. n : it[1 .. i] = h[<<i, it[1 .. (i - 1)]>>]
    BY <1>4 DEF GoesAlong
  <1>6. IsIt(it)
    <2>1. ASSUME NEW x \in SUBSET (1 .. n), x # {}
          PROVE  it[x] = SeparateStep(it[x \ {Max(x)}], q[Max(x)])
      <3>1. Max(x) \in 1 .. n /\ Latest(n)[x] = Max(x)
        BY <1>0, <2>1, MaxOfSet DEF Latest
      <3>2. it[x] = h[<<Max(x), it[x \ {Max(x)}]>>]
        BY <2>1, <3>1, <1>5 DEF IsFold
      <3>3. it[x \ {Max(x)}] \in Separations
        BY <1>4
      <3>4. QED BY <3>1, <3>2, <3>3
    <2>2. it[{}] = none
      BY <1>5 DEF IsFold
    <2>3. QED BY <1>0, <1>4, <2>1, <2>2
  <1> DEFINE iter == CHOOSE i : IsIt(i)
  <1>7. IsIt(iter)
    BY <1>6
  <1> HIDE DEF iter
  <1> DEFINE r == [i \in 0 .. n |-> it[1 .. i]]
  <1>8. /\ r[0] = none /\ r \in [0 .. n -> Separations]
        /\ \A i \in 1 .. n : r[i] = SeparateStep(r[i - 1], q[i])
    <2>1. r[0] = none /\ r \in [0 .. n -> Separations]
      BY <1>0, <1>4, <1>5
    <2>2. ASSUME NEW i \in 1 .. n
          PROVE  r[i] = SeparateStep(r[i - 1], q[i])
      <3>1. it[1 .. i] = h[<<i, it[1 .. (i - 1)]>>]
        BY <1>5
      <3>2. i - 1 \in 0 .. n /\ i \in 0 .. n /\ it[1 .. (i - 1)] \in Separations
        BY <1>0, <1>4
      <3>3. QED BY <3>1, <3>2
    <2>3. QED BY <2>1, <2>2
  <1>9. \A i \in 0 .. n : iter[1 .. i] = r[i]
    <2> DEFINE B == {i \in 0 .. n : iter[1 .. i] # r[i]}
    <2>1. SUFFICES ASSUME B # {} PROVE FALSE
      OBVIOUS
    <2>2. PICK m \in B : \A k \in B : m <= k
      <3>1. B \in SUBSET Nat
        OBVIOUS
      <3> HIDE DEF B
      <3>2. QED BY <2>1, <3>1, Smallest
    <2>3. m # 0
      <3>1. 1 .. 0 = {} /\ {} \in SUBSET (DOMAIN q)
        OBVIOUS
      <3>2. iter[1 .. 0] = none
        BY <1>7, <3>1
      <3>3. QED BY <3>2, <1>8
    <2>4. m \in 1 .. n /\ m - 1 \in 0 .. n /\ iter[1 .. (m - 1)] = r[m - 1]
      <3>1. m \in 1 .. n /\ m - 1 \in 0 .. n /\ ~(m <= m - 1)
        BY <1>0, <2>2, <2>3
      <3> HIDE DEF r
      <3>2. QED BY <2>2, <3>1
    <2>5. 1 .. m \in SUBSET (DOMAIN q) /\ 1 .. m # {}
      <3>1. m \in Nat /\ m <= n /\ m \in 1 .. m
        BY <1>0, <2>4
      <3>2. 1 .. m \subseteq 1 .. n
        BY <1>0, <3>1
      <3>3. QED BY <1>0, <3>1, <3>2
    <2>6. Max(1 .. m) = m /\ (1 .. m) \ {m} = 1 .. (m - 1)
      BY <2>4, MaxOfInterval
    <2>7. iter[1 .. m] = SeparateStep(iter[1 .. (m - 1)], q[m])
      BY <1>7, <2>5, <2>6
    <2>8. r[m] = SeparateStep(r[m - 1], q[m])
      <3> HIDE DEF r
      <3> QED BY <1>8, <2>4
    <2>9. iter[1 .. m] = r[m]
      BY <2>4, <2>7, <2>8
    <2>10. QED BY <2>9
  <1>10. Separated(q) = r[n]
    <2>1. Separated(q) = iter[1 .. n]
      BY <1>0, <1>1 DEF iter
    <2> HIDE DEF r
    <2>2. n \in 0 .. n
      BY <1>0
    <2>3. QED BY <1>9, <2>1, <2>2
  <1>11. QED
    <2> HIDE DEF r
    <2> QED BY <1>8, <1>10 DEF n, none

\* No entry is late.
NotNegative(q) == \A i \in 1 .. Len(q) : q[i].time >= 0

\* The time left to entry i of such a list is the sum of the times up to it.
SumUpto(q, i) == -Remainder(q, 0, i)

\* Sums of the times of a list no entry of which is late.
LEMMA SumUptoIs ==
  ASSUME NEW q \in Seq(Entries), NotNegative(q)
  PROVE  /\ SumUpto(q, 0) = 0
         /\ \A i \in 0 .. Len(q) : SumUpto(q, i) \in Int
         /\ \A i \in 1 .. Len(q) : /\ SumUpto(q, i) = SumUpto(q, i - 1) + q[i].time
                                   /\ Left(q, i) = SumUpto(q, i)
         /\ \A i, j \in 0 .. Len(q) : i <= j => SumUpto(q, i) <= SumUpto(q, j)
  <1>0. Len(q) \in Nat /\ \A i \in 1 .. Len(q) : q[i].time \in Int
    <2>1. \A i \in 1 .. Len(q) : q[i] \in Entries
      OBVIOUS
    <2>2. QED BY <2>1 DEF Entries
  <1>1. /\ Remainder(q, 0, 0) = 0
        /\ \A n \in 0 .. Len(q) : Remainder(q, 0, n) \in Int
        /\ \A n \in 1 .. Len(q) :
              Remainder(q, 0, n) = IF q[n].time > 0 THEN Remainder(q, 0, n - 1) - q[n].time
                                   ELSE Remainder(q, 0, n - 1)
    <2>1. 0 \in Int
      OBVIOUS
    <2>2. QED BY <2>1, RemainderSteps
  <1>2. SumUpto(q, 0) = 0
    BY <1>1 DEF SumUpto
  <1>3. \A i \in 0 .. Len(q) : SumUpto(q, i) \in Int
    BY <1>1 DEF SumUpto
  <1>4. ASSUME NEW i \in 1 .. Len(q)
        PROVE  /\ SumUpto(q, i) = SumUpto(q, i - 1) + q[i].time
               /\ Left(q, i) = SumUpto(q, i)
    <2>1. i - 1 \in 0 .. Len(q) /\ i \in 0 .. Len(q)
      BY <1>0
    <2>2. PICK u, v : u = Remainder(q, 0, i) /\ v = Remainder(q, 0, i - 1)
      OBVIOUS
    <2>3. u \in Int /\ v \in Int /\ u = IF q[i].time > 0 THEN v - q[i].time ELSE v
      BY <1>1, <2>1, <2>2
    <2>4. q[i].time \in Int /\ q[i].time >= 0
      BY <1>0 DEF NotNegative
    <2>5. -u = -v + q[i].time
      BY <2>3, <2>4
    <2>6. SumUpto(q, i) = -u /\ SumUpto(q, i - 1) = -v
      BY <2>2 DEF SumUpto
    <2>7. Left(q, i) = IF -v = 0 THEN q[i].time ELSE -v + q[i].time
      BY <2>2 DEF Left
    <2>8. QED BY <2>3, <2>4, <2>5, <2>6, <2>7
  <1>5. ASSUME NEW i \in 0 .. Len(q), NEW j \in 0 .. Len(q), i <= j
        PROVE  SumUpto(q, i) <= SumUpto(q, j)
    <2> DEFINE B == {k \in i .. j : ~(SumUpto(q, i) <= SumUpto(q, k))}
    <2>1. B = {}
      <3>1. SUFFICES ASSUME B # {} PROVE FALSE
        OBVIOUS
      <3>2. B \in SUBSET Nat
        BY <1>0
      <3>3. PICK m \in B : \A k \in B : m <= k
        <4> HIDE DEF B
        <4> QED BY <3>1, <3>2, Smallest
      <3>4. m \in i .. j /\ ~(SumUpto(q, i) <= SumUpto(q, m)) /\ m # i
        <4>1. SumUpto(q, i) <= SumUpto(q, i)
          BY <1>3
        <4>2. QED BY <4>1
      <3>5. m \in 1 .. Len(q) /\ m - 1 \in i .. j /\ m - 1 \in 0 .. Len(q) /\ ~(m <= m - 1)
        BY <1>0, <1>5, <3>4
      <3>6. SumUpto(q, i) <= SumUpto(q, m - 1)
        BY <3>3, <3>5
      <3>7. SumUpto(q, m) = SumUpto(q, m - 1) + q[m].time
        BY <1>4, <3>5
      <3>8. q[m].time \in Int /\ q[m].time >= 0
        BY <1>0, <3>5 DEF NotNegative
      <3>9. SumUpto(q, m - 1) \in Int /\ SumUpto(q, i) \in Int
        BY <1>3, <3>5
      <3>10. QED BY <3>4, <3>6, <3>7, <3>8, <3>9
    <2>2. j \in i .. j
      BY <1>0, <1>5
    <2>3. QED BY <2>1, <2>2
  <1>6. QED BY <1>2, <1>3, <1>4, <1>5

\* An item after a sorted list of items, none of which comes after it.
LEMMA AppendSorted ==
  ASSUME NEW s \in Seq(Items), NEW e \in Items, Sorted(s), \A m \in DOMAIN s : s[m].pos <= e.pos
  PROVE  /\ Append(s, e) \in Seq(Items) /\ Len(Append(s, e)) = Len(s) + 1
         /\ Sorted(Append(s, e))
         /\ \A m \in DOMAIN Append(s, e) : (m \in DOMAIN s /\ Append(s, e)[m] = s[m]) \/ Append(s, e)[m] = e
  <1>0. Len(s) \in Nat /\ DOMAIN s = 1 .. Len(s)
    OBVIOUS
  <1>1. PICK y : y = Append(s, e)
    OBVIOUS
  <1>2. /\ y \in Seq(Items) /\ Len(y) = Len(s) + 1 /\ DOMAIN y = 1 .. Len(s) + 1
        /\ y[Len(s) + 1] = e /\ \A m \in 1 .. Len(s) : y[m] = s[m]
    BY <1>0, <1>1
  <1>3. \A m \in DOMAIN y : (m \in DOMAIN s /\ y[m] = s[m]) \/ (m = Len(s) + 1 /\ y[m] = e)
    BY <1>0, <1>2
  <1>4. Sorted(y)
    <2>1. SUFFICES ASSUME NEW i \in DOMAIN y, NEW j \in DOMAIN y, i < j
                   PROVE  y[i].pos <= y[j].pos
      BY DEF Sorted
    <2>2. i \in DOMAIN s /\ y[i] = s[i]
      BY <1>0, <1>2, <1>3, <2>1
    <2>3. CASE j \in DOMAIN s /\ y[j] = s[j]
      BY <2>1, <2>2, <2>3 DEF Sorted
    <2>4. CASE y[j] = e
      BY <2>2, <2>4
    <2>5. QED BY <1>3, <2>3, <2>4
  <1>5. QED BY <1>1, <1>2, <1>3, <1>4

\* acc is what is right after the first i entries of q.
Separates(q, i, acc) ==
    /\ acc \in Separations
    /\ Len(acc.abs) + Len(acc.kept) = i
    /\ acc.carry >= 0 /\ acc.pdelta + acc.carry = SumUpto(q, i)
    /\ Sorted(acc.abs) /\ Sorted(acc.kept)
    /\ \A m \in DOMAIN acc.abs :
         \E j \in 1 .. i : q[j].call \in Absolute /\ acc.abs[m].pos = SumUpto(q, j)
    /\ \A m \in DOMAIN acc.kept : \E j \in 1 .. i : acc.kept[m].pos = SumUpto(q, j)

\* Separating one more entry, whose time carries what was taken out before it.
LEMMA SeparatesStep ==
  ASSUME NEW q \in Seq(Entries), NotNegative(q), NEW i \in 1 .. Len(q), NEW acc,
         Separates(q, i - 1, acc)
  PROVE  Separates(q, i, SeparateStep(acc, q[i]))
  <1>0. Len(q) \in Nat /\ q[i] \in Entries /\ q[i].time \in Int /\ q[i].time >= 0
    <2>1. q[i] \in Entries
      OBVIOUS
    <2>2. QED BY <2>1 DEF Entries, NotNegative
  <1>1. PICK u, v : u = SumUpto(q, i - 1) /\ v = SumUpto(q, i)
    OBVIOUS
  <1>2. /\ i - 1 \in 0 .. Len(q) /\ i \in 0 .. Len(q)
        /\ u \in Int /\ v \in Int /\ v = u + q[i].time
        /\ \A j \in 1 .. i : SumUpto(q, j) \in Int /\ SumUpto(q, j) <= v
    <2>1. i - 1 \in 0 .. Len(q) /\ i \in 0 .. Len(q)
      BY <1>0
    <2>2. u \in Int /\ v \in Int /\ v = u + q[i].time
      BY <1>1, <2>1, SumUptoIs
    <2>3. ASSUME NEW j \in 1 .. i
          PROVE  SumUpto(q, j) \in Int /\ SumUpto(q, j) <= v
      <3>1. j \in 0 .. Len(q) /\ j <= i
        BY <1>0
      <3>2. QED BY <1>1, <2>1, <3>1, SumUptoIs
    <2>4. QED BY <2>1, <2>2, <2>3
  <1>3. /\ acc \in Separations /\ acc.abs \in Seq(Items) /\ acc.kept \in Seq(Items)
        /\ acc.carry \in Int /\ acc.pdelta \in Int
        /\ Len(acc.abs) + Len(acc.kept) = i - 1
        /\ acc.carry >= 0 /\ acc.pdelta + acc.carry = u
        /\ Sorted(acc.abs) /\ Sorted(acc.kept)
    BY <1>1 DEF Separates, Separations
  <1>4. \A m \in DOMAIN acc.abs :
           \E j \in 1 .. i : q[j].call \in Absolute /\ acc.abs[m].pos = SumUpto(q, j)
    <2>1. \A j \in 1 .. (i - 1) : j \in 1 .. i
      BY <1>0
    <2>2. QED BY <2>1 DEF Separates
  <1>5. \A m \in DOMAIN acc.kept : \E j \in 1 .. i : acc.kept[m].pos = SumUpto(q, j)
    <2>1. \A j \in 1 .. (i - 1) : j \in 1 .. i
      BY <1>0
    <2>2. QED BY <2>1 DEF Separates
  <1>6. PICK y : y = SeparateStep(acc, q[i])
    OBVIOUS
  <1>7. y \in Separations
    BY <1>0, <1>3, <1>6, SeparateStepIs
  <1>8. PICK placed \in Items :
          /\ placed = [call |-> q[i].call, pos |-> (q[i].time + acc.carry) + acc.pdelta]
          /\ q[i].call \in Absolute =>
               y = [abs |-> Append(acc.abs, placed), kept |-> acc.kept,
                    carry |-> IF q[i].time + acc.carry > 0 THEN q[i].time + acc.carry ELSE 0,
                    pdelta |-> acc.pdelta]
          /\ q[i].call \notin Absolute =>
               y = [abs |-> acc.abs, kept |-> Append(acc.kept, placed),
                    carry |-> 0, pdelta |-> acc.pdelta + (q[i].time + acc.carry)]
    BY <1>0, <1>3, <1>6, SeparateStepIs
  <1>15. PICK t, c, d, la, lk :
            /\ t = q[i].time /\ c = acc.carry /\ d = acc.pdelta
            /\ la = Len(acc.abs) /\ lk = Len(acc.kept)
    OBVIOUS
  <1>11. /\ t \in Int /\ c \in Int /\ d \in Int /\ la \in Nat /\ lk \in Nat
         /\ t >= 0 /\ c >= 0 /\ d + c = u /\ v = u + t /\ la + lk = i - 1 /\ i \in Nat
    <2>1. t \in Int /\ c \in Int /\ d \in Int /\ t >= 0 /\ c >= 0 /\ d + c = u /\ v = u + t
      BY <1>0, <1>2, <1>3, <1>15
    <2>2. Len(acc.abs) \in Nat /\ Len(acc.kept) \in Nat
      BY <1>3
    <2>3. la \in Nat /\ lk \in Nat /\ la + lk = i - 1
      BY <1>3, <1>15, <2>2
    <2>4. i \in Nat
      BY <1>0
    <2>5. QED BY <2>1, <2>3, <2>4
  <1>9. placed.pos = v /\ i \in 1 .. i
    <2>1. placed.pos = (t + c) + d
      BY <1>8, <1>15
    <2>2. (t + c) + d = v
      BY <1>2, <1>11
    <2>3. QED BY <1>11, <2>1, <2>2
  <1>10. /\ \A m \in DOMAIN acc.abs : acc.abs[m].pos <= placed.pos
         /\ \A m \in DOMAIN acc.kept : acc.kept[m].pos <= placed.pos
    BY <1>2, <1>4, <1>5, <1>9
  <1>12. CASE q[i].call \in Absolute
    <2>1. PICK l : l = Append(acc.abs, placed)
      OBVIOUS
    <2>2. /\ y.abs = l /\ y.kept = acc.kept /\ y.pdelta = acc.pdelta
          /\ y.carry = IF q[i].time + acc.carry > 0 THEN q[i].time + acc.carry ELSE 0
      BY <1>8, <1>12, <2>1
    <2>3. /\ Len(l) = Len(acc.abs) + 1 /\ Sorted(l)
          /\ \A m \in DOMAIN l : (m \in DOMAIN acc.abs /\ l[m] = acc.abs[m]) \/ l[m] = placed
      BY <1>3, <1>10, <2>1, AppendSorted
    <2>4. y.carry >= 0 /\ y.pdelta + y.carry = v
      <3>1. y.carry = (IF t + c > 0 THEN t + c ELSE 0) /\ y.pdelta = d
        BY <1>15, <2>2
      <3>2. t + c >= 0 /\ d + (t + c) = v
        BY <1>2, <1>11
      <3>3. y.carry = t + c
        BY <1>11, <3>1, <3>2
      <3>4. QED BY <3>1, <3>2, <3>3
    <2>5. Len(y.abs) + Len(y.kept) = i
      <3>1. Len(y.abs) = la + 1 /\ Len(y.kept) = lk
        BY <1>15, <2>2, <2>3
      <3>2. (la + 1) + lk = i
        BY <1>11
      <3>3. QED BY <3>1, <3>2
    <2>6. \A m \in DOMAIN y.abs :
             \E j \in 1 .. i : q[j].call \in Absolute /\ y.abs[m].pos = SumUpto(q, j)
      BY <1>1, <1>4, <1>9, <1>12, <2>2, <2>3
    <2>7. QED BY <1>1, <1>3, <1>5, <1>6, <1>7, <2>2, <2>3, <2>4, <2>5, <2>6 DEF Separates
  <1>13. CASE q[i].call \notin Absolute
    <2>1. PICK l : l = Append(acc.kept, placed)
      OBVIOUS
    <2>2. /\ y.abs = acc.abs /\ y.kept = l /\ y.carry = 0
          /\ y.pdelta = acc.pdelta + (q[i].time + acc.carry)
      BY <1>8, <1>13, <2>1
    <2>3. /\ Len(l) = Len(acc.kept) + 1 /\ Sorted(l)
          /\ \A m \in DOMAIN l : (m \in DOMAIN acc.kept /\ l[m] = acc.kept[m]) \/ l[m] = placed
      BY <1>3, <1>10, <2>1, AppendSorted
    <2>4. y.carry >= 0 /\ y.pdelta + y.carry = v
      <3>1. y.carry = 0 /\ y.pdelta = d + (t + c)
        BY <1>15, <2>2
      <3>2. (d + (t + c)) + 0 = v
        BY <1>2, <1>11
      <3>3. QED BY <3>1, <3>2
    <2>5. Len(y.abs) + Len(y.kept) = i
      <3>1. Len(y.abs) = la /\ Len(y.kept) = lk + 1
        BY <1>15, <2>2, <2>3
      <3>2. la + (lk + 1) = i
        BY <1>11
      <3>3. QED BY <3>1, <3>2
    <2>6. \A m \in DOMAIN y.kept : \E j \in 1 .. i : y.kept[m].pos = SumUpto(q, j)
      BY <1>1, <1>5, <1>9, <2>2, <2>3
    <2>7. \A m \in DOMAIN y.abs :
             \E j \in 1 .. i : q[j].call \in Absolute /\ y.abs[m].pos = SumUpto(q, j)
      BY <1>4, <2>2
    <2>8. Sorted(y.abs) /\ Sorted(y.kept) /\ y.pdelta + y.carry = SumUpto(q, i)
      BY <1>1, <1>3, <2>2, <2>3, <2>4
    <2>9. Separates(q, i, y)
      BY <1>7, <2>4, <2>5, <2>6, <2>7, <2>8 DEF Separates
    <2>10. QED BY <1>6, <2>9
  <1>14. QED BY <1>12, <1>13

\* Both lists are sorted by the time left to each entry.
LEMMA SeparatedIs ==
  ASSUME NEW q \in Seq(Entries), NotNegative(q)
  PROVE  Separates(q, Len(q), Separated(q))
  <1>0. Len(q) \in Nat
    OBVIOUS
  <1>1. PICK r \in [0 .. Len(q) -> Separations] :
           /\ r[0] = [abs |-> <<>>, kept |-> <<>>, carry |-> 0, pdelta |-> 0]
           /\ r[Len(q)] = Separated(q)
           /\ \A i \in 1 .. Len(q) : r[i] = SeparateStep(r[i - 1], q[i])
    BY SeparatedBySteps
  <1> DEFINE B == {i \in 0 .. Len(q) : ~Separates(q, i, r[i])}
  <1>2. B = {}
    <2>1. SUFFICES ASSUME B # {} PROVE FALSE
      OBVIOUS
    <2>2. B \in SUBSET Nat
      OBVIOUS
    <2>3. PICK m \in B : \A k \in B : m <= k
      <3> HIDE DEF B
      <3> QED BY <2>1, <2>2, Smallest
    <2>4. m # 0
      <3>1. SumUpto(q, 0) = 0
        BY SumUptoIs
      <3>2. r[0] \in Separations
        BY <1>0, <1>1
      <3>3. Separates(q, 0, r[0])
        BY <1>1, <3>1, <3>2 DEF Separates, Sorted
      <3>4. QED BY <3>3
    <2>5. m \in 1 .. Len(q) /\ m - 1 \in 0 .. Len(q) /\ ~(m <= m - 1)
      BY <1>0, <2>4
    <2>6. Separates(q, m - 1, r[m - 1])
      BY <2>3, <2>5
    <2>7. Separates(q, m, SeparateStep(r[m - 1], q[m]))
      BY <2>5, <2>6, SeparatesStep
    <2>8. QED BY <1>1, <2>5, <2>7
  <1>3. Len(q) \in 0 .. Len(q)
    BY <1>0
  <1>4. QED BY <1>1, <1>2, <1>3

\* Of any list the separation has all entries, in the one list or the other.
LEMMA SeparatedKeeps ==
  ASSUME NEW q \in Seq(Entries)
  PROVE  /\ Separated(q) \in Separations
         /\ Len(Separated(q).abs) + Len(Separated(q).kept) = Len(q)
  <1>0. Len(q) \in Nat /\ \A i \in 1 .. Len(q) : q[i] \in Entries
    OBVIOUS
  <1>1. PICK r \in [0 .. Len(q) -> Separations] :
           /\ r[0] = [abs |-> <<>>, kept |-> <<>>, carry |-> 0, pdelta |-> 0]
           /\ r[Len(q)] = Separated(q)
           /\ \A i \in 1 .. Len(q) : r[i] = SeparateStep(r[i - 1], q[i])
    BY SeparatedBySteps
  <1> DEFINE B == {i \in 0 .. Len(q) : Len(r[i].abs) + Len(r[i].kept) # i}
  <1>2. B = {}
    <2>1. SUFFICES ASSUME B # {} PROVE FALSE
      OBVIOUS
    <2>2. B \in SUBSET Nat
      OBVIOUS
    <2>3. PICK m \in B : \A k \in B : m <= k
      <3> HIDE DEF B
      <3> QED BY <2>1, <2>2, Smallest
    <2>4. m # 0
      <3>1. Len(r[0].abs) + Len(r[0].kept) = 0
        BY <1>1
      <3>2. QED BY <3>1
    <2>5. m \in 1 .. Len(q) /\ m - 1 \in 0 .. Len(q) /\ ~(m <= m - 1)
      BY <1>0, <2>4
    <2>6. Len(r[m - 1].abs) + Len(r[m - 1].kept) = m - 1
      BY <2>3, <2>5
    <2>7. PICK acc \in Separations, e \in Entries : acc = r[m - 1] /\ e = q[m]
      BY <1>0, <1>1, <2>5
    <2>8. PICK placed \in Items :
            /\ e.call \in Absolute =>
                 /\ SeparateStep(acc, e).abs = Append(acc.abs, placed)
                 /\ SeparateStep(acc, e).kept = acc.kept
            /\ e.call \notin Absolute =>
                 /\ SeparateStep(acc, e).abs = acc.abs
                 /\ SeparateStep(acc, e).kept = Append(acc.kept, placed)
      <3>1. PICK z \in Items :
              /\ e.call \in Absolute =>
                   SeparateStep(acc, e) =
                     [abs |-> Append(acc.abs, z), kept |-> acc.kept,
                      carry |-> IF e.time + acc.carry > 0 THEN e.time + acc.carry ELSE 0,
                      pdelta |-> acc.pdelta]
              /\ e.call \notin Absolute =>
                   SeparateStep(acc, e) =
                     [abs |-> acc.abs, kept |-> Append(acc.kept, z),
                      carry |-> 0, pdelta |-> acc.pdelta + (e.time + acc.carry)]
        BY SeparateStepIs
      <3>2. QED BY <3>1
    <2>9. acc.abs \in Seq(Items) /\ acc.kept \in Seq(Items)
      BY DEF Separations
    <2>10. /\ Len(Append(acc.abs, placed)) = Len(acc.abs) + 1 /\ Len(acc.abs) \in Nat
           /\ Len(Append(acc.kept, placed)) = Len(acc.kept) + 1 /\ Len(acc.kept) \in Nat
      BY <2>9
    <2>11. r[m] = SeparateStep(acc, e)
      BY <1>1, <2>5, <2>7
    <2>12. Len(r[m].abs) + Len(r[m].kept) = (Len(acc.abs) + Len(acc.kept)) + 1
      <3>1. CASE e.call \in Absolute
        <4>1. r[m].abs = Append(acc.abs, placed) /\ r[m].kept = acc.kept
          BY <2>8, <2>11, <3>1
        <4>2. PICK la \in Nat, lk \in Nat : la = Len(acc.abs) /\ lk = Len(acc.kept)
          BY <2>10
        <4>3. Len(r[m].abs) = la + 1 /\ Len(r[m].kept) = lk
          BY <2>10, <4>1, <4>2
        <4>4. (la + 1) + lk = (la + lk) + 1
          OBVIOUS
        <4>5. QED BY <4>2, <4>3, <4>4
      <3>2. CASE e.call \notin Absolute
        <4>1. r[m].abs = acc.abs /\ r[m].kept = Append(acc.kept, placed)
          BY <2>8, <2>11, <3>2
        <4>2. PICK la \in Nat, lk \in Nat : la = Len(acc.abs) /\ lk = Len(acc.kept)
          BY <2>10
        <4>3. Len(r[m].abs) = la /\ Len(r[m].kept) = lk + 1
          BY <2>10, <4>1, <4>2
        <4>4. la + (lk + 1) = (la + lk) + 1
          OBVIOUS
        <4>5. QED BY <4>2, <4>3, <4>4
      <3>3. QED BY <3>1, <3>2
    <2>13. QED BY <2>5, <2>6, <2>7, <2>12
  <1>3. Len(q) \in 0 .. Len(q)
    BY <1>0
  <1>4. QED BY <1>1, <1>2, <1>3

\* Setting the time keeps the entries of any list.
LEMMA AdjustedKeeps ==
  ASSUME NEW q \in Seq(Entries), NEW d \in Int
  PROVE  Adjusted(q, d) \in Seq(Entries) /\ Len(Adjusted(q, d)) = Len(q)
  <1>1. PICK s : s = Separated(q)
    OBVIOUS
  <1>2. /\ s.abs \in Seq(Items) /\ s.kept \in Seq(Items)
        /\ Len(s.abs) + Len(s.kept) = Len(q)
    BY <1>1, SeparatedKeeps DEF Separations
  <1>3. PICK a : a = [i \in DOMAIN s.abs |-> [s.abs[i] EXCEPT !.pos = @ + d]]
    OBVIOUS
  <1>4. a \in Seq(Items) /\ Len(a) = Len(s.abs)
    <2>1. \A e \in Items : [e EXCEPT !.pos = @ + d] \in Items
      BY DEF Items
    <2>2. PICK n \in Nat : n = Len(s.abs) /\ DOMAIN s.abs = 1 .. n
      BY <1>2
    <2>3. \A i \in 1 .. n : s.abs[i] \in Items
      BY <1>2, <2>2
    <2>4. a \in [1 .. n -> Items]
      BY <1>3, <2>1, <2>2, <2>3
    <2>5. QED BY <2>2, <2>4
  <1>5. PICK m : m = Merged(a, s.kept)
    OBVIOUS
  <1>6. m \in Seq(Items) /\ Len(m) = Len(q)
    <2>1. PICK k : k = s.kept
      OBVIOUS
    <2>2. m \in Seq(Items) /\ Len(m) = Len(a) + Len(k)
      BY <1>2, <1>4, <1>5, <2>1, MergedKeeps
    <2>3. QED BY <1>2, <1>4, <2>1, <2>2
  <1>7. PICK y : y = Adjusted(q, d)
    OBVIOUS
  <1>8. y = [i \in DOMAIN m |->
                [call |-> m[i].call, time |-> m[i].pos - (IF i = 1 THEN 0 ELSE m[i - 1].pos)]]
    BY <1>1, <1>3, <1>5, <1>7 DEF Adjusted
  <1>9. PICK n \in Nat : n = Len(q) /\ DOMAIN m = 1 .. n /\ Len(m) = n
    BY <1>6
  <1>10. \A i \in 1 .. n : m[i].call \in Calls /\ m[i].pos \in Int
    <2>1. \A i \in 1 .. n : m[i] \in Items
      BY <1>6, <1>9
    <2>2. QED BY <2>1 DEF Items
  <1>11. ASSUME NEW i \in 1 .. n PROVE y[i] \in Entries
    <2>1. (IF i = 1 THEN 0 ELSE m[i - 1].pos) \in Int
      <3>1. i # 1 => i - 1 \in 1 .. n
        BY <1>9
      <3>2. QED BY <1>10, <3>1
    <2>2. PICK x \in Int : x = IF i = 1 THEN 0 ELSE m[i - 1].pos
      BY <2>1
    <2>3. y[i] = [call |-> m[i].call, time |-> m[i].pos - x]
      BY <1>8, <1>9, <2>2
    <2>4. QED BY <1>10, <2>3 DEF Entries
  <1>12. y \in Seq(Entries) /\ Len(y) = n
    <2>1. y \in [1 .. n -> Entries]
      BY <1>8, <1>9, <1>11
    <2>2. QED BY <1>9, <2>1
  <1>13. QED BY <1>7, <1>9, <1>12

\* Setting the time keeps the order of a list in which nothing is due, whether
\* it makes something due or not.
LEMMA AdjustedIs ==
  ASSUME NEW q \in Seq(Entries), InOrder(q), ~IsDue(q), NEW d \in Int
  PROVE  InOrder(Adjusted(q, d))
  <1>0. /\ Len(q) \in Nat /\ DOMAIN q = 1 .. Len(q)
        /\ \A i \in 1 .. Len(q) : q[i].time \in Int
    <2>1. \A i \in 1 .. Len(q) : q[i] \in Entries
      OBVIOUS
    <2>2. QED BY <2>1 DEF Entries
  <1>1. NotNegative(q) /\ (Len(q) >= 1 => q[1].time >= 1)
    <2>1. Len(q) >= 1 => q # <<>> /\ 1 \in DOMAIN q
      BY <1>0
    <2>2. Len(q) >= 1 => q[1].time >= 1
      BY <1>0, <2>1 DEF IsDue
    <2>3. ASSUME NEW i \in 1 .. Len(q)
          PROVE  q[i].time >= 0
      <3>1. 1 \in 1 .. Len(q) /\ q[1].time >= 1 /\ q[1].time > 0
        BY <1>0, <2>2
      <3>2. CASE i = 1
        BY <1>0, <3>1, <3>2
      <3>3. CASE i # 1
        <4>1. 1 < i
          BY <1>0, <3>3
        <4>2. QED BY <1>0, <3>1, <4>1 DEF InOrder
      <3>4. QED BY <3>2, <3>3
    <2>4. QED BY <2>2, <2>3 DEF NotNegative
  <1>2. PICK s : s = Separated(q)
    OBVIOUS
  <1>3. Separates(q, Len(q), s)
    BY <1>1, <1>2, SeparatedIs
  <1>4. /\ s.abs \in Seq(Items) /\ s.kept \in Seq(Items) /\ Sorted(s.abs) /\ Sorted(s.kept)
        /\ Len(s.abs) + Len(s.kept) = Len(q)
    BY <1>3 DEF Separates, Separations
  <1>6. PICK a : a = [i \in DOMAIN s.abs |-> [s.abs[i] EXCEPT !.pos = @ + d]]
    OBVIOUS
  <1>7. /\ a \in Seq(Items) /\ Len(a) = Len(s.abs) /\ DOMAIN a = DOMAIN s.abs
        /\ \A i \in DOMAIN s.abs : a[i].pos = s.abs[i].pos + d /\ s.abs[i].pos \in Int
    <2>1. \A i \in DOMAIN s.abs :
            /\ [s.abs[i] EXCEPT !.pos = @ + d] \in Items
            /\ [s.abs[i] EXCEPT !.pos = @ + d].pos = s.abs[i].pos + d
            /\ s.abs[i].pos \in Int
      <3> TAKE i \in DOMAIN s.abs
      <3>1. s.abs[i] \in Items
        BY <1>4
      <3>2. PICK e : e = s.abs[i]
        OBVIOUS
      <3>3. [e EXCEPT !.pos = @ + d] \in Items /\ [e EXCEPT !.pos = @ + d].pos = e.pos + d /\ e.pos \in Int
        BY <3>1, <3>2 DEF Items
      <3>4. QED BY <3>2, <3>3
    <2>2. PICK n \in Nat : n = Len(s.abs) /\ DOMAIN s.abs = 1 .. n
      BY <1>4
    <2>3. a \in [1 .. n -> Items]
      BY <1>6, <2>1, <2>2
    <2>4. a \in Seq(Items) /\ Len(a) = n
      BY <2>3
    <2>5. QED BY <1>6, <2>1, <2>2, <2>4
  <1>8. Sorted(a)
    <2>1. SUFFICES ASSUME NEW i \in DOMAIN a, NEW j \in DOMAIN a, i < j
                   PROVE  a[i].pos <= a[j].pos
      BY DEF Sorted
    <2>2. s.abs[i].pos <= s.abs[j].pos
      BY <1>4, <1>7, <2>1 DEF Sorted
    <2>3. QED BY <1>7, <2>2
  <1>11. PICK m : m = Merged(a, s.kept)
    OBVIOUS
  <1>12. m \in Seq(Items) /\ Len(m) = Len(q) /\ Sorted(m)
    <2>1. PICK k : k = s.kept
      OBVIOUS
    <2>2. k \in Seq(Items) /\ Sorted(k) /\ m = Merged(a, k)
      BY <1>4, <1>11, <2>1
    <2>3. m \in Seq(Items) /\ Len(m) = Len(a) + Len(k) /\ Sorted(m)
      BY <1>7, <1>8, <2>2, MergedInOrder
    <2>4. QED BY <1>4, <1>7, <2>1, <2>3
  <1>13. PICK y : y = Adjusted(q, d)
    OBVIOUS
  <1>14. y = [i \in DOMAIN m |->
                [call |-> m[i].call, time |-> m[i].pos - (IF i = 1 THEN 0 ELSE m[i - 1].pos)]]
    BY <1>2, <1>6, <1>11, <1>13 DEF Adjusted
  <1>15. DOMAIN m = 1 .. Len(q) /\ \A i \in 1 .. Len(q) : m[i] \in Items /\ m[i].pos \in Int
    <2>1. DOMAIN m = 1 .. Len(q) /\ \A i \in 1 .. Len(q) : m[i] \in Items
      BY <1>12
    <2>2. QED BY <2>1 DEF Items
  <1>16. \A i \in 1 .. Len(q) : y[i].time \in Int /\ (i # 1 => y[i].time >= 0)
    <2> TAKE i \in 1 .. Len(q)
    <2>1. y[i].time = m[i].pos - (IF i = 1 THEN 0 ELSE m[i - 1].pos)
      BY <1>14, <1>15
    <2>2. CASE i = 1
      BY <1>15, <2>1, <2>2
    <2>3. CASE i # 1
      <3>1. i - 1 \in 1 .. Len(q) /\ i - 1 < i
        BY <1>0, <2>3
      <3>2. m[i - 1].pos <= m[i].pos /\ m[i - 1].pos \in Int /\ m[i].pos \in Int
        BY <1>12, <1>15, <3>1 DEF Sorted
      <3>3. y[i].time = m[i].pos - m[i - 1].pos
        BY <2>1, <2>3
      <3>4. QED BY <3>2, <3>3
    <2>4. QED BY <2>2, <2>3
  <1>17. DOMAIN y = 1 .. Len(q)
    BY <1>14, <1>15
  <1>18. InOrder(y)
    <2>1. SUFFICES ASSUME NEW i \in 1 .. Len(q), NEW j \in 1 .. Len(q), i < j
                   PROVE  /\ y[j].time <= 0 /\ y[i].time <= 0 => y[i].time <= y[j].time
                          /\ y[i].time > 0 => y[j].time >= 0
      BY <1>17 DEF InOrder
    <2>2. y[i].time \in Int /\ y[j].time \in Int /\ y[j].time >= 0
      BY <1>0, <1>16, <2>1
    <2>3. QED BY <2>2
  <1>20. QED BY <1>13, <1>18

------------------------------------------------------------------------------
(* What each step keeps *)

\* A step keeps the order of the list, and does not leave softclock asleep
\* beside an entry that is due.
Keeps == InOrder(calltodo) =>
           InOrder(calltodo') /\ (SoftclockIsAwake => SoftclockIsAwake')

\* The empty list has its type.
LEMMA Initially ==
  ASSUME Init
  PROVE  TypeOK
  <1>1. /\ calltodo = <<>> /\ free = NCallout /\ hard = "idle" /\ needsoft = FALSE
        /\ soft = "scan" /\ making = [s \in Scanners |-> NoCall]
    BY DEF Init
  <1>2. calltodo \in Seq(Entries) /\ Len(calltodo) = 0
    BY <1>1
  <1>3. free \in Nat /\ free + Len(calltodo) = NCallout
    BY <1>1, <1>2, CalloutAssumption
  <1>4. making \in [Scanners -> Calls \union {NoCall}]
    BY <1>1
  <1>5. QED BY <1>1, <1>2, <1>3, <1>4 DEF TypeOK

\* A step of the clients that changes the list and the free entries.
LEMMA ListChanges ==
  ASSUME TypeOK, calltodo' \in Seq(Entries), free' \in Nat,
         free' + Len(calltodo') = NCallout,
         InOrder(calltodo) => InOrder(calltodo') /\ (IsDue(calltodo') => IsDue(calltodo)),
         UNCHANGED <<hard, needsoft, soft, making>>
  PROVE  TypeOK' /\ Keeps
  <1>1. TypeOK'
    BY DEF TypeOK
  <1>2. InOrder(calltodo) /\ SoftclockIsAwake => SoftclockIsAwake'
    BY DEF SoftclockIsAwake, Due, IsDue
  <1>3. QED BY <1>1, <1>2 DEF Keeps

\* timeout keeps the list in order, and makes nothing due.
LEMMA TimeoutKeeps ==
  ASSUME TypeOK, NEW c \in Calls, Timeout(c)
  PROVE  TypeOK' /\ Keeps
  <1>1. /\ free > 0 /\ free' = free - 1
        /\ UNCHANGED <<hard, needsoft, soft, making>>
    BY DEF Timeout
  <1>2. PICK t \in Times : calltodo' = Inserted(calltodo, c, IF t <= 0 THEN 1 ELSE t)
    BY DEF Timeout
  <1>3. PICK u : u = IF t <= 0 THEN 1 ELSE t
    OBVIOUS
  <1>4. u \in Nat \ {0}
    BY <1>3, CalloutAssumption
  <1>5. /\ calltodo \in Seq(Entries) /\ free \in Nat /\ free + Len(calltodo) = NCallout
    BY DEF TypeOK
  <1>6. /\ calltodo' \in Seq(Entries) /\ Len(calltodo') = Len(calltodo) + 1
        /\ InOrder(calltodo) => InOrder(calltodo') /\ (IsDue(calltodo') => IsDue(calltodo))
    BY <1>2, <1>3, <1>4, <1>5, InsertedIs
  <1>7. free' \in Nat /\ free' + Len(calltodo') = NCallout
    <2>1. Len(calltodo) \in Nat
      BY <1>5
    <2>2. QED BY <1>1, <1>5, <1>6, <2>1
  <1>8. QED BY <1>1, <1>6, <1>7, ListChanges

\* untimeout keeps the list in order, and makes nothing due.
LEMMA UntimeoutKeeps ==
  ASSUME TypeOK, NEW c \in Calls, Untimeout(c)
  PROVE  TypeOK' /\ Keeps
  <1>1. UNCHANGED <<hard, needsoft, soft, making>>
    BY DEF Untimeout
  <1>2. PICK i \in DOMAIN calltodo : calltodo' = Removed(calltodo, i) /\ free' = free + 1
    BY DEF Untimeout
  <1>5. /\ calltodo \in Seq(Entries) /\ free \in Nat /\ free + Len(calltodo) = NCallout
    BY DEF TypeOK
  <1>6. /\ calltodo' \in Seq(Entries) /\ Len(calltodo') = Len(calltodo) - 1
        /\ InOrder(calltodo) => InOrder(calltodo') /\ (IsDue(calltodo') => IsDue(calltodo))
    <2>1. i \in 1 .. Len(calltodo)
      BY <1>5
    <2>2. QED BY <1>2, <1>5, <2>1, RemovedIs
  <1>7. free' \in Nat /\ free' + Len(calltodo') = NCallout
    <2>1. Len(calltodo) \in Nat
      BY <1>5
    <2>2. QED BY <1>2, <1>5, <1>6, <2>1
  <1>8. QED BY <1>1, <1>6, <1>7, ListChanges

\* psx4_adjust_callout keeps the entries; it keeps their order if none is due, and
\* softclock awake if one is.
LEMMA SetTimeKeeps ==
  ASSUME TypeOK, SetTime
  PROVE  /\ TypeOK'
         /\ InOrder(calltodo) /\ ~Due => InOrder(calltodo')
         /\ SoftclockIsAwake /\ Due => SoftclockIsAwake'
  <1>1. UNCHANGED <<free, hard, needsoft, soft, making>>
    BY DEF SetTime
  <1>2. PICK d \in Shifts : calltodo' = Adjusted(calltodo, d)
    BY DEF SetTime
  <1>3. /\ calltodo \in Seq(Entries) /\ free \in Nat /\ free + Len(calltodo) = NCallout
        /\ d \in Int
    BY CalloutAssumption DEF TypeOK
  <1>4. calltodo' \in Seq(Entries) /\ Len(calltodo') = Len(calltodo)
    BY <1>2, <1>3, AdjustedKeeps
  <1>5. TypeOK'
    BY <1>1, <1>3, <1>4 DEF TypeOK
  <1>6. InOrder(calltodo) /\ ~Due => InOrder(calltodo')
    BY <1>2, <1>3, AdjustedIs DEF Due, IsDue
  <1>7. SoftclockIsAwake /\ Due => SoftclockIsAwake'
    BY <1>1 DEF SoftclockIsAwake
  <1>8. QED BY <1>5, <1>6, <1>7

\* hardclock's count of the tick keeps the order; needsoft is set when the first
\* entry is due, whatever comes after it.
LEMMA TickKeeps ==
  ASSUME TypeOK, HardclockTick
  PROVE  TypeOK' /\ Keeps /\ SoftclockIsAwake'
  <1>1. /\ calltodo' = Ticked(calltodo) /\ hard' = "ticked"
        /\ needsoft' = (calltodo # <<>> /\ calltodo[1].time <= 1)
        /\ UNCHANGED <<free, soft, making>>
    BY DEF HardclockTick
  <1>5. /\ calltodo \in Seq(Entries) /\ free \in Nat /\ free + Len(calltodo) = NCallout
    BY DEF TypeOK
  <1>6. /\ calltodo' \in Seq(Entries) /\ Len(calltodo') = Len(calltodo)
        /\ InOrder(calltodo) => InOrder(calltodo')
        /\ IsDue(calltodo') => calltodo # <<>> /\ calltodo[1].time <= 1
    BY <1>1, <1>5, TickedIs
  <1>7. needsoft' \in BOOLEAN
    BY <1>1
  <1>8. TypeOK'
    BY <1>1, <1>5, <1>6, <1>7 DEF TypeOK
  <1>9. SoftclockIsAwake'
    BY <1>1, <1>6 DEF SoftclockIsAwake, Due, IsDue
  <1>10. QED BY <1>6, <1>8, <1>9 DEF Keeps

\* The end of hardclock: it scans or wakes the thread.
LEMMA EndKeeps ==
  ASSUME TypeOK, HardclockEnd
  PROVE  TypeOK' /\ Keeps
  <1>1. UNCHANGED <<calltodo, free, making>> /\ needsoft' = FALSE /\ hard = "ticked"
    BY DEF HardclockEnd
  <1>2. \/ hard' = "scan" /\ soft' = soft
        \/ hard' = "idle" /\ soft' = IF needsoft THEN "scan" ELSE soft
    BY DEF HardclockEnd
  <1>3. TypeOK'
    BY <1>1, <1>2 DEF TypeOK
  <1>4. SoftclockIsAwake => SoftclockIsAwake'
    BY <1>1, <1>2 DEF SoftclockIsAwake, Due
  <1>5. QED BY <1>1, <1>3, <1>4 DEF Keeps

\* Taking a due entry: who took it comes back to scan.
LEMMA TakeKeeps ==
  ASSUME TypeOK, NEW s \in Scanners, Take(s)
  PROVE  TypeOK' /\ Keeps
  <1>1. /\ making[s] = NoCall /\ Due /\ UNCHANGED <<needsoft, soft>>
        /\ IF s = "thread" THEN soft = "scan" /\ hard' = hard ELSE hard = "scan" /\ hard' = "idle"
        /\ making' = [making EXCEPT ![s] = calltodo[1].call]
        /\ calltodo' = Tail(calltodo) /\ free' = free + 1
    BY DEF Take
  <1>5. /\ calltodo \in Seq(Entries) /\ free \in Nat /\ free + Len(calltodo) = NCallout
    BY DEF TypeOK
  <1>6. calltodo # <<>> /\ calltodo[1] \in Entries /\ calltodo[1].call \in Calls
    <2>1. calltodo # <<>>
      BY <1>1 DEF Due
    <2>2. calltodo[1] \in Entries
      BY <1>5, <2>1
    <2>3. QED BY <2>1, <2>2 DEF Entries
  <1>7. /\ calltodo' \in Seq(Entries) /\ Len(calltodo') = Len(calltodo) - 1
        /\ InOrder(calltodo) => InOrder(calltodo')
    BY <1>1, <1>5, <1>6, TailIs
  <1>8. free' \in Nat /\ free' + Len(calltodo') = NCallout
    <2>1. Len(calltodo) \in Nat
      BY <1>5
    <2>2. QED BY <1>1, <1>5, <1>7, <2>1
  <1>9. making \in [Scanners -> Calls \union {NoCall}] /\ hard \in {"idle", "ticked", "scan"}
    BY DEF TypeOK
  <1>10. TypeOK'
    BY <1>1, <1>6, <1>7, <1>8, <1>9 DEF TypeOK
  <1>11. SoftclockIsAwake'
    <2>1. CASE s = "thread"
      BY <1>1, <2>1 DEF SoftclockIsAwake
    <2>2. CASE s = "interrupt"
      <3>1. making'["interrupt"] = calltodo[1].call
        BY <1>1, <1>9, <2>2 DEF Scanners
      <3>2. making'["interrupt"] # NoCall
        BY <1>6, <3>1, CalloutAssumption
      <3>3. QED BY <3>2 DEF SoftclockIsAwake
    <2>3. QED BY <2>1, <2>2 DEF Scanners
  <1>12. QED BY <1>7, <1>10, <1>11 DEF Keeps

\* The return of a call: its scanner goes on.
LEMMA ReturnKeeps ==
  ASSUME TypeOK, NEW s \in Scanners, Return(s)
  PROVE  TypeOK' /\ Keeps
  <1>1. /\ UNCHANGED <<calltodo, free, needsoft, soft>>
        /\ making' = [making EXCEPT ![s] = NoCall]
        /\ hard' = IF s = "interrupt" THEN "scan" ELSE hard
    BY DEF Return
  <1>2. making \in [Scanners -> Calls \union {NoCall}] /\ hard \in {"idle", "ticked", "scan"}
    BY DEF TypeOK
  <1>3. TypeOK'
    BY <1>1, <1>2 DEF TypeOK
  <1>4. SoftclockIsAwake => SoftclockIsAwake'
    <2>1. CASE s = "interrupt"
      BY <1>1, <2>1 DEF SoftclockIsAwake
    <2>2. CASE s = "thread"
      <3>1. making'["interrupt"] = making["interrupt"] /\ hard' = hard
        BY <1>1, <1>2, <2>2 DEF Scanners
      <3>2. QED BY <1>1, <3>1 DEF SoftclockIsAwake, Due
    <2>3. QED BY <2>1, <2>2 DEF Scanners
  <1>5. QED BY <1>1, <1>3, <1>4 DEF Keeps

\* The end of a scan: nothing is due then.
LEMMA ScanEndsKeeps ==
  ASSUME TypeOK, NEW s \in Scanners, ScanEnds(s)
  PROVE  TypeOK' /\ Keeps
  <1>1. /\ UNCHANGED <<calltodo, free, needsoft, making>> /\ ~Due
        /\ IF s = "thread" THEN soft' = "asleep" /\ hard' = hard ELSE hard' = "idle" /\ soft' = soft
    BY DEF ScanEnds
  <1>2. TypeOK'
    BY <1>1 DEF TypeOK
  <1>3. SoftclockIsAwake'
    BY <1>1 DEF SoftclockIsAwake, Due
  <1>4. QED BY <1>1, <1>2, <1>3 DEF Keeps

\* Every step that does not set the time keeps order and wake.
LEMMA StepKeeps ==
  ASSUME TypeOK, [Next]_vars
  PROVE  TypeOK' /\ (SetTime \/ Keeps)
  <1>1. CASE \E c \in Calls : Timeout(c) \/ Untimeout(c)
    BY <1>1, TimeoutKeeps, UntimeoutKeeps
  <1>2. CASE SetTime
    BY <1>2, SetTimeKeeps
  <1>3. CASE HardclockTick
    BY <1>3, TickKeeps
  <1>4. CASE HardclockEnd
    BY <1>4, EndKeeps
  <1>5. CASE \E s \in Scanners : Scan(s)
    BY <1>5, TakeKeeps, ReturnKeeps, ScanEndsKeeps DEF Scan
  <1>6. CASE UNCHANGED vars
    <2>1. TypeOK'
      BY <1>6 DEF vars, TypeOK
    <2>2. Keeps
      BY <1>6 DEF vars, Keeps, InOrder, SoftclockIsAwake, Due
    <2>3. QED BY <2>1, <2>2
  <1>7. QED BY <1>1, <1>2, <1>3, <1>4, <1>5, <1>6 DEF Next

\* Whatever is done with the table, its entries are on the list or free.
THEOREM TableIsKept == Spec => []TypeOK
  <1>1. Init => TypeOK
    BY Initially
  <1>2. TypeOK /\ [Next]_vars => TypeOK'
    BY StepKeeps
  <1>3. QED BY <1>1, <1>2, PTL DEF Spec

\* The list goes out of order only when the time is set while calls are late: no
\* timeout, untimeout or tick, no scanner and no other change of the time puts a
\* late call behind one that is not, at any times and with any time changes.
THEOREM TheOrderIsKept == Spec => OrderIsKept
  <1>1. TypeOK /\ [Next]_vars => (DueComeFirst => DueComeFirst' \/ (SetTime /\ Due))
    <2>1. ASSUME TypeOK, [Next]_vars, DueComeFirst
          PROVE  DueComeFirst' \/ (SetTime /\ Due)
      <3>1. InOrder(calltodo)
        BY <2>1 DEF DueComeFirst, InOrder
      <3>2. InOrder(calltodo') => DueComeFirst'
        BY DEF DueComeFirst, InOrder
      <3>3. CASE SetTime
        BY <2>1, <3>1, <3>2, <3>3, SetTimeKeeps
      <3>4. CASE Keeps
        BY <3>1, <3>2, <3>4 DEF Keeps
      <3>5. QED BY <2>1, <3>3, <3>4, StepKeeps
    <2>2. QED BY <2>1
  <1>2. TypeOK /\ [Next]_vars => [DueComeFirst => DueComeFirst' \/ (SetTime /\ Due)]_vars
    BY <1>1
  <1>3. QED BY <1>2, TableIsKept, PTL DEF Spec, OrderIsKept

\* The entries and the free ones make up the table, and only setting the time while
\* calls are late puts the list out of order.
THEOREM TheListIsRight == Spec => ListIsRight
  BY TableIsKept, TheOrderIsKept, PTL DEF ListIsRight

\* While the list is in order, only a new time that makes a call due leaves softclock
\* asleep beside it, and the tick after that tells softclock, in whatever order the
\* list then is.
THEOREM SoftclockIsTold == Spec => WakeIsKept
  <1> DEFINE Wake == /\ DueComeFirst /\ SoftclockIsAwake => SoftclockIsAwake' \/ (SetTime /\ ~Due)
                     /\ HardclockTick => SoftclockIsAwake'
  <1>1. TypeOK /\ [Next]_vars => Wake
    <2>1. ASSUME TypeOK, [Next]_vars, DueComeFirst, SoftclockIsAwake
          PROVE  SoftclockIsAwake' \/ (SetTime /\ ~Due)
      <3>1. InOrder(calltodo)
        BY <2>1 DEF DueComeFirst, InOrder
      <3>2. CASE SetTime
        BY <2>1, <3>2, SetTimeKeeps
      <3>3. CASE Keeps
        BY <2>1, <3>1, <3>3 DEF Keeps
      <3>4. QED BY <2>1, <3>2, <3>3, StepKeeps
    <2>2. ASSUME TypeOK, HardclockTick
          PROVE  SoftclockIsAwake'
      BY <2>2, TickKeeps
    <2>3. QED BY <2>1, <2>2
  <1>2. TypeOK /\ [Next]_vars => [Wake]_vars
    BY <1>1
  <1>3. QED BY <1>2, TableIsKept, PTL DEF Spec, WakeIsKept

=============================================================================
