------------------------- MODULE RunningAverage_proofs -------------------------
(***************************************************************************)
(* Proofs about the averages of datamgr.c, for any map of sensors, any     *)
(* temperatures and limits and any RUN_AVG_LENGTH.                         *)
(*                                                                         *)
(* AInv is inductive: the window of every sensor holds its last readings   *)
(* at its end and nothing before them, its sum and counter are those of    *)
(* the window, and what was logged is what they ask for.  The rest is      *)
(* about sums: SumIsPartial unfolds the fold the model adds up with, and   *)
(* induction over the places of the window gives that zeros in front do    *)
(* not change a sum, and that a bound of what is counted bounds it.        *)
(***************************************************************************)
EXTENDS RunningAverage, NatInduction, SequenceTheorems, FiniteSetTheorems

(* What FoldLeft's recursion computes over the sets of places 1 .. m of w.  *)
IsFold(g, w, m) ==
  g = [s \in SUBSET (1 .. m) |-> IF s = {} THEN 0 ELSE g[s \ {Max(s)}] + w[Max(s)]]

(* The largest of a set that contains a bound of it.                        *)
LEMMA MaxIs ==
  ASSUME NEW m \in Nat, NEW s \in SUBSET (1 .. m), m \in s
  PROVE  Max(s) = m
  <1>1. \A y \in s : m >= y
    OBVIOUS
  <1>2. \A x \in s : (\A y \in s : x >= y) => x = m
    OBVIOUS
  <1>3. \E x \in s : \A y \in s : x >= y
    BY <1>1
  <1> QED
    BY <1>2, <1>3, Zenon DEF Max

(* There is such a function, whatever w and m are.                         *)
LEMMA FoldExists ==
  ASSUME NEW w
  PROVE  \A m \in Nat : \E g : IsFold(g, w, m)
  <1> DEFINE S == {m \in Nat : \E g : IsFold(g, w, m)}
  <1>1. 0 \in S
    <2> DEFINE g == [s \in SUBSET (1 .. 0) |-> 0]
    <2>1. \A s \in SUBSET (1 .. 0) : s = {}
      OBVIOUS
    <2>2. IsFold(g, w, 0)
      BY <2>1 DEF IsFold
    <2> QED
      BY <2>2
  <1>2. ASSUME NEW m \in Nat, m \in S PROVE m + 1 \in S
    <2>1. PICK g : IsFold(g, w, m)
      BY <1>2
    <2> DEFINE h == [s \in SUBSET (1 .. m + 1) |->
                       IF m + 1 \in s THEN g[s \ {m + 1}] + w[m + 1] ELSE g[s]]
    <2>2. ASSUME NEW s \in SUBSET (1 .. m)
          PROVE  g[s] = IF s = {} THEN 0 ELSE g[s \ {Max(s)}] + w[Max(s)]
      <3> DEFINE r == [t \in SUBSET (1 .. m) |->
                         IF t = {} THEN 0 ELSE g[t \ {Max(t)}] + w[Max(t)]]
      <3>1. r[s] = IF s = {} THEN 0 ELSE g[s \ {Max(s)}] + w[Max(s)]
        OBVIOUS
      <3>2. g = r
        BY <2>1, Zenon DEF IsFold
      <3> QED
        BY <3>1, <3>2, Zenon
    <2>3. ASSUME NEW s \in SUBSET (1 .. m + 1)
          PROVE  h[s] = IF s = {} THEN 0 ELSE h[s \ {Max(s)}] + w[Max(s)]
      <3>1. CASE m + 1 \in s
        <4>1. Max(s) = m + 1
          BY <3>1, MaxIs
        <4>2. s \ {m + 1} \in SUBSET (1 .. m + 1) /\ m + 1 \notin s \ {m + 1} /\ s # {}
          BY <3>1
        <4>3. h[s \ {m + 1}] = g[s \ {m + 1}]
          BY <4>2
        <4> QED
          BY <3>1, <4>1, <4>2, <4>3
      <3>2. CASE m + 1 \notin s
        <4>1. s \in SUBSET (1 .. m)
          BY <3>2
        <4>2. s \ {Max(s)} \in SUBSET (1 .. m + 1) /\ m + 1 \notin s \ {Max(s)}
          BY <3>2
        <4>3. h[s \ {Max(s)}] = g[s \ {Max(s)}]
          BY <4>2
        <4>4. h[s] = g[s]
          BY <3>2
        <4> QED
          BY <2>2, <4>1, <4>3, <4>4
      <3> QED
        BY <3>1, <3>2
    <2>4. IsFold(h, w, m + 1)
      BY <2>3, Zenon DEF IsFold
    <2> QED
      BY <2>4
  <1> HIDE DEF S
  <1>3. \A m \in Nat : m \in S
    BY ONLY <1>1, <1>2, Induction
  <1> QED
    BY <1>3 DEF S

(* Sum adds from left to right: partial[k] is the sum of the first k.       *)
LEMMA SumIsPartial ==
  ASSUME NEW n \in Nat, NEW w \in [1 .. n -> Int]
  PROVE  \E partial \in [0 .. n -> Int] :
           /\ partial[0] = 0
           /\ \A k \in 1 .. n : partial[k] = partial[k - 1] + w[k]
           /\ Sum(w) = partial[n]
  <1> DEFINE g == CHOOSE f : f = [s \in SUBSET DOMAIN w |->
                               IF s = {} THEN 0 ELSE f[s \ {Max(s)}] + w[Max(s)]]
             p == [k \in 0 .. n |-> g[1 .. k]]
  <1>1. Sum(w) = g[DOMAIN w]
    BY DEF Sum, FoldLeft, MapThenFoldSet
  <1>2. DOMAIN w = 1 .. n
    OBVIOUS
  <1>3. g = CHOOSE f : IsFold(f, w, n)
    BY <1>2 DEF IsFold
  <1> HIDE DEF g
  <1>4. IsFold(g, w, n)
    BY <1>3, FoldExists
  <1>5. ASSUME NEW s \in SUBSET (1 .. n)
        PROVE  g[s] = IF s = {} THEN 0 ELSE g[s \ {Max(s)}] + w[Max(s)]
    <2> DEFINE r == [t \in SUBSET (1 .. n) |->
                       IF t = {} THEN 0 ELSE g[t \ {Max(t)}] + w[Max(t)]]
    <2>1. r[s] = IF s = {} THEN 0 ELSE g[s \ {Max(s)}] + w[Max(s)]
      OBVIOUS
    <2>2. g = r
      BY <1>4, Zenon DEF IsFold
    <2> QED
      BY <2>1, <2>2, Zenon
  <1>6. g[1 .. 0] = 0
    <2>1. 1 .. 0 = {} /\ {} \in SUBSET (1 .. n)
      OBVIOUS
    <2> QED
      BY <1>5, <2>1
  <1>7. ASSUME NEW k \in 1 .. n PROVE g[1 .. k] = g[1 .. k - 1] + w[k]
    <2>1. k \in Nat /\ k \in 1 .. k /\ 1 .. k \in SUBSET (1 .. k) /\ 1 .. k \in SUBSET (1 .. n)
      OBVIOUS
    <2>2. Max(1 .. k) = k
      BY <2>1, MaxIs
    <2>3. (1 .. k) \ {k} = 1 .. k - 1 /\ 1 .. k # {}
      BY <2>1
    <2> QED
      BY <1>5, <2>1, <2>2, <2>3
  <1>8. \A k \in Nat : k <= n => g[1 .. k] \in Int
    <2> DEFINE S == {k \in Nat : k <= n => g[1 .. k] \in Int}
    <2>1. 0 \in S
      BY <1>6
    <2>2. ASSUME NEW k \in Nat, k \in S PROVE k + 1 \in S
      <3> SUFFICES ASSUME k + 1 <= n PROVE g[1 .. k + 1] \in Int
        OBVIOUS
      <3>1. k + 1 \in 1 .. n /\ (k + 1) - 1 = k /\ g[1 .. k] \in Int
        BY <2>2
      <3>2. g[1 .. k + 1] = g[1 .. k] + w[k + 1]
        BY <1>7, <3>1
      <3> QED
        BY <3>1, <3>2
    <2> HIDE DEF S
    <2>3. \A k \in Nat : k \in S
      BY ONLY <2>1, <2>2, Induction
    <2> QED
      BY <2>3 DEF S
  <1>9. p \in [0 .. n -> Int]
    BY <1>8
  <1>10. p[0] = 0 /\ \A k \in 1 .. n : p[k] = p[k - 1] + w[k]
    BY <1>6, <1>7
  <1>11. Sum(w) = p[n]
    BY <1>1, <1>2
  <1> QED
    BY <1>9, <1>10, <1>11

-----------------------------------------------------------------------------
(* The places of w that Counter does not count, up to place m.              *)
Skipped(w, n, m) == {j \in 1 .. m : j < n /\ w[j] = Missing}

(* One place more is skipped if it holds no temperature and is not the last. *)
LEMMA SkippedGrows ==
  ASSUME NEW n \in Nat, NEW w, NEW m \in Nat
  PROVE  /\ IsFiniteSet(Skipped(w, n, m)) /\ Cardinality(Skipped(w, n, m)) \in 0 .. m
         /\ Cardinality(Skipped(w, n, 0)) = 0
         /\ Cardinality(Skipped(w, n, m + 1)) = 
              IF m + 1 < n /\ w[m + 1] = Missing THEN Cardinality(Skipped(w, n, m)) + 1
                                                 ELSE Cardinality(Skipped(w, n, m))
  <1>1. IsFiniteSet(Skipped(w, n, m)) /\ Cardinality(Skipped(w, n, m)) \in 0 .. m
    <2>1. IsFiniteSet(1 .. m) /\ Cardinality(1 .. m) = m
      BY FS_Interval
    <2>2. Skipped(w, n, m) \subseteq 1 .. m
      BY DEF Skipped
    <2>3. IsFiniteSet(Skipped(w, n, m)) /\ Cardinality(Skipped(w, n, m)) <= m
      BY <2>1, <2>2, FS_Subset
    <2> QED
      BY <2>3, FS_CardinalityType
  <1>2. Cardinality(Skipped(w, n, 0)) = 0
    <2>1. Skipped(w, n, 0) = {}
      BY DEF Skipped
    <2> QED
      BY <2>1, FS_EmptySet
  <1>3. CASE m + 1 < n /\ w[m + 1] = Missing
    <2>1. Skipped(w, n, m + 1) = Skipped(w, n, m) \cup {m + 1} /\ m + 1 \notin Skipped(w, n, m)
      BY <1>3 DEF Skipped
    <2> QED
      BY <1>1, <1>2, <1>3, <2>1, FS_AddElement
  <1>4. CASE ~(m + 1 < n /\ w[m + 1] = Missing)
    <2>1. Skipped(w, n, m + 1) = Skipped(w, n, m)
      BY <1>4 DEF Skipped
    <2> QED
      BY <1>1, <1>2, <1>4, <2>1
  <1> QED
    BY <1>3, <1>4

(* How many of the first m places of w are counted.                         *)
Counted(w, n, m) == m - Cardinality(Skipped(w, n, m))

(* And one place more is counted if it is not skipped.                      *)
LEMMA CountedGrows ==
  ASSUME NEW n \in Nat, NEW w, NEW m \in Nat
  PROVE  /\ Counted(w, n, m) \in 0 .. m
         /\ Counted(w, n, 0) = 0
         /\ Counted(w, n, m + 1) =
              IF m + 1 < n /\ w[m + 1] = Missing THEN Counted(w, n, m) ELSE Counted(w, n, m) + 1
  <1>1. /\ Cardinality(Skipped(w, n, m)) \in 0 .. m
        /\ Cardinality(Skipped(w, n, 0)) = 0
        /\ Cardinality(Skipped(w, n, m + 1)) =
              IF m + 1 < n /\ w[m + 1] = Missing THEN Cardinality(Skipped(w, n, m)) + 1
                                                 ELSE Cardinality(Skipped(w, n, m))
    BY SkippedGrows
  <1> DEFINE a == Cardinality(Skipped(w, n, m))
             b == Cardinality(Skipped(w, n, m + 1))
  <1>2. a \in 0 .. m /\ b = IF m + 1 < n /\ w[m + 1] = Missing THEN a + 1 ELSE a
    BY <1>1
  <1> HIDE DEF a, b
  <1>3. m - a \in 0 .. m /\ (m + 1) - b = IF m + 1 < n /\ w[m + 1] = Missing THEN m - a ELSE m - a + 1
    BY <1>2
  <1> USE DEF a, b
  <1> QED
    BY <1>1, <1>3 DEF Counted

(* What one more of t adds.                                                 *)
LEMMA TimesSuccessor ==
  ASSUME NEW t \in Int, NEW c \in Int
  PROVE  t * c \in Int /\ t * (c + 1) = t * c + t
  OBVIOUS

(* A bound of the counted places bounds the average.                        *)
LEMMA SumAtLeast ==
  ASSUME NEW n \in Nat \ {0}, NEW w \in [1 .. n -> Int], NEW t \in Int,
         \A j \in 1 .. n : j = n \/ w[j] # Missing => t <= w[j]
  PROVE  t * Counted(w, n, n) <= Sum(w)
  <1>1. PICK p \in [0 .. n -> Int] : /\ p[0] = 0
                                     /\ \A k \in 1 .. n : p[k] = p[k - 1] + w[k]
                                     /\ Sum(w) = p[n]
    BY SumIsPartial
  <1> DEFINE  S == {m \in Nat : m <= n => t * Counted(w, n, m) <= p[m]}
  <1>2. 0 \in S
    BY <1>1, CountedGrows
  <1>3. ASSUME NEW m \in Nat, m \in S PROVE m + 1 \in S
    <2> SUFFICES ASSUME m + 1 <= n PROVE t * Counted(w, n, m + 1) <= p[m + 1]
      OBVIOUS
    <2>1. /\ Counted(w, n, m) \in Int
          /\ Counted(w, n, m + 1) = IF m + 1 < n /\ w[m + 1] = Missing
                                     THEN Counted(w, n, m) ELSE Counted(w, n, m) + 1
      <3>1. n \in Nat
        OBVIOUS
      <3>2. /\ Counted(w, n, m) \in 0 .. m
            /\ Counted(w, n, m + 1) = IF m + 1 < n /\ w[m + 1] = Missing
                                       THEN Counted(w, n, m) ELSE Counted(w, n, m) + 1
        BY <3>1, CountedGrows, Zenon
      <3> QED
        BY <3>2
    <2>2. p[m] \in Int /\ p[m + 1] = p[m] + w[m + 1] /\ w[m + 1] \in Int /\ m + 1 \in 1 .. n
      BY <1>1
    <2>3. t * Counted(w, n, m) <= p[m]
      BY <1>3
    <2>4. CASE m + 1 < n /\ w[m + 1] = Missing
      <3>1. Counted(w, n, m + 1) = Counted(w, n, m) /\ p[m + 1] = p[m]
        BY <2>1, <2>2, <2>4 DEF Missing
      <3> QED
        BY <2>3, <3>1
    <2>5. CASE ~(m + 1 < n /\ w[m + 1] = Missing)
      <3>1. Counted(w, n, m + 1) = Counted(w, n, m) + 1
        BY <2>1, <2>5
      <3>2. t <= w[m + 1]
        BY <2>2, <2>5
      <3>3. t * Counted(w, n, m) \in Int /\ t * (Counted(w, n, m) + 1) = t * Counted(w, n, m) + t
        BY ONLY <2>1, t \in Int, TimesSuccessor
      <3> QED
        BY <2>2, <2>3, <3>1, <3>2, <3>3
    <2> QED
      BY <2>4, <2>5
  <1> HIDE DEF S
  <1>4. \A m \in Nat : m \in S
    BY ONLY <1>2, <1>3, Induction
  <1>5. t * Counted(w, n, n) <= p[n]
    BY <1>4 DEF S
  <1> QED
    BY <1>1, <1>5

(* The same of an upper bound.                                              *)
LEMMA SumAtMost ==
  ASSUME NEW n \in Nat \ {0}, NEW w \in [1 .. n -> Int], NEW t \in Int,
         \A j \in 1 .. n : j = n \/ w[j] # Missing => w[j] <= t
  PROVE  Sum(w) <= t * Counted(w, n, n)
  <1>1. PICK p \in [0 .. n -> Int] : /\ p[0] = 0
                                     /\ \A k \in 1 .. n : p[k] = p[k - 1] + w[k]
                                     /\ Sum(w) = p[n]
    BY SumIsPartial
  <1> DEFINE  S == {m \in Nat : m <= n => p[m] <= t * Counted(w, n, m)}
  <1>2. 0 \in S
    BY <1>1, CountedGrows
  <1>3. ASSUME NEW m \in Nat, m \in S PROVE m + 1 \in S
    <2> SUFFICES ASSUME m + 1 <= n PROVE p[m + 1] <= t * Counted(w, n, m + 1)
      OBVIOUS
    <2>1. /\ Counted(w, n, m) \in Int
          /\ Counted(w, n, m + 1) = IF m + 1 < n /\ w[m + 1] = Missing
                                     THEN Counted(w, n, m) ELSE Counted(w, n, m) + 1
      <3>1. n \in Nat
        OBVIOUS
      <3>2. /\ Counted(w, n, m) \in 0 .. m
            /\ Counted(w, n, m + 1) = IF m + 1 < n /\ w[m + 1] = Missing
                                       THEN Counted(w, n, m) ELSE Counted(w, n, m) + 1
        BY <3>1, CountedGrows, Zenon
      <3> QED
        BY <3>2
    <2>2. p[m] \in Int /\ p[m + 1] = p[m] + w[m + 1] /\ w[m + 1] \in Int /\ m + 1 \in 1 .. n
      BY <1>1
    <2>3. p[m] <= t * Counted(w, n, m)
      BY <1>3
    <2>4. CASE m + 1 < n /\ w[m + 1] = Missing
      <3>1. Counted(w, n, m + 1) = Counted(w, n, m) /\ p[m + 1] = p[m]
        BY <2>1, <2>2, <2>4 DEF Missing
      <3> QED
        BY <2>3, <3>1
    <2>5. CASE ~(m + 1 < n /\ w[m + 1] = Missing)
      <3>1. Counted(w, n, m + 1) = Counted(w, n, m) + 1
        BY <2>1, <2>5
      <3>2. w[m + 1] <= t
        BY <2>2, <2>5
      <3>3. t * Counted(w, n, m) \in Int /\ t * (Counted(w, n, m) + 1) = t * Counted(w, n, m) + t
        BY ONLY <2>1, t \in Int, TimesSuccessor
      <3> QED
        BY <2>2, <2>3, <3>1, <3>2, <3>3
    <2> QED
      BY <2>4, <2>5
  <1> HIDE DEF S
  <1>4. \A m \in Nat : m \in S
    BY ONLY <1>2, <1>3, Induction
  <1>5. p[n] <= t * Counted(w, n, n)
    BY <1>4 DEF S
  <1> QED
    BY <1>1, <1>5

(* Zeros before the first temperature do not change the sum.                *)
LEMMA SumAfterZeros ==
  ASSUME NEW n \in Nat, NEW w \in [1 .. n -> Int],
         NEW l \in 0 .. n, NEW v \in [1 .. l -> Int],
         \A j \in 1 .. n : w[j] = IF j <= n - l THEN 0 ELSE v[j - (n - l)]
  PROVE  Sum(w) = Sum(v)
  <1>1. PICK p \in [0 .. n -> Int] : /\ p[0] = 0
                                     /\ \A k \in 1 .. n : p[k] = p[k - 1] + w[k]
                                     /\ Sum(w) = p[n]
    BY SumIsPartial
  <1>2. PICK q \in [0 .. l -> Int] : /\ q[0] = 0
                                     /\ \A k \in 1 .. l : q[k] = q[k - 1] + v[k]
                                     /\ Sum(v) = q[l]
    <2>1. l \in Nat
      OBVIOUS
    <2> QED
      BY <2>1, SumIsPartial, Zenon
  <1> DEFINE S == {m \in Nat : m <= n => p[m] = IF m <= n - l THEN 0 ELSE q[m - (n - l)]}
  <1>3. 0 \in S
    BY <1>1, <1>2
  <1>4. ASSUME NEW m \in Nat, m \in S PROVE m + 1 \in S
    <2> SUFFICES ASSUME m + 1 <= n
                 PROVE  p[m + 1] = IF m + 1 <= n - l THEN 0 ELSE q[m + 1 - (n - l)]
      OBVIOUS
    <2>1. m + 1 \in 1 .. n /\ p[m + 1] = p[m] + w[m + 1]
          /\ p[m] = IF m <= n - l THEN 0 ELSE q[m - (n - l)]
      BY <1>1, <1>4
    <2>2. CASE m + 1 <= n - l
      BY <2>1, <2>2
    <2>3. CASE m + 1 > n - l
      <3>1. m + 1 - (n - l) \in 1 .. l /\ w[m + 1] = v[m + 1 - (n - l)]
            /\ (m + 1 - (n - l)) - 1 = m - (n - l)
        BY <2>1, <2>3
      <3>2. q[m + 1 - (n - l)] = q[m - (n - l)] + v[m + 1 - (n - l)]
        BY <1>2, <3>1
      <3>3. p[m] = q[m - (n - l)]
        <4>1. CASE m = n - l
          BY <1>2, <2>1, <4>1
        <4>2. CASE m # n - l
          BY <2>1, <2>3, <4>2
        <4> QED
          BY <4>1, <4>2
      <3> QED
        BY <2>1, <2>3, <3>1, <3>2, <3>3
    <2> QED
      BY <2>2, <2>3
  <1> HIDE DEF S
  <1>5. \A m \in Nat : m \in S
    BY ONLY <1>3, <1>4, Induction
  <1>6. p[n] = IF n <= n - l THEN 0 ELSE q[n - (n - l)]
    BY <1>5 DEF S
  <1>7. p[n] = q[l]
    BY <1>2, <1>6
  <1> QED
    BY <1>1, <1>2, <1>7

(* Of finitely many numbers one is the smallest, and one the largest.       *)
LEMMA Extremes ==
  ASSUME NEW n \in Nat \ {0}, NEW v \in [1 .. n -> Int]
  PROVE  /\ \E j \in 1 .. n : \A i \in 1 .. n : v[j] <= v[i]
         /\ \E j \in 1 .. n : \A i \in 1 .. n : v[i] <= v[j]
  <1> DEFINE S == {m \in Nat : m + 1 <= n =>
                      /\ \E j \in 1 .. m + 1 : \A i \in 1 .. m + 1 : v[j] <= v[i]
                      /\ \E j \in 1 .. m + 1 : \A i \in 1 .. m + 1 : v[i] <= v[j]}
  <1>1. 0 \in S
    OBVIOUS
  <1>2. ASSUME NEW m \in Nat, m \in S PROVE m + 1 \in S
    <2> SUFFICES ASSUME m + 2 <= n
                 PROVE  /\ \E j \in 1 .. m + 2 : \A i \in 1 .. m + 2 : v[j] <= v[i]
                        /\ \E j \in 1 .. m + 2 : \A i \in 1 .. m + 2 : v[i] <= v[j]
      OBVIOUS
    <2>1. \A i \in 1 .. m + 2 : v[i] \in Int /\ (i \in 1 .. m + 1 \/ i = m + 2)
      OBVIOUS
    <2>2. m + 2 \in 1 .. m + 2 /\ 1 .. m + 1 \subseteq 1 .. m + 2
      OBVIOUS
    <2>3. PICK j \in 1 .. m + 1 : \A i \in 1 .. m + 1 : v[j] <= v[i]
      BY <1>2
    <2>4. PICK k \in 1 .. m + 1 : \A i \in 1 .. m + 1 : v[i] <= v[k]
      BY <1>2
    <2>5. \E x \in 1 .. m + 2 : \A i \in 1 .. m + 2 : v[x] <= v[i]
      <3>1. CASE v[j] <= v[m + 2]
        BY <2>1, <2>2, <2>3, <3>1
      <3>2. CASE v[m + 2] <= v[j]
        <4>1. \A i \in 1 .. m + 2 : v[m + 2] <= v[i]
          BY <2>1, <2>2, <2>3, <3>2
        <4> QED
          BY <2>2, <4>1
      <3> QED
        BY <2>1, <2>2, <3>1, <3>2
    <2>6. \E x \in 1 .. m + 2 : \A i \in 1 .. m + 2 : v[i] <= v[x]
      <3>1. CASE v[m + 2] <= v[k]
        BY <2>1, <2>2, <2>4, <3>1
      <3>2. CASE v[k] <= v[m + 2]
        <4>1. \A i \in 1 .. m + 2 : v[i] <= v[m + 2]
          BY <2>1, <2>2, <2>4, <3>2
        <4> QED
          BY <2>2, <4>1
      <3> QED
        BY <2>1, <2>2, <3>1, <3>2
    <2> QED
      BY <2>5, <2>6
  <1> HIDE DEF S
  <1>3. \A m \in Nat : m \in S
    BY ONLY <1>1, <1>2, Induction
  <1>4. n - 1 \in Nat /\ (n - 1) + 1 = n
    OBVIOUS
  <1>5. n - 1 \in S
    BY <1>3, <1>4
  <1> QED
    BY <1>4, <1>5 DEF S

-----------------------------------------------------------------------------
R == RUN_AVG_LENGTH
Window == [1 .. R -> Temperature \cup {Missing}]

(* The window holds the readings at its end, and nothing before them.       *)
Holds(window, v) ==
  /\ Len(v) <= R
  /\ \A j \in 1 .. R :
       window[j] = IF j <= R - Len(v) THEN Missing ELSE v[j - (R - Len(v))]

(* The windows, the averages and the report of the last measurement.        *)
WindowsHoldReadings ==
  \A k \in 1 .. Len(SensorMap) : Holds(sensors[k].datamgr_avg, readings[k])

AveragesAreCurrent ==
  \A k \in 1 .. Len(SensorMap) :
    readings[k] # << >>
      => /\ sensors[k].sum = Sum(sensors[k].datamgr_avg)
         /\ sensors[k].counter = Counter(sensors[k].datamgr_avg)

ReportIsLatest ==
  latest # NotFound
    => /\ readings[latest] # << >>
       /\ logged = Report(sensors[latest].sum, sensors[latest].counter)

AInv ==
  /\ TypeOK
  /\ readings \in [1 .. Len(SensorMap) -> Seq(Temperature)]
  /\ WindowsHoldReadings
  /\ AveragesAreCurrent
  /\ ReportIsLatest

(* The sensor found is one of the list.                                     *)
LEMMA IndexOf ==
  ASSUME TypeOK, NEW id
  PROVE  get_index_of_sensor_id(id) \in 1 .. Len(SensorMap) \cup {NotFound}
  <1> DEFINE found == {k \in 1 .. Len(sensors) : sensors[k].sensor_id = id}
  <1>1. Len(SensorMap) \in Nat /\ DOMAIN sensors = 1 .. Len(SensorMap)
    BY RunningAverageAssumption DEF TypeOK
  <1>2. Len(sensors) = Len(SensorMap)
    <2> DEFINE Sensor == [sensor_id : Id, sum : Int, counter : 1 .. RUN_AVG_LENGTH,
                          datamgr_avg : [1 .. RUN_AVG_LENGTH -> Temperature \cup {Missing}]]
    <2>1. sensors \in [1 .. Len(SensorMap) -> Sensor]
      BY DEF TypeOK
    <2> HIDE DEF Sensor
    <2>2. sensors \in Seq(Sensor)
      BY <1>1, <2>1, SeqDef
    <2> QED
      BY <1>1, <2>2, LenProperties
  <1>3. ASSUME found # {}
        PROVE  (CHOOSE k \in found : \A j \in found : k <= j) \in 1 .. Len(SensorMap)
    <2>1. found \subseteq Nat /\ found \subseteq 1 .. Len(SensorMap)
      BY <1>2
    <2> HIDE DEF found
    <2>2. \E k \in found : \A j \in found : k <= j
      BY <1>3, <2>1, Least
    <2>3. (CHOOSE k \in found : \A j \in found : k <= j) \in found
      BY <2>2
    <2> QED
      BY <2>1, <2>3
  <1> QED
    BY <1>3 DEF get_index_of_sensor_id

(* A new temperature pushes the window one place to the front.              *)
LEMMA WindowMoves ==
  ASSUME NEW w \in Window, NEW temp \in Temperature
  PROVE  /\ Append(Tail(w), temp) \in Window
         /\ \A j \in 1 .. R : Append(Tail(w), temp)[j] = IF j < R THEN w[j + 1] ELSE temp
  <1>1. R \in Nat \ {0}
    BY RunningAverageAssumption DEF R
  <1>2. w \in Seq(Temperature \cup {Missing}) /\ Len(w) = R
    <2>1. w \in Seq(Temperature \cup {Missing})
      BY <1>1, SeqDef DEF Window
    <2>2. DOMAIN w = 1 .. R
      BY DEF Window
    <2> QED
      BY <1>1, <2>1, <2>2, LenProperties
  <1> DEFINE t == Tail(w)
  <1>3. /\ t \in Seq(Temperature \cup {Missing})
        /\ Len(t) = R - 1
        /\ \A j \in 1 .. R - 1 : t[j] = w[j + 1]
    <2>1. w # << >>
      BY <1>1, <1>2, EmptySeq
    <2> QED
      BY <1>1, <1>2, <2>1, HeadTailProperties
  <1> HIDE DEF t
  <1>4. /\ Append(t, temp) \in Seq(Temperature \cup {Missing})
        /\ Len(Append(t, temp)) = R
        /\ \A j \in 1 .. R : Append(t, temp)[j] = IF j < R THEN t[j] ELSE temp
    BY <1>1, <1>3, AppendProperties
  <1>5. Append(t, temp) \in Window
    BY <1>4, LenProperties, ElementOfSeq DEF Window
  <1>6. \A j \in 1 .. R : Append(t, temp)[j] = IF j < R THEN w[j + 1] ELSE temp
    BY <1>1, <1>3, <1>4
  <1> QED
    BY <1>5, <1>6 DEF t

(* Counter, as the number of places of the window that are counted.         *)
LEMMA CounterIs ==
  ASSUME NEW w
  PROVE  Counter(w) = Counted(w, R, R) /\ Counter(w) \in 1 .. R
  <1>1. R \in Nat \ {0}
    BY RunningAverageAssumption DEF R
  <1>2. {k \in 1 .. R - 1 : w[k] = Missing} = Skipped(w, R, R)
    BY <1>1 DEF Skipped
  <1>3. Counter(w) = Counted(w, R, R)
    BY <1>2 DEF Counter, Counted, R
  <1>4. R - 1 \in Nat /\ (R - 1) + 1 = R
    BY <1>1
  <1>5. Counted(w, R, R - 1) \in 0 .. R - 1
    BY <1>1, <1>4, CountedGrows, Zenon
  <1>6. Counted(w, R, R) = Counted(w, R, R - 1) + 1
    <2>1. Counted(w, R, (R - 1) + 1) = IF (R - 1) + 1 < R /\ w[(R - 1) + 1] = Missing
                                       THEN Counted(w, R, R - 1) ELSE Counted(w, R, R - 1) + 1
      BY <1>1, <1>4, CountedGrows, Zenon
    <2> QED
      BY <1>1, <1>4, <2>1
  <1> QED
    BY <1>1, <1>3, <1>5, <1>6

(* A reading that joins the others keeps the window holding them.           *)
LEMMA HoldsMoves ==
  ASSUME NEW w \in Window, NEW v \in Seq(Temperature), NEW temp \in Temperature, Holds(w, v),
         NEW u, u = IF Len(v) < R THEN Append(v, temp) ELSE Append(Tail(v), temp)
  PROVE  /\ u \in Seq(Temperature) /\ u # << >>
         /\ Holds(Append(Tail(w), temp), u)
  <1>1. R \in Nat \ {0} /\ Len(v) \in Nat /\ Len(v) <= R
    BY RunningAverageAssumption, LenProperties DEF R, Holds
  <1> DEFINE x == Append(Tail(w), temp)
  <1>2. \A j \in 1 .. R : x[j] = IF j < R THEN w[j + 1] ELSE temp
    BY WindowMoves
  <1>3. \A j \in 1 .. R : w[j] = IF j <= R - Len(v) THEN Missing ELSE v[j - (R - Len(v))]
    BY DEF Holds
  <1> HIDE DEF x
  <1>4. CASE Len(v) < R
    <2>1. /\ u \in Seq(Temperature) /\ Len(u) = Len(v) + 1
          /\ \A j \in 1 .. Len(v) : u[j] = v[j]
          /\ u[Len(v) + 1] = temp
      BY <1>4, AppendProperties
    <2>2. ASSUME NEW j \in 1 .. R
          PROVE  x[j] = IF j <= R - Len(u) THEN Missing ELSE u[j - (R - Len(u))]
      <3>1. CASE j = R
        <4>1. R - (R - Len(u)) = Len(v) + 1 /\ ~(R <= R - Len(u))
          BY <1>1, <2>1
        <4> QED
          BY <1>1, <1>2, <2>1, <3>1, <4>1
      <3>2. CASE j < R
        <4>1. PICK i \in 1 .. R : i = j + 1
          BY <1>1, <3>2
        <4>2. x[j] = w[i] /\ w[i] = IF i <= R - Len(v) THEN Missing ELSE v[i - (R - Len(v))]
          BY <1>2, <1>3, <3>2, <4>1
        <4>3. CASE j <= R - Len(u)
          BY <1>1, <2>1, <4>1, <4>2, <4>3
        <4>4. CASE ~(j <= R - Len(u))
          <5>1. /\ i - (R - Len(v)) \in 1 .. Len(v)
                /\ j - (R - Len(u)) = i - (R - Len(v))
                /\ ~(i <= R - Len(v))
            BY <1>1, <2>1, <3>2, <4>1, <4>4
          <5> QED
            BY <2>1, <4>1, <4>2, <4>4, <5>1
        <4> QED
          BY <4>3, <4>4
      <3> QED
        BY <1>1, <3>1, <3>2
    <2>3. u # << >> /\ Len(u) <= R
      BY <1>1, <1>4, <2>1, EmptySeq
    <2> QED
      BY <2>1, <2>2, <2>3 DEF Holds, x
  <1>5. CASE ~(Len(v) < R)
    <2>1. Len(v) = R /\ v # << >>
      BY <1>1, <1>5, EmptySeq
    <2> DEFINE t == Tail(v)
    <2>2. t \in Seq(Temperature) /\ Len(t) = R - 1 /\ \A j \in 1 .. R - 1 : t[j] = v[j + 1]
      BY <1>1, <2>1, HeadTailProperties
    <2> HIDE DEF t
    <2>3. /\ u \in Seq(Temperature) /\ Len(u) = R
          /\ \A j \in 1 .. R - 1 : u[j] = t[j]
          /\ u[R] = temp
      <3>1. u = Append(t, temp)
        BY <1>5 DEF t
      <3> QED
        <4>1. /\ Append(t, temp) \in Seq(Temperature)
              /\ Len(Append(t, temp)) = Len(t) + 1
              /\ \A j \in 1 .. Len(t) : Append(t, temp)[j] = t[j]
              /\ Append(t, temp)[Len(t) + 1] = temp
          BY <2>2, AppendProperties
        <4> QED
          BY <1>1, <2>2, <3>1, <4>1
    <2>4. ASSUME NEW j \in 1 .. R PROVE x[j] = u[j]
      <3>1. CASE j = R
        BY <1>1, <1>2, <2>3, <3>1
      <3>2. CASE j < R
        <4>1. PICK i \in 1 .. R : i = j + 1
          BY <1>1, <3>2
        <4>2. j \in 1 .. R - 1 /\ i - (R - Len(v)) = i /\ ~(i <= R - Len(v))
          BY <1>1, <2>1, <3>2, <4>1
        <4>3. x[j] = w[i] /\ w[i] = v[i]
          BY <1>2, <1>3, <3>2, <4>1, <4>2
        <4> QED
          BY <2>2, <2>3, <4>1, <4>2, <4>3
      <3>3. j = R \/ j < R
        BY <1>1
      <3> QED
        BY <3>1, <3>2, <3>3
    <2>5. ASSUME NEW j \in 1 .. R
          PROVE  x[j] = IF j <= R - Len(u) THEN Missing ELSE u[j - (R - Len(u))]
      <3>1. R - Len(u) = 0 /\ j \in Int /\ j > 0
        BY <1>1, <2>3
      <3>2. ~(j <= R - Len(u)) /\ j - (R - Len(u)) = j
        BY ONLY <3>1
      <3> QED
        BY <2>4, <3>2
    <2>6. u # << >> /\ Len(u) <= R
      BY <1>1, <2>3, EmptySeq
    <2> QED
      BY <2>3, <2>5, <2>6 DEF Holds, x
  <1> QED
    BY <1>4, <1>5

(* Temperatures are numbers, and so is what stands for none.                *)
LEMMA Numbers ==
  /\ \A w \in Window : w \in [1 .. R -> Int]
  /\ \A v \in Seq(Temperature) : v \in [1 .. Len(v) -> Int]
  <1>1. Temperature \subseteq Int /\ Temperature \cup {Missing} \subseteq Int
    BY RunningAverageAssumption DEF Missing
  <1>2. ASSUME NEW w \in Window PROVE w \in [1 .. R -> Int]
    BY <1>1 DEF Window
  <1>3. ASSUME NEW v \in Seq(Temperature) PROVE v \in [1 .. Len(v) -> Int]
    <2>1. v \in [1 .. Len(v) -> Temperature]
      BY LenProperties
    <2> QED
      BY <1>1, <2>1
  <1> QED
    BY <1>2, <1>3

(* The sum of a window is a number.                                         *)
LEMMA SumIsInt ==
  ASSUME NEW w \in [1 .. R -> Int]
  PROVE  Sum(w) \in Int
  <1>1. R \in Nat
    BY RunningAverageAssumption DEF R
  <1>2. PICK p \in [0 .. R -> Int] : Sum(w) = p[R]
    BY <1>1, SumIsPartial
  <1> QED
    BY <1>1, <1>2

(* A product with a positive number keeps the order.                        *)
LEMMA TimesGrows ==
  ASSUME NEW n \in Nat \ {0}, NEW a \in Int, NEW b \in Int
  PROVE  a * n \in Int /\ b * n \in Int /\ (a < b <=> a * n < b * n)
  OBVIOUS

-----------------------------------------------------------------------------
(* The invariant is inductive                                              *)

(* It holds of the list datamgr_thread reads from room_sensor.map.          *)
LEMMA InitAInv ==
  Init => AInv
  <1> SUFFICES ASSUME Init PROVE AInv
    OBVIOUS
  <1>1. R \in Nat \ {0} /\ Len(SensorMap) \in Nat /\ SensorMap \in Seq(Id)
    BY RunningAverageAssumption, LenProperties DEF R
  <1>2. \A k \in 1 .. Len(SensorMap) : SensorMap[k] \in Id
    BY <1>1, ElementOfSeq
  <1>3. TypeOK
    <2>1. sensors \in [1 .. Len(SensorMap) ->
            [sensor_id : Id, sum : Int, counter : 1 .. RUN_AVG_LENGTH,
             datamgr_avg : [1 .. RUN_AVG_LENGTH -> Temperature \cup {Missing}]]]
      <3>1. ASSUME NEW k \in 1 .. Len(SensorMap)
            PROVE  [sensor_id |-> SensorMap[k],
                    datamgr_avg |-> [j \in 1 .. RUN_AVG_LENGTH |-> Missing],
                    sum |-> 0, counter |-> RUN_AVG_LENGTH] \in
                   [sensor_id : Id, sum : Int, counter : 1 .. RUN_AVG_LENGTH,
                    datamgr_avg : [1 .. RUN_AVG_LENGTH -> Temperature \cup {Missing}]]
        BY <1>1, <1>2 DEF R
      <3> QED
        BY <3>1 DEF Init
    <2>2. \A k \in DOMAIN readings : readings[k] \in Seq(Temperature)
      BY DEF Init
    <2> QED
      BY <2>1, <2>2 DEF Init, TypeOK
  <1>4. readings \in [1 .. Len(SensorMap) -> Seq(Temperature)]
    BY DEF Init
  <1>5. WindowsHoldReadings
    <2> SUFFICES ASSUME NEW k \in 1 .. Len(SensorMap)
                 PROVE  Holds(sensors[k].datamgr_avg, readings[k])
      BY DEF WindowsHoldReadings
    <2>1. readings[k] = << >> /\ Len(readings[k]) = 0
      BY EmptySeq DEF Init
    <2>2. \A j \in 1 .. R : sensors[k].datamgr_avg[j] = Missing
      BY DEF Init, R
    <2>3. \A j \in 1 .. R : j <= R - 0
      BY <1>1
    <2> QED
      BY <1>1, <2>1, <2>2, <2>3 DEF Holds
  <1>6. AveragesAreCurrent /\ ReportIsLatest
    BY DEF Init, AveragesAreCurrent, ReportIsLatest
  <1> QED
    BY <1>3, <1>4, <1>5, <1>6 DEF AInv

(* A measurement keeps it, whether its sensor is in the map or not.         *)
LEMMA MeasurementAInv ==
  ASSUME AInv, NEW id \in Id, NEW temp \in Temperature, Measurement(id, temp)
  PROVE  AInv'
  <1> DEFINE k == get_index_of_sensor_id(id)
             w == sensors[k].datamgr_avg
             x == Append(Tail(w), temp)
             v == readings[k]
             Sensor == [sensor_id : Id, sum : Int, counter : 1 .. RUN_AVG_LENGTH,
                        datamgr_avg : [1 .. RUN_AVG_LENGTH -> Temperature \cup {Missing}]]
             u == IF Len(v) < R THEN Append(v, temp) ELSE Append(Tail(v), temp)
  <1>1. /\ sensors \in [1 .. Len(SensorMap) -> Sensor]
        /\ readings \in [1 .. Len(SensorMap) -> Seq(Temperature)]
        /\ TypeOK
    BY DEF AInv, TypeOK
  <1>2. k \in 1 .. Len(SensorMap) \cup {NotFound} /\ latest' = k
    BY <1>1, IndexOf DEF Measurement
  <1>3. CASE k = NotFound
    <2>1. logged' = {"invalid"} /\ UNCHANGED <<sensors, readings>>
      BY <1>3 DEF Measurement
    <2> QED
      BY <1>2, <1>3, <2>1
         DEF AInv, TypeOK, WindowsHoldReadings, AveragesAreCurrent, ReportIsLatest
  <1>4. CASE k # NotFound
    <2>1. k \in 1 .. Len(SensorMap) /\ w \in Window /\ v \in Seq(Temperature)
      BY <1>1, <1>2, <1>4 DEF Window, R
    <2>2. /\ sensors' = [sensors EXCEPT ![k].datamgr_avg = x, ![k].sum = Sum(x),
                                       ![k].counter = Counter(x)]
          /\ logged' = Report(Sum(x), Counter(x))
          /\ readings' = [readings EXCEPT ![k] = u]
      BY <1>4 DEF Measurement, add_new_temp, R
    <2>3. x \in Window
      BY <2>1, WindowMoves
    <2>4. Holds(w, v)
      BY <2>1 DEF AInv, WindowsHoldReadings
    <2>5. u \in Seq(Temperature) /\ u # << >> /\ Holds(x, u)
      BY <2>1, <2>4, HoldsMoves
    <2>6. Sum(x) \in Int
      <3>1. x \in [1 .. R -> Int]
        BY <2>3, Numbers
      <3> HIDE DEF x
      <3> QED
        BY <3>1, SumIsInt
    <2>7. Counter(x) \in 1 .. R
      BY CounterIs
    <2> HIDE DEF k, w, x, v, u
    <2>8. \A j \in 1 .. Len(SensorMap) :
            /\ sensors'[j].sensor_id = sensors[j].sensor_id
            /\ sensors'[j].datamgr_avg = IF j = k THEN x ELSE sensors[j].datamgr_avg
            /\ sensors'[j].sum = IF j = k THEN Sum(x) ELSE sensors[j].sum
            /\ sensors'[j].counter = IF j = k THEN Counter(x) ELSE sensors[j].counter
            /\ readings'[j] = IF j = k THEN u ELSE readings[j]
      BY <1>1, <2>1, <2>2
    <2>9. /\ sensors' \in [1 .. Len(SensorMap) -> Sensor]
          /\ readings' \in [1 .. Len(SensorMap) -> Seq(Temperature)]
      <3>1. [sensors[k] EXCEPT !.datamgr_avg = x, !.sum = Sum(x), !.counter = Counter(x)]
              \in Sensor
        <4>1. sensors[k] \in Sensor
          BY <1>1, <2>1
        <4> QED
          BY <2>3, <2>6, <2>7, <4>1 DEF Window, R
      <3>2. sensors' = [sensors EXCEPT ![k] =
              [sensors[k] EXCEPT !.datamgr_avg = x, !.sum = Sum(x), !.counter = Counter(x)]]
        BY <1>1, <2>1, <2>2
      <3> HIDE DEF Sensor
      <3> QED
        BY <1>1, <2>1, <2>2, <2>5, <3>1, <3>2
    <2> HIDE DEF Sensor
    <2>10. TypeOK'
      <3>1. logged' \subseteq {"too_hot", "too_cold", "invalid"}
        BY <2>2 DEF Report
      <3>2. \A j \in DOMAIN readings' : readings'[j] \in Seq(Temperature)
        BY <2>9
      <3>3. latest' \in DOMAIN sensors' \cup {NotFound}
        BY <1>2, <2>1, <2>9
      <3> QED
        BY <2>9, <3>1, <3>2, <3>3 DEF TypeOK, Sensor
    <2>11. WindowsHoldReadings'
      <3>1. ASSUME NEW j \in 1 .. Len(SensorMap)
            PROVE  Holds(sensors'[j].datamgr_avg, readings'[j])
        BY <2>5, <2>8 DEF AInv, WindowsHoldReadings
      <3> QED
        BY <3>1 DEF WindowsHoldReadings
    <2>12. AveragesAreCurrent'
      <3>1. ASSUME NEW j \in 1 .. Len(SensorMap), readings'[j] # << >>
            PROVE  /\ sensors'[j].sum = Sum(sensors'[j].datamgr_avg)
                   /\ sensors'[j].counter = Counter(sensors'[j].datamgr_avg)
        BY <2>8, <3>1 DEF AInv, AveragesAreCurrent
      <3> QED
        BY <3>1 DEF AveragesAreCurrent
    <2>13. ReportIsLatest'
      <3>1. latest' = k
        BY <1>2
      <3> QED
        BY <2>1, <2>2, <2>5, <2>8, <3>1 DEF ReportIsLatest
    <2> QED
      BY <2>9, <2>10, <2>11, <2>12, <2>13 DEF AInv
  <1> QED
    BY <1>3, <1>4

(* So does every step.                                                      *)
LEMMA NextAInv ==
  AInv /\ [Next]_vars => AInv'
  <1> SUFFICES ASSUME AInv, [Next]_vars PROVE AInv'
    OBVIOUS
  <1>1. CASE UNCHANGED vars
    BY <1>1 DEF AInv, TypeOK, WindowsHoldReadings, AveragesAreCurrent, ReportIsLatest, vars
  <1>2. CASE Next
    BY <1>2, MeasurementAInv DEF Next
  <1> QED
    BY <1>1, <1>2

(* At all times the windows hold the last readings, and sum, counter and    *)
(* report are those of the window.                                          *)
THEOREM SpecAInv ==
  Spec => []AInv
  BY InitAInv, NextAInv, PTL DEF Spec

(* Every variable of DATAMGR holds a value of its type; the counter the     *)
(* average divides by is never 0.                                           *)
THEOREM TypeCorrect ==
  Spec => []TypeOK
  <1>1. AInv => TypeOK
    BY DEF AInv
  <1> QED
    BY <1>1, SpecAInv, PTL

(* With no 0 among the older ones, what is counted are the readings.        *)
LEMMA AInvMean ==
  ASSUME AInv
  PROVE  MeanUnlessZero
  <1> SUFFICES ASSUME NEW k \in DOMAIN sensors, readings[k] # << >>,
                      \A j \in 1 .. Len(readings[k]) - 1 : readings[k][j] # 0
               PROVE  /\ sensors[k].counter = Len(readings[k])
                      /\ sensors[k].sum = Sum(readings[k])
    BY DEF MeanUnlessZero
  <1> DEFINE w == sensors[k].datamgr_avg
             v == readings[k]
  <1>1. /\ k \in 1 .. Len(SensorMap) /\ w \in Window /\ v \in Seq(Temperature)
        /\ Holds(w, v) /\ v # << >>
        /\ sensors[k].sum = Sum(w) /\ sensors[k].counter = Counter(w)
    BY DEF AInv, TypeOK, WindowsHoldReadings, AveragesAreCurrent, Window, R
  <1>2. \A j \in 1 .. Len(v) - 1 : v[j] # Missing
    BY DEF Missing
  <1> HIDE DEF w, v
  <1>3. R \in Nat \ {0} /\ Len(v) \in 1 .. R /\ Temperature \subseteq Int
    BY <1>1, RunningAverageAssumption, LenProperties, EmptySeq DEF R, Holds
  <1>4. w \in [1 .. R -> Int] /\ v \in [1 .. Len(v) -> Int]
    BY <1>1, Numbers
  <1>5. \A j \in 1 .. R : w[j] = IF j <= R - Len(v) THEN Missing ELSE v[j - (R - Len(v))]
    BY <1>1 DEF Holds
  <1>6. Sum(w) = Sum(v)
    <2>1. R \in Nat /\ Len(v) \in 0 .. R
      BY <1>3
    <2>2. \A j \in 1 .. R : w[j] = IF j <= R - Len(v) THEN 0 ELSE v[j - (R - Len(v))]
      BY <1>5 DEF Missing
    <2> QED
      BY <1>4, <2>1, <2>2, SumAfterZeros, Zenon
  <1>7. Counter(w) = Len(v)
    <2>1. Skipped(w, R, R) = 1 .. R - Len(v)
      <3>1. ASSUME NEW j \in 1 .. R, j < R PROVE w[j] = Missing <=> j <= R - Len(v)
        <4>1. CASE j <= R - Len(v)
          BY <1>5, <4>1
        <4>2. CASE ~(j <= R - Len(v))
          <5>1. w[j] = v[j - (R - Len(v))]
            BY <1>5, <4>2
          <5>2. j - (R - Len(v)) \in 1 .. Len(v) - 1
            BY <1>3, <3>1, <4>2
          <5> QED
            BY <1>2, <4>2, <5>1, <5>2
        <4> QED
          BY <4>1, <4>2
      <3>2. \A j \in 1 .. R - Len(v) : j \in 1 .. R /\ j < R /\ j <= R - Len(v)
        BY <1>3
      <3>3. \A j \in 1 .. R : j <= R - Len(v) => j \in 1 .. R - Len(v)
        BY <1>3
      <3> QED
        BY <3>1, <3>2, <3>3 DEF Skipped
    <2>2. Cardinality(1 .. R - Len(v)) = R - Len(v)
      <3>1. R - Len(v) \in Nat
        BY <1>3
      <3> QED
        BY <1>3, <3>1, FS_Interval
    <2>3. Counter(w) = R - (R - Len(v))
      BY <2>1, <2>2, CounterIs DEF Counted
    <2> QED
      BY <1>3, <2>3
  <1> QED
    BY <1>1, <1>6, <1>7 DEF v

(* As long as none of the older temperatures is 0, the average is the mean  *)
(* of the last RUN_AVG_LENGTH temperatures of the sensor.                   *)
THEOREM MeanIsRight ==
  Spec => []MeanUnlessZero
  BY AInvMean, SpecAInv, PTL

(* The least and the largest of the readings enclose the average.           *)
LEMMA AInvJustified ==
  ASSUME AInv
  PROVE  AverageIsJustified
  <1> SUFFICES ASSUME latest # NotFound PROVE AverageIsJustified
    BY DEF AverageIsJustified
  <1> DEFINE w == sensors[latest].datamgr_avg
             v == readings[latest]
             n == sensors[latest].counter
             s == sensors[latest].sum
             recent == {readings[latest][j] : j \in 1 .. Len(readings[latest])}
  <1>1. /\ latest \in 1 .. Len(SensorMap) /\ w \in Window /\ v \in Seq(Temperature)
        /\ Holds(w, v) /\ v # << >>
        /\ s = Sum(w) /\ n = Counter(w)
        /\ logged = Report(s, n)
    BY DEF AInv, TypeOK, WindowsHoldReadings, AveragesAreCurrent, ReportIsLatest, Window, R
  <1>2. recent = {v[j] : j \in 1 .. Len(v)}
    OBVIOUS
  <1> HIDE DEF w, v, n, s, recent
  <1>3. R \in Nat \ {0} /\ Len(v) \in 1 .. R /\ Temperature \subseteq Int
    BY <1>1, RunningAverageAssumption, LenProperties, EmptySeq DEF R, Holds
  <1>4. w \in [1 .. R -> Int] /\ v \in [1 .. Len(v) -> Int]
    BY <1>1, Numbers
  <1>5. \A j \in 1 .. R : j = R \/ w[j] # Missing => w[j] \in recent
    <2>1. ASSUME NEW j \in 1 .. R, j = R \/ w[j] # Missing PROVE w[j] \in recent
      <3>1. w[j] = IF j <= R - Len(v) THEN Missing ELSE v[j - (R - Len(v))]
        BY <1>1 DEF Holds
      <3>2. ~(j <= R - Len(v))
        BY <1>3, <2>1, <3>1
      <3>3. j - (R - Len(v)) \in 1 .. Len(v)
        BY <1>3, <3>2
      <3> QED
        BY <1>2, <3>1, <3>2, <3>3
    <2> QED
      BY <2>1
  <1>6. n = Counted(w, R, R) /\ n \in 1 .. R /\ s \in Int
    BY <1>1, <1>4, <1>3, CounterIs, SumIsInt
  <1> DEFINE l == Len(v)
  <1>7. l \in Nat \ {0} /\ v \in [1 .. l -> Int]
    BY <1>3, <1>4
  <1> HIDE DEF l
  <1>8. /\ \E j \in 1 .. l : \A i \in 1 .. l : v[j] <= v[i]
        /\ \E j \in 1 .. l : \A i \in 1 .. l : v[i] <= v[j]
    BY <1>7, Extremes, Zenon
  <1>9. recent = {v[j] : j \in 1 .. l}
    BY <1>2 DEF l
  <1>10. PICK least \in recent : \A t \in recent : least <= t
    BY <1>8, <1>9
  <1>11. PICK most \in recent : \A t \in recent : t <= most
    BY <1>8, <1>9
  <1>12. recent \subseteq Int
    BY <1>2, <1>4
  <1>13. least * n <= s
    <2>1. \A j \in 1 .. R : j = R \/ w[j] # Missing => least <= w[j]
      BY <1>5, <1>10
    <2> QED
      BY <1>1, <1>3, <1>4, <1>6, <1>10, <1>12, <2>1, SumAtLeast
  <1>14. s <= most * n
    <2>1. \A j \in 1 .. R : j = R \/ w[j] # Missing => w[j] <= most
      BY <1>5, <1>11
    <2> QED
      BY <1>1, <1>3, <1>4, <1>6, <1>11, <1>12, <2>1, SumAtMost
  <1>15. n \in Nat \ {0} /\ SET_MIN_TEMP \in Int /\ SET_MAX_TEMP \in Int
    BY <1>3, <1>6, RunningAverageAssumption
  <1>16. /\ "too_hot" \in logged <=> s > SET_MAX_TEMP * n
         /\ "too_cold" \in logged <=> s < SET_MIN_TEMP * n
    BY <1>1 DEF Report
  <1>17. "too_hot" \in logged => most > SET_MAX_TEMP
    BY <1>6, <1>11, <1>12, <1>14, <1>15, <1>16, TimesGrows
  <1>18. "too_cold" \in logged => least < SET_MIN_TEMP
    BY <1>6, <1>10, <1>12, <1>13, <1>15, <1>16, TimesGrows
  <1>19. least > SET_MAX_TEMP => "too_hot" \in logged
    BY <1>6, <1>10, <1>12, <1>13, <1>15, <1>16, TimesGrows
  <1>20. most < SET_MIN_TEMP => "too_cold" \in logged
    BY <1>6, <1>11, <1>12, <1>14, <1>15, <1>16, TimesGrows
  <1> QED
    BY <1>10, <1>11, <1>13, <1>14, <1>17, <1>18, <1>19, <1>20, <1>12, <1>6
       DEF AverageIsJustified, recent, n, s

(* Zeros or not, the average lies between the last temperatures, and the    *)
(* reports of too hot and too cold have a cause among them.                 *)
THEOREM AverageJustified ==
  Spec => []AverageIsJustified
  BY AInvJustified, SpecAInv, PTL
==============================================================================
