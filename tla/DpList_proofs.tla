---------------------------- MODULE DpList_proofs ----------------------------
(***************************************************************************)
(* Proofs about the list of lib/dplist.c, for any number of nodes and any  *)
(* elements.                                                               *)
(*                                                                         *)
(* DInv is inductive: while a list is whole - nothing crashed, the walk    *)
(* along next from the head ends and passes only nodes in use - the nodes  *)
(* it passes are all that are in use, and each prev is the node before,    *)
(* the node itself or NULL.  At is a walk: it exists and there is only one *)
(* by induction over its length, so what a step makes of it is found by    *)
(* guessing the new walk and checking it link by link.  InsertOutcome and  *)
(* RemoveOutcome say what the cases of an insertion and of a removal have  *)
(* in common; the theorems follow from these two and from the invariant.   *)
(***************************************************************************)
EXTENDS DpListProperties, NatInduction, SequenceTheorems, FiniteSetTheorems

(* f walks m steps along nx, from h.                                        *)
IsWalk(f, h, nx, m) ==
  f = [k \in 0 .. m |->
         IF k = 0 THEN h ELSE LET n == f[k - 1] IN IF n = NULL THEN NULL ELSE nx[n]]

Follows(f, h, nx, m) ==
  /\ f[0] = h
  /\ \A k \in 1 .. m : f[k] = IF f[k - 1] = NULL THEN NULL ELSE nx[f[k - 1]]

(* A walk is what its definition says, point by point.                      *)
LEMMA WalkFollows ==
  ASSUME NEW f, NEW h, NEW nx, NEW m \in Nat, IsWalk(f, h, nx, m)
  PROVE  Follows(f, h, nx, m)
  <1> DEFINE g == [k \in 0 .. m |->
                     IF k = 0 THEN h
                     ELSE LET n == f[k - 1] IN IF n = NULL THEN NULL ELSE nx[n]]
  <1>1. f = g
    BY Zenon DEF IsWalk
  <1>2. g[0] = h /\ \A k \in 1 .. m : g[k] = IF f[k - 1] = NULL THEN NULL ELSE nx[f[k - 1]]
    OBVIOUS
  <1> HIDE DEF g
  <1> QED
    BY <1>1, <1>2 DEF Follows

(* There is such a walk.                                                    *)
LEMMA WalkExists ==
  ASSUME NEW h, NEW nx
  PROVE  \A m \in Nat : \E f : IsWalk(f, h, nx, m)
  <1> DEFINE S == {m \in Nat : \E f : IsWalk(f, h, nx, m)}
  <1>1. 0 \in S
    <2> DEFINE f == [k \in 0 .. 0 |-> h]
    <2>1. IsWalk(f, h, nx, 0)
      BY DEF IsWalk
    <2> QED
      BY <2>1
  <1>2. ASSUME NEW m \in Nat, m \in S PROVE m + 1 \in S
    <2>1. PICK f : IsWalk(f, h, nx, m)
      BY <1>2
    <2> DEFINE g == [k \in 0 .. m + 1 |->
                       IF k <= m THEN f[k] ELSE IF f[m] = NULL THEN NULL ELSE nx[f[m]]]
    <2>2. Follows(f, h, nx, m)
      BY <2>1, WalkFollows
    <2>3. ASSUME NEW k \in 0 .. m + 1
          PROVE  g[k] = IF k = 0 THEN h
                        ELSE LET n == g[k - 1] IN IF n = NULL THEN NULL ELSE nx[n]
      <3>1. CASE k = 0
        BY <2>2, <3>1 DEF Follows
      <3>2. CASE k \in 1 .. m
        <4>1. g[k] = f[k] /\ g[k - 1] = f[k - 1]
          BY <3>2
        <4> QED
          BY <2>2, <3>2, <4>1 DEF Follows
      <3>3. CASE k = m + 1
        <4>1. g[k - 1] = f[m] /\ g[k] = IF f[m] = NULL THEN NULL ELSE nx[f[m]]
          BY <3>3
        <4> QED
          BY <3>3, <4>1
      <3> QED
        BY <3>1, <3>2, <3>3
    <2>4. g = [k \in 0 .. m + 1 |-> g[k]]
      OBVIOUS
    <2> HIDE DEF g
    <2>5. IsWalk(g, h, nx, m + 1)
      BY <2>3, <2>4, Zenon DEF IsWalk
    <2> QED
      BY <2>5
  <1> HIDE DEF S
  <1>3. \A m \in Nat : m \in S
    BY ONLY <1>1, <1>2, Induction
  <1> QED
    BY <1>3 DEF S

(* Two walks from the same node along the same links are the same.          *)
LEMMA WalkUnique ==
  ASSUME NEW h, NEW nx, NEW M \in Nat, NEW f, NEW g,
         Follows(f, h, nx, M), Follows(g, h, nx, M)
  PROVE  \A k \in 0 .. M : f[k] = g[k]
  <1> DEFINE S == {m \in Nat : m <= M => f[m] = g[m]}
  <1>1. 0 \in S
    BY DEF Follows
  <1>2. ASSUME NEW m \in Nat, m \in S PROVE m + 1 \in S
    <2> SUFFICES ASSUME m + 1 <= M PROVE f[m + 1] = g[m + 1]
      OBVIOUS
    <2>1. f[m] = g[m]
      BY <1>2
    <2>2. PICK k \in 1 .. M : k = m + 1 /\ k - 1 = m
      OBVIOUS
    <2>3. /\ f[k] = IF f[m] = NULL THEN NULL ELSE nx[f[m]]
          /\ g[k] = IF g[m] = NULL THEN NULL ELSE nx[g[m]]
      BY <2>2 DEF Follows
    <2> QED
      BY <2>1, <2>2, <2>3
  <1> HIDE DEF S
  <1>3. \A m \in Nat : m \in S
    BY ONLY <1>1, <1>2, Induction
  <1> QED
    BY <1>3 DEF S

-----------------------------------------------------------------------------
Step == 0 .. MaxNodes
Pointer == Node \cup {NULL}

(* What is assumed of the constants.                                        *)
LEMMA Bounds ==
  MaxNodes \in Nat \ {0} /\ NULL = 0 /\ NULL \notin Node
  /\ Element \subseteq Int \ {0} /\ Element # {}
  BY DpListAssumption DEF NULL, Node

(* At is the walk from the head along next.                                 *)
LEMMA AtFollows ==
  Follows(At, head, next, MaxNodes) /\ DOMAIN At = Step
  <1>1. At = CHOOSE f : IsWalk(f, head, next, MaxNodes)
    BY DEF At, IsWalk
  <1>2. IsWalk(At, head, next, MaxNodes)
    BY <1>1, WalkExists, Bounds
  <1>3. DOMAIN At = Step
    BY <1>2, Zenon DEF IsWalk, Step
  <1> QED
    BY <1>2, <1>3, WalkFollows, Bounds

(* The same of the list a step leaves.                                      *)
LEMMA NextAt ==
  (Follows(At, head, next, MaxNodes) /\ DOMAIN At = Step)'
  BY AtFollows, PTL

(* A walk that comes to its end has a length.                               *)
LEMMA Extent ==
  ASSUME NEW h, NEW nx, NEW M \in Nat, NEW f, Follows(f, h, nx, M), f[M] = NULL
  PROVE  \E n \in 0 .. M : \A k \in 0 .. M : f[k] # NULL <=> k < n
  <1> DEFINE T == {k \in 0 .. M : f[k] = NULL}
  <1>1. T \subseteq Nat /\ T # {}
    OBVIOUS
  <1> HIDE DEF T
  <1>2. PICK n \in T : \A k \in T : n <= k
    BY <1>1, Least
  <1>3. n \in 0 .. M /\ f[n] = NULL /\ \A k \in 0 .. M : k < n => f[k] # NULL
    BY <1>2 DEF T
  <1> DEFINE S == {m \in Nat : m <= M /\ n <= m => f[m] = NULL}
  <1>4. 0 \in S
    BY <1>3
  <1>5. ASSUME NEW m \in Nat, m \in S PROVE m + 1 \in S
    <2> SUFFICES ASSUME m + 1 <= M, n <= m + 1 PROVE f[m + 1] = NULL
      OBVIOUS
    <2>1. CASE n = m + 1
      BY <1>3, <2>1
    <2>2. CASE n # m + 1
      <3>1. f[m] = NULL
        BY <1>3, <1>5, <2>2
      <3>2. PICK k \in 1 .. M : k = m + 1 /\ k - 1 = m
        OBVIOUS
      <3> QED
        BY <3>1, <3>2 DEF Follows
    <2> QED
      BY <2>1, <2>2
  <1> HIDE DEF S
  <1>6. \A m \in Nat : m \in S
    BY ONLY <1>4, <1>5, Induction
  <1>7. \A k \in 0 .. M : n <= k => f[k] = NULL
    BY <1>6 DEF S
  <1>8. \A k \in 0 .. M : f[k] # NULL <=> k < n
    BY <1>3, <1>7
  <1> QED
    BY <1>3, <1>8

(* The size of a list, as the length of the walk over it.                   *)
LEMMA SizeIs ==
  ASSUME NEW f, NEW M \in Nat, NEW n \in 0 .. M, \A k \in 0 .. M : f[k] # NULL <=> k < n
  PROVE  Cardinality({k \in 0 .. M : f[k] # NULL}) = n
  <1>1. {k \in 0 .. M : f[k] # NULL} = 0 .. n - 1
    OBVIOUS
  <1>2. n - 1 \in Int
    OBVIOUS
  <1>3. Cardinality(0 .. n - 1) = IF 0 > n - 1 THEN 0 ELSE (n - 1) - 0 + 1
    BY <1>2, FS_Interval
  <1>4. Cardinality(0 .. n - 1) = n
    BY ONLY <1>3, n \in Nat
  <1> QED
    BY <1>1, <1>4, Zenon

(* A walk that ends passes no node twice: it would go round for ever.       *)
LEMMA Distinct ==
  ASSUME NEW h, NEW nx, NEW M \in Nat, NEW f, Follows(f, h, nx, M),
         NEW n \in 0 .. M, \A k \in 0 .. M : f[k] # NULL <=> k < n
  PROVE  \A i, j \in 0 .. n - 1 : f[i] = f[j] => i = j
  <1>1. ASSUME NEW i \in 0 .. n - 1, NEW j \in 0 .. n - 1, f[i] = f[j], i < j
        PROVE  FALSE
    <2> DEFINE S == {m \in Nat : j + m <= M => f[i + m] = f[j + m]}
    <2>1. 0 \in S
      BY <1>1
    <2>2. ASSUME NEW m \in Nat, m \in S PROVE m + 1 \in S
      <3> SUFFICES ASSUME j + (m + 1) <= M PROVE f[i + (m + 1)] = f[j + (m + 1)]
        OBVIOUS
      <3>1. f[i + m] = f[j + m]
        BY <2>2
      <3>2. PICK a \in 1 .. M : a = i + (m + 1) /\ a - 1 = i + m
        BY <1>1
      <3>3. PICK b \in 1 .. M : b = j + (m + 1) /\ b - 1 = j + m
        OBVIOUS
      <3>4. /\ f[a] = IF f[i + m] = NULL THEN NULL ELSE nx[f[i + m]]
            /\ f[b] = IF f[j + m] = NULL THEN NULL ELSE nx[f[j + m]]
        BY <3>2, <3>3 DEF Follows
      <3> QED
        BY <3>1, <3>2, <3>3, <3>4
    <2> HIDE DEF S
    <2>3. \A m \in Nat : m \in S
      BY ONLY <2>1, <2>2, Induction
    <2>4. n - j \in Nat /\ j + (n - j) = n /\ i + (n - j) \in 0 .. M /\ i + (n - j) < n
      BY <1>1
    <2>5. f[i + (n - j)] = f[n]
      BY <2>3, <2>4 DEF S
    <2> QED
      BY <2>4, <2>5
  <1>2. \A i, j \in 0 .. n - 1 : i < j \/ j < i \/ i = j
    OBVIOUS
  <1> QED
    BY <1>1, <1>2

-----------------------------------------------------------------------------
(* What a list looks like whose walk can be trusted.                        *)
Shape ==
  /\ dpl_size \in 0 .. MaxNodes
  /\ \A k \in Step : At[k] # NULL <=> k < dpl_size
  /\ \A k \in 0 .. dpl_size - 1 : At[k] \in live
  /\ \A k \in 0 .. dpl_size - 1 : At[k + 1] = next[At[k]]
  /\ \A i, j \in 0 .. dpl_size - 1 : At[i] = At[j] => i = j
  /\ At[0] = head

(* A list that is whole has a length, its nodes in the order of next, each  *)
(* once.                                                                    *)
LEMMA WholeHasShape ==
  ~Damaged => Shape
  <1> SUFFICES ASSUME ~Damaged PROVE Shape
    OBVIOUS
  <1>1. Follows(At, head, next, MaxNodes) /\ MaxNodes \in Nat
    BY AtFollows, Bounds
  <1>2. At[MaxNodes] = NULL
    BY DEF Damaged
  <1>3. PICK n \in 0 .. MaxNodes : \A k \in 0 .. MaxNodes : At[k] # NULL <=> k < n
    BY <1>1, <1>2, Extent
  <1>4. dpl_size = n
    BY <1>1, <1>3, SizeIs DEF dpl_size
  <1>5. \A i, j \in 0 .. n - 1 : At[i] = At[j] => i = j
    <2> DEFINE f == At
    <2>1. Follows(f, head, next, MaxNodes) /\ \A k \in 0 .. MaxNodes : f[k] # NULL <=> k < n
      BY <1>1, <1>3
    <2> HIDE DEF f
    <2>2. \A i, j \in 0 .. n - 1 : f[i] = f[j] => i = j
      BY <1>1, <2>1, Distinct
    <2> QED
      BY <2>2 DEF f
  <1>6. \A k \in 0 .. n - 1 : At[k] \in live
    BY <1>1, <1>3 DEF Damaged
  <1>7. ASSUME NEW k \in 0 .. n - 1 PROVE At[k + 1] = next[At[k]]
    <2>1. PICK j \in 1 .. MaxNodes : j = k + 1 /\ j - 1 = k
      BY <1>1
    <2>2. At[k] # NULL
      BY <1>1, <1>3
    <2> QED
      BY <1>1, <2>1, <2>2 DEF Follows
  <1> QED
    BY <1>1, <1>3, <1>4, <1>5, <1>6, <1>7 DEF Shape, Step, Follows

(* The same of the list a step leaves.                                      *)
LEMMA WholeHasShapeNext ==
  ~Damaged' => Shape'
  BY WholeHasShape, PTL

(* To tell what the walk is after a step it is enough to guess it.          *)
LEMMA GuessedWalk ==
  ASSUME NEW g, g[0] = head',
         \A k \in 1 .. MaxNodes : g[k] = IF g[k - 1] = NULL THEN NULL ELSE next'[g[k - 1]]
  PROVE  \A k \in Step : At'[k] = g[k]
  <1>1. Follows(g, head', next', MaxNodes)
    BY DEF Follows
  <1>2. Follows(At', head', next', MaxNodes) /\ MaxNodes \in Nat
    BY NextAt, Bounds DEF Follows
  <1> QED
    BY <1>1, <1>2, WalkUnique DEF Step

(* And its size and soundness follow from where its nodes are.              *)
LEMMA GuessedSize ==
  ASSUME NEW n \in 0 .. MaxNodes, \A k \in Step : At'[k] # NULL <=> k < n
  PROVE  /\ dpl_size' = n
         /\ (\A k \in 0 .. n - 1 : At'[k] \in live') => ~Damaged'
  <1>1. MaxNodes \in Nat \ {0}
    BY Bounds
  <1>2. dpl_size' = n
    BY <1>1, SizeIs DEF dpl_size, Step
  <1>3. ASSUME \A k \in 0 .. n - 1 : At'[k] \in live' PROVE ~Damaged'
    <2>1. At'[MaxNodes] = NULL
      BY <1>1 DEF Step
    <2>2. \A k \in 0 .. MaxNodes - 1 : At'[k] \in live' \cup {NULL}
      BY <1>1, <1>3 DEF Step
    <2> QED
      BY <2>1, <2>2 DEF Damaged
  <1> QED
    BY <1>2, <1>3

-----------------------------------------------------------------------------
(* The nodes of the list, and what is known of their prev however the list  *)
(* was used.                                                                *)
Nodes == {At[k] : k \in Step} \ {NULL}

Near ==
  \A k \in 0 .. dpl_size - 1 :
    \/ prev[At[k]] = NULL
    \/ prev[At[k]] = At[k]
    \/ k > 0 /\ prev[At[k]] = At[k - 1]

Linked ==
  \A k \in 0 .. dpl_size - 1 : prev[At[k]] = IF k = 0 THEN NULL ELSE At[k - 1]

DInv ==
  /\ TypeOK
  /\ Intact => live = Nodes /\ Near

(* What an insertion and a removal at place p do to the walk, and to prev.  *)
InsertedAt(p, f) ==
  /\ p \in 0 .. dpl_size
  /\ f \in Node \ live
  /\ live' = live \cup {f}
  /\ \A k \in Step : At'[k] = IF k < p THEN At[k] ELSE IF k = p THEN f ELSE At[k - 1]

PrevInserted(p, f) ==
  /\ prev'[f] = IF p > 0 THEN At[p - 1] ELSE IF dpl_size = 0 THEN NULL ELSE f
  /\ \A k \in 0 .. dpl_size - 1 : prev'[At[k]] = IF k = p /\ p > 0 THEN f ELSE prev[At[k]]

RemovedAt(p) ==
  /\ p \in 0 .. dpl_size - 1
  /\ live' = live \ {At[p]}
  /\ \A k \in Step :
       At'[k] = IF k < p THEN At[k] ELSE IF k = MaxNodes THEN NULL ELSE At[k + 1]

PrevRemoved(p) ==
  \A k \in 0 .. dpl_size - 1 :
    k # p => prev'[At[k]] = IF k # p + 1 THEN prev[At[k]]
                            ELSE IF p = 0 THEN NULL ELSE At[p - 1]

(* The links an insertion has to set for the walk to find the new node.     *)
LEMMA InsertedWalk ==
  ASSUME Shape, NEW p \in 0 .. dpl_size, NEW f \in Node \ live,
         head' = IF p = 0 THEN f ELSE head,
         next'[f] = At[p],
         p > 0 => next'[At[p - 1]] = f,
         \A k \in 0 .. dpl_size - 1 : k # p - 1 => next'[At[k]] = next[At[k]]
  PROVE  \A k \in Step : At'[k] = IF k < p THEN At[k] ELSE IF k = p THEN f ELSE At[k - 1]
  <1> DEFINE n == dpl_size
             g == [k \in Step |-> IF k < p THEN At[k] ELSE IF k = p THEN f ELSE At[k - 1]]
  <1>1. n \in 0 .. MaxNodes /\ MaxNodes \in Nat \ {0} /\ f # NULL /\ p \in 0 .. n
    BY Bounds DEF Shape
  <1>2. /\ \A k \in 0 .. MaxNodes : At[k] # NULL <=> k < n
        /\ \A k \in 0 .. n - 1 : At[k] \in live
        /\ \A k \in 0 .. n - 1 : At[k + 1] = next[At[k]]
        /\ At[0] = head
    BY DEF Shape, Step
  <1>3. /\ head' = IF p = 0 THEN f ELSE head
        /\ next'[f] = At[p]
        /\ p > 0 => next'[At[p - 1]] = f
        /\ \A k \in 0 .. n - 1 : k # p - 1 => next'[At[k]] = next[At[k]]
    OBVIOUS
  <1>4. \A k \in 0 .. MaxNodes : g[k] = IF k < p THEN At[k] ELSE IF k = p THEN f ELSE At[k - 1]
    BY DEF Step
  <1> HIDE DEF n, g
  <1>5. g[0] = head'
    BY <1>1, <1>2, <1>3, <1>4
  <1>6. ASSUME NEW k \in 1 .. MaxNodes
        PROVE  g[k] = IF g[k - 1] = NULL THEN NULL ELSE next'[g[k - 1]]
    <2>1. PICK j \in 0 .. MaxNodes - 1 : j = k - 1 /\ k = j + 1
      BY <1>1
    <2>2. CASE k < p
      <3>1. g[k] = At[k] /\ g[j] = At[j]
        BY <1>1, <1>4, <2>1, <2>2
      <3>2. j \in 0 .. n - 1 /\ j # p - 1 /\ j < n
        BY <1>1, <2>1, <2>2
      <3>3. At[j] # NULL /\ next'[At[j]] = At[j + 1]
        BY <1>1, <1>2, <1>3, <3>2
      <3> QED
        BY <2>1, <3>1, <3>3
    <2>3. CASE k = p
      <3>1. g[k] = f /\ g[j] = At[j] /\ p > 0 /\ j = p - 1
        BY <1>1, <1>4, <2>1, <2>3
      <3>2. At[j] # NULL
        BY <1>1, <1>2, <2>1, <2>3
      <3> QED
        BY <1>3, <2>1, <3>1, <3>2
    <2>4. CASE k = p + 1
      <3>1. g[k] = At[p] /\ g[j] = f
        BY <1>1, <1>4, <2>1, <2>4
      <3> QED
        BY <1>1, <1>3, <2>1, <3>1
    <2>5. CASE k > p + 1
      <3>1. PICK i \in 0 .. MaxNodes - 1 : i = j - 1 /\ j = i + 1
        BY <1>1, <2>1, <2>5
      <3>2. g[k] = At[j] /\ g[j] = At[i]
        BY <1>1, <1>4, <2>1, <2>5, <3>1
      <3>3. CASE i < n
        <4>1. i \in 0 .. n - 1 /\ i # p - 1
          BY <1>1, <2>1, <2>5, <3>1, <3>3
        <4>2. At[i] # NULL /\ next'[At[i]] = At[i + 1]
          BY <1>1, <1>2, <1>3, <3>1, <3>3, <4>1
        <4> QED
          BY <2>1, <3>1, <3>2, <4>2
      <3>4. CASE ~(i < n)
        <4>1. At[i] = NULL /\ At[j] = NULL
          BY <1>1, <1>2, <2>1, <3>1, <3>4
        <4> QED
          BY <2>1, <3>2, <4>1
      <3> QED
        BY <3>3, <3>4
    <2> QED
      BY <1>1, <2>2, <2>3, <2>4, <2>5
  <1>7. \A k \in Step : At'[k] = g[k]
    BY <1>5, <1>6, GuessedWalk
  <1> QED
    BY <1>4, <1>7 DEF Step

(* The links a removal has to set for the walk to pass the node over.       *)
LEMMA RemovedWalk ==
  ASSUME Shape, NEW p \in 0 .. dpl_size - 1,
         head' = IF p = 0 THEN At[1] ELSE head,
         p > 0 => next'[At[p - 1]] = At[p + 1],
         \A k \in 0 .. dpl_size - 1 : k # p /\ k # p - 1 => next'[At[k]] = next[At[k]]
  PROVE  \A k \in Step :
           At'[k] = IF k < p THEN At[k] ELSE IF k = MaxNodes THEN NULL ELSE At[k + 1]
  <1> DEFINE n == dpl_size
             g == [k \in Step |-> IF k < p THEN At[k]
                                  ELSE IF k = MaxNodes THEN NULL ELSE At[k + 1]]
  <1>1. n \in 0 .. MaxNodes /\ MaxNodes \in Nat \ {0} /\ p \in 0 .. n - 1
    BY Bounds DEF Shape
  <1>2. /\ \A k \in 0 .. MaxNodes : At[k] # NULL <=> k < n
        /\ \A k \in 0 .. n - 1 : At[k + 1] = next[At[k]]
        /\ At[0] = head
    BY DEF Shape, Step
  <1>3. /\ head' = IF p = 0 THEN At[1] ELSE head
        /\ p > 0 => next'[At[p - 1]] = At[p + 1]
        /\ \A k \in 0 .. n - 1 : k # p /\ k # p - 1 => next'[At[k]] = next[At[k]]
    OBVIOUS
  <1>4. \A k \in 0 .. MaxNodes :
          g[k] = IF k < p THEN At[k] ELSE IF k = MaxNodes THEN NULL ELSE At[k + 1]
    BY DEF Step
  <1> HIDE DEF n, g
  <1>5. g[0] = head'
    BY <1>1, <1>2, <1>3, <1>4
  <1>6. ASSUME NEW k \in 1 .. MaxNodes
        PROVE  g[k] = IF g[k - 1] = NULL THEN NULL ELSE next'[g[k - 1]]
    <2>1. PICK j \in 0 .. MaxNodes - 1 : j = k - 1 /\ k = j + 1
      BY <1>1
    <2>2. CASE k < p
      <3>1. g[k] = At[k] /\ g[j] = At[j]
        BY <1>1, <1>4, <2>1, <2>2
      <3>2. j \in 0 .. n - 1 /\ j # p - 1 /\ j # p /\ j < n
        BY <1>1, <2>1, <2>2
      <3>3. At[j] # NULL /\ next'[At[j]] = At[j + 1]
        BY <1>1, <1>2, <1>3, <3>2
      <3> QED
        BY <2>1, <3>1, <3>3
    <2>3. CASE k = p
      <3>1. g[k] = At[k + 1] /\ g[j] = At[j] /\ p > 0 /\ j = p - 1
        BY <1>1, <1>4, <2>1, <2>3
      <3>2. At[j] # NULL
        BY <1>1, <1>2, <2>1, <2>3
      <3> QED
        BY <1>3, <2>1, <2>3, <3>1, <3>2
    <2>4. CASE k > p
      <3>1. g[j] = At[k]
        BY <1>1, <1>4, <2>1, <2>4
      <3>2. CASE k < n
        <4>1. g[k] = At[k + 1] /\ At[k] # NULL /\ k \in 0 .. n - 1 /\ k # p /\ k # p - 1
          BY <1>1, <1>2, <1>4, <2>4, <3>2
        <4>2. next'[At[k]] = At[k + 1]
          BY <1>2, <1>3, <4>1
        <4> QED
          BY <2>1, <3>1, <4>1, <4>2
      <3>3. CASE ~(k < n)
        <4>1. At[k] = NULL
          BY <1>1, <1>2, <3>3
        <4>2. g[k] = NULL
          BY <1>1, <1>2, <1>4, <2>4, <3>3
        <4> QED
          BY <2>1, <3>1, <4>1, <4>2
      <3> QED
        BY <3>2, <3>3
    <2> QED
      BY <1>1, <2>2, <2>3, <2>4
  <1>7. \A k \in Step : At'[k] = g[k]
    BY <1>5, <1>6, GuessedWalk
  <1> QED
    BY <1>4, <1>7 DEF Step

(* As many nodes as the list is long.                                       *)
LEMMA NodesCount ==
  ASSUME Shape
  PROVE  /\ Nodes = {At[k] : k \in 0 .. dpl_size - 1}
         /\ IsFiniteSet(Nodes) /\ Cardinality(Nodes) = dpl_size
  <1> DEFINE n == dpl_size
             f == [k \in 0 .. n - 1 |-> At[k]]
             T == {At[k] : k \in 0 .. n - 1}
  <1>1. n \in 0 .. MaxNodes /\ MaxNodes \in Nat \ {0}
    BY Bounds DEF Shape
  <1>2. /\ \A k \in 0 .. MaxNodes : At[k] # NULL <=> k < n
        /\ \A i, j \in 0 .. n - 1 : At[i] = At[j] => i = j
    BY DEF Shape, Step
  <1> HIDE DEF n
  <1>3. Nodes = T
    BY <1>1, <1>2 DEF Nodes, Step
  <1>4. f \in Bijection(0 .. n - 1, T)
    BY <1>2 DEF Bijection, Injection, Surjection, IsInjective
  <1>5. IsFiniteSet(0 .. n - 1) /\ Cardinality(0 .. n - 1) = n
    <2>1. n - 1 \in Int
      BY <1>1
    <2>2. /\ IsFiniteSet(0 .. n - 1)
          /\ Cardinality(0 .. n - 1) = IF 0 > n - 1 THEN 0 ELSE (n - 1) - 0 + 1
      BY <2>1, FS_Interval
    <2> QED
      BY <1>1, <2>2
  <1> HIDE DEF T
  <1>6. IsFiniteSet(T) /\ Cardinality(T) = n
    BY <1>4, <1>5, FS_Bijection DEF ExistsBijection
  <1> QED
    BY <1>3, <1>6 DEF T, n

(* While a node is free there is room for it in the walk.                   *)
LEMMA RoomLeft ==
  ASSUME Shape, live \subseteq Node, live = Nodes, NEW f \in Node \ live
  PROVE  dpl_size < MaxNodes
  <1>1. IsFiniteSet(Node) /\ Cardinality(Node) = MaxNodes
    BY Bounds, FS_Interval DEF Node
  <1>2. Cardinality(live) = dpl_size /\ dpl_size \in 0 .. MaxNodes
    BY NodesCount DEF Shape
  <1>3. Cardinality(live) <= MaxNodes /\ (Cardinality(live) = MaxNodes => live = Node)
    BY <1>1, FS_Subset
  <1> QED
    BY <1>2, <1>3, Bounds

(* An insertion leaves a list that is whole, one longer and without leaks.  *)
LEMMA InsertedWhole ==
  ASSUME Shape, live \subseteq Node, live = Nodes, NEW p, NEW f, InsertedAt(p, f)
  PROVE  /\ dpl_size < MaxNodes
         /\ dpl_size' = dpl_size + 1
         /\ ~Damaged'
         /\ live' = Nodes'
  <1> DEFINE n == dpl_size
             N1 == {At'[k] : k \in 0 .. n}
  <1>1. /\ n \in 0 .. MaxNodes /\ MaxNodes \in Nat \ {0}
        /\ p \in 0 .. n /\ f \in Node \ live /\ f # NULL /\ live' = live \cup {f}
    BY Bounds DEF Shape, InsertedAt
  <1>2. n < MaxNodes
    BY <1>1, RoomLeft
  <1>3. /\ \A k \in 0 .. MaxNodes : At[k] # NULL <=> k < n
        /\ \A k \in 0 .. n - 1 : At[k] \in live
        /\ \A k \in 0 .. MaxNodes :
             At'[k] = IF k < p THEN At[k] ELSE IF k = p THEN f ELSE At[k - 1]
    BY DEF Shape, Step, InsertedAt
  <1>4. live = {At[k] : k \in 0 .. n - 1}
    BY NodesCount
  <1> HIDE DEF n
  <1>5. ASSUME NEW k \in 0 .. MaxNodes PROVE At'[k] # NULL <=> k < n + 1
    <2>1. CASE k < p
      BY <1>1, <1>3, <2>1
    <2>2. CASE k = p
      BY <1>1, <1>3, <2>2
    <2>3. CASE k > p
      <3>1. PICK j \in 0 .. MaxNodes : j = k - 1
        BY <1>1, <2>3
      <3> QED
        BY <1>1, <1>3, <2>3, <3>1
    <2> QED
      BY <1>1, <2>1, <2>2, <2>3
  <1>6. ASSUME NEW k \in 0 .. n PROVE At'[k] \in live'
    <2>1. k \in 0 .. MaxNodes
      BY <1>1
    <2>2. CASE k < p
      BY <1>1, <1>3, <2>1, <2>2
    <2>3. CASE k = p
      BY <1>1, <1>3, <2>1, <2>3
    <2>4. CASE k > p
      <3>1. PICK j \in 0 .. n - 1 : j = k - 1
        BY <1>1, <2>4
      <3> QED
        BY <1>1, <1>3, <2>1, <2>4, <3>1
    <2> QED
      BY <1>1, <2>2, <2>3, <2>4
  <1>7. dpl_size' = n + 1 /\ ~Damaged'
    <2>1. n + 1 \in 0 .. MaxNodes /\ (n + 1) - 1 = n
      BY <1>1, <1>2
    <2>2. \A k \in Step : At'[k] # NULL <=> k < n + 1
      BY <1>5 DEF Step
    <2>3. \A k \in 0 .. (n + 1) - 1 : At'[k] \in live'
      BY <1>6, <2>1
    <2> QED
      BY <2>1, <2>2, <2>3, GuessedSize
  <1>8. Nodes' = N1
    BY <1>1, <1>2, <1>5 DEF Nodes, Step
  <1>9. N1 = live'
    <2>1. N1 \subseteq live'
      BY <1>6
    <2>2. ASSUME NEW x \in live' PROVE x \in N1
      <3>1. CASE x = f
        <4>1. p \in 0 .. n /\ At'[p] = f
          BY <1>1, <1>3
        <4> QED
          BY <3>1, <4>1
      <3>2. CASE x # f
        <4>1. PICK k \in 0 .. n - 1 : x = At[k]
          BY <1>1, <1>4, <3>2
        <4>2. CASE k < p
          <5>1. k \in 0 .. n /\ At'[k] = At[k]
            BY <1>1, <1>3, <4>2
          <5> QED
            BY <4>1, <5>1
        <4>3. CASE ~(k < p)
          <5>1. PICK j \in 0 .. n : j = k + 1 /\ j - 1 = k
            BY <1>1
          <5>2. At'[j] = At[k]
            BY <1>1, <1>3, <4>3, <5>1
          <5> QED
            BY <4>1, <5>2
        <4> QED
          BY <4>2, <4>3
      <3> QED
        BY <3>1, <3>2
    <2> QED
      BY <2>1, <2>2
  <1> QED
    BY <1>2, <1>7, <1>8, <1>9 DEF n

(* And a removal one that is whole, one shorter and without leaks.          *)
LEMMA RemovedWhole ==
  ASSUME Shape, live = Nodes, NEW p, RemovedAt(p)
  PROVE  /\ dpl_size' = dpl_size - 1
         /\ ~Damaged'
         /\ live' = Nodes'
  <1> DEFINE n == dpl_size
             N1 == {At'[k] : k \in 0 .. n - 2}
  <1>1. /\ n \in 0 .. MaxNodes /\ MaxNodes \in Nat \ {0}
        /\ p \in 0 .. n - 1 /\ live' = live \ {At[p]}
    BY Bounds DEF Shape, RemovedAt
  <1>2. /\ \A k \in 0 .. MaxNodes : At[k] # NULL <=> k < n
        /\ \A k \in 0 .. n - 1 : At[k] \in live
        /\ \A i, j \in 0 .. n - 1 : At[i] = At[j] => i = j
        /\ \A k \in 0 .. MaxNodes :
             At'[k] = IF k < p THEN At[k] ELSE IF k = MaxNodes THEN NULL ELSE At[k + 1]
    BY DEF Shape, Step, RemovedAt
  <1>3. live = {At[k] : k \in 0 .. n - 1}
    BY NodesCount
  <1> HIDE DEF n
  <1>4. ASSUME NEW k \in 0 .. MaxNodes PROVE At'[k] # NULL <=> k < n - 1
    <2>1. CASE k < p
      BY <1>1, <1>2, <2>1
    <2>2. CASE ~(k < p) /\ k = MaxNodes
      BY <1>1, <1>2, <2>2
    <2>3. CASE ~(k < p) /\ k < MaxNodes
      <3>1. PICK j \in 0 .. MaxNodes : j = k + 1
        BY <1>1, <2>3
      <3> QED
        BY <1>1, <1>2, <2>3, <3>1
    <2> QED
      BY <1>1, <2>1, <2>2, <2>3
  <1>5. ASSUME NEW k \in 0 .. n - 2
        PROVE  \E j \in 0 .. n - 1 : j # p /\ At'[k] = At[j]
    <2>1. k \in 0 .. MaxNodes /\ k < MaxNodes
      BY <1>1
    <2>2. CASE k < p
      BY <1>1, <1>2, <2>1, <2>2
    <2>3. CASE ~(k < p)
      <3>1. PICK j \in 0 .. n - 1 : j = k + 1 /\ j # p
        BY <1>1, <2>3
      <3> QED
        BY <1>1, <1>2, <2>1, <2>3, <3>1
    <2> QED
      BY <2>2, <2>3
  <1>6. \A k \in 0 .. n - 2 : At'[k] \in live'
    BY <1>1, <1>2, <1>5
  <1>7. dpl_size' = n - 1 /\ ~Damaged'
    <2>1. n - 1 \in 0 .. MaxNodes /\ (n - 1) - 1 = n - 2
      BY <1>1
    <2>2. \A k \in Step : At'[k] # NULL <=> k < n - 1
      BY <1>4 DEF Step
    <2>3. \A k \in 0 .. (n - 1) - 1 : At'[k] \in live'
      BY <1>6, <2>1
    <2> QED
      BY <2>1, <2>2, <2>3, GuessedSize
  <1>8. Nodes' = N1
    BY <1>1, <1>4 DEF Nodes, Step
  <1>9. N1 = live'
    <2>1. N1 \subseteq live'
      BY <1>6
    <2>2. ASSUME NEW x \in live' PROVE x \in N1
      <3>1. PICK k \in 0 .. n - 1 : x = At[k]
        BY <1>1, <1>3
      <3>2. k # p
        BY <1>1, <3>1
      <3>3. CASE k < p
        <4>1. k \in 0 .. n - 2 /\ k \in 0 .. MaxNodes
          BY <1>1, <3>3
        <4>2. At'[k] = At[k]
          BY <1>2, <3>3, <4>1
        <4> QED
          BY <3>1, <4>1, <4>2
      <3>4. CASE k > p
        <4>1. PICK j \in 0 .. n - 2 : j = k - 1 /\ j + 1 = k
          BY <1>1, <3>4
        <4>2. At'[j] = At[k]
          BY <1>1, <1>2, <3>4, <4>1
        <4> QED
          BY <3>1, <4>2
      <3> QED
        BY <1>1, <3>2, <3>3, <3>4
    <2> QED
      BY <2>1, <2>2
  <1> QED
    BY <1>7, <1>8, <1>9 DEF n

(* What an insertion and a removal leave of prev.                           *)
LEMMA InsertedPrev ==
  ASSUME Shape, dpl_size < MaxNodes, dpl_size' = dpl_size + 1,
         NEW p, NEW f, InsertedAt(p, f), PrevInserted(p, f)
  PROVE  /\ Near => Near'
         /\ Linked /\ (p = 0 => dpl_size = 0) => Linked'
  <1> DEFINE n == dpl_size
  <1>1. n \in 0 .. MaxNodes - 1 /\ MaxNodes \in Nat \ {0} /\ p \in 0 .. n /\ dpl_size' = n + 1
    BY Bounds DEF Shape, InsertedAt
  <1>2. /\ \A k \in 0 .. MaxNodes :
             At'[k] = IF k < p THEN At[k] ELSE IF k = p THEN f ELSE At[k - 1]
        /\ prev'[f] = IF p > 0 THEN At[p - 1] ELSE IF n = 0 THEN NULL ELSE f
        /\ \A k \in 0 .. n - 1 : prev'[At[k]] = IF k = p /\ p > 0 THEN f ELSE prev[At[k]]
    BY DEF Step, InsertedAt, PrevInserted
  <1> HIDE DEF n
  <1>3. ASSUME NEW k \in 0 .. n
        PROVE  \/ k < p /\ At'[k] = At[k] /\ prev'[At'[k]] = prev[At[k]]
                        /\ (k > 0 => At'[k - 1] = At[k - 1])
               \/ k = p /\ k > 0 /\ At'[k] = f /\ prev'[f] = At[k - 1] /\ At'[k - 1] = At[k - 1]
               \/ k = p /\ k = 0 /\ At'[k] = f /\ prev'[f] = IF n = 0 THEN NULL ELSE f
               \/ k = p + 1 /\ p > 0 /\ At'[k - 1] = f /\ prev'[At'[k]] = f
               \/ k = p + 1 /\ p = 0 /\ At'[k] = At[0] /\ prev'[At'[k]] = prev[At[0]] /\ n > 0
               \/ k > p + 1 /\ At'[k] = At[k - 1] /\ At'[k - 1] = At[(k - 1) - 1]
                            /\ prev'[At'[k]] = prev[At[k - 1]]
    <2>1. k \in 0 .. MaxNodes
      BY <1>1
    <2>2. CASE k < p
      <3>1. k \in 0 .. n - 1 /\ At'[k] = At[k]
        BY <1>1, <1>2, <2>1, <2>2
      <3>2. prev'[At[k]] = prev[At[k]]
        BY <1>1, <1>2, <2>2, <3>1
      <3>3. k > 0 => At'[k - 1] = At[k - 1]
        <4>1. k > 0 => k - 1 \in 0 .. MaxNodes /\ k - 1 < p
          BY <1>1, <2>1, <2>2
        <4> QED
          BY <1>2, <4>1
      <3> QED
        BY <2>2, <3>1, <3>2, <3>3
    <2>3. CASE k = p
      <3>1. At'[k] = f
        BY <1>1, <1>2, <2>1, <2>3
      <3>2. CASE k > 0
        <4>1. k - 1 \in 0 .. MaxNodes /\ k - 1 < p
          BY <1>1, <2>1, <2>3, <3>2
        <4> QED
          BY <1>1, <1>2, <2>3, <3>1, <3>2, <4>1
      <3>3. CASE k = 0
        BY <1>1, <1>2, <2>3, <3>1, <3>3
      <3> QED
        BY <3>2, <3>3
    <2>4. CASE k = p + 1
      <3>1. At'[k] = At[p] /\ p \in 0 .. n - 1
        BY <1>1, <1>2, <2>1, <2>4
      <3>2. prev'[At[p]] = IF p > 0 THEN f ELSE prev[At[p]]
        BY <1>2, <3>1
      <3>3. k - 1 = p /\ p \in 0 .. MaxNodes
        BY <1>1, <2>4
      <3>4. At'[k - 1] = f
        BY <1>2, <3>3
      <3> QED
        BY <1>1, <2>4, <3>1, <3>2, <3>4
    <2>5. CASE k > p + 1
      <3>1. PICK j \in 0 .. n - 1 : j = k - 1 /\ j > p
        BY <1>1, <2>5
      <3>2. At'[k] = At[j]
        BY <1>1, <1>2, <2>1, <2>5, <3>1
      <3>3. At'[j] = At[j - 1]
        <4>1. j \in 0 .. MaxNodes
          BY <1>1
        <4> QED
          BY <1>1, <1>2, <3>1, <4>1
      <3>4. prev'[At[j]] = prev[At[j]]
        BY <1>1, <1>2, <3>1
      <3> QED
        BY <2>5, <3>1, <3>2, <3>3, <3>4
    <2> QED
      BY <1>1, <2>2, <2>3, <2>4, <2>5
  <1>4. ASSUME Near PROVE Near'
    <2>1. \A k \in 0 .. n - 1 :
            \/ prev[At[k]] = NULL
            \/ prev[At[k]] = At[k]
            \/ k > 0 /\ prev[At[k]] = At[k - 1]
      BY <1>4 DEF Near, n
    <2>2. ASSUME NEW k \in 0 .. n
          PROVE  \/ prev'[At'[k]] = NULL
                 \/ prev'[At'[k]] = At'[k]
                 \/ k > 0 /\ prev'[At'[k]] = At'[k - 1]
      <3>1. k < p => k \in 0 .. n - 1
        BY <1>1
      <3>2. n > 0 => 0 \in 0 .. n - 1
        BY <1>1
      <3>3. k > p + 1 => k - 1 \in 0 .. n - 1
        BY <1>1
      <3> QED
        BY <1>1, <1>3, <2>1, <3>1, <3>2, <3>3
    <2>3. dpl_size' - 1 = n
      BY <1>1
    <2> QED
      BY <2>2, <2>3 DEF Near
  <1>5. ASSUME Linked, p = 0 => n = 0 PROVE Linked'
    <2>1. \A k \in 0 .. n - 1 : prev[At[k]] = IF k = 0 THEN NULL ELSE At[k - 1]
      BY <1>5 DEF Linked, n
    <2>2. ASSUME NEW k \in 0 .. n
          PROVE  prev'[At'[k]] = IF k = 0 THEN NULL ELSE At'[k - 1]
      <3>1. k < p => k \in 0 .. n - 1
        BY <1>1
      <3>2. k > p + 1 => k - 1 \in 0 .. n - 1
        BY <1>1
      <3> QED
        BY <1>1, <1>3, <1>5, <2>1, <3>1, <3>2
    <2>3. dpl_size' - 1 = n
      BY <1>1
    <2> QED
      BY <2>2, <2>3 DEF Linked
  <1> QED
    BY <1>4, <1>5 DEF n

(* The same for a removal.                                                  *)
LEMMA RemovedPrev ==
  ASSUME Shape, dpl_size' = dpl_size - 1, NEW p, RemovedAt(p), PrevRemoved(p)
  PROVE  /\ Near => Near'
         /\ Linked => Linked'
  <1> DEFINE n == dpl_size
  <1>1. n \in 0 .. MaxNodes /\ MaxNodes \in Nat \ {0} /\ p \in 0 .. n - 1 /\ dpl_size' = n - 1
    BY Bounds DEF Shape, RemovedAt
  <1>2. /\ \A k \in 0 .. MaxNodes :
             At'[k] = IF k < p THEN At[k] ELSE IF k = MaxNodes THEN NULL ELSE At[k + 1]
        /\ \A k \in 0 .. n - 1 :
             k # p => prev'[At[k]] = IF k # p + 1 THEN prev[At[k]]
                                     ELSE IF p = 0 THEN NULL ELSE At[p - 1]
    BY DEF Step, RemovedAt, PrevRemoved
  <1> HIDE DEF n
  <1>3. ASSUME NEW k \in 0 .. n - 2
        PROVE  \/ k < p /\ At'[k] = At[k] /\ prev'[At'[k]] = prev[At[k]]
                        /\ (k > 0 => At'[k - 1] = At[k - 1])
               \/ k = p /\ k = 0 /\ prev'[At'[k]] = NULL
               \/ k = p /\ k > 0 /\ prev'[At'[k]] = At'[k - 1]
               \/ k > p /\ At'[k] = At[k + 1] /\ At'[k - 1] = At[(k + 1) - 1]
                        /\ prev'[At'[k]] = prev[At[k + 1]]
    <2>1. k \in 0 .. MaxNodes /\ k < MaxNodes
      BY <1>1
    <2>2. CASE k < p
      <3>1. k \in 0 .. n - 1 /\ At'[k] = At[k]
        BY <1>1, <1>2, <2>1, <2>2
      <3>2. prev'[At[k]] = prev[At[k]]
        BY <1>1, <1>2, <2>2, <3>1
      <3>3. k > 0 => At'[k - 1] = At[k - 1]
        <4>1. k > 0 => k - 1 \in 0 .. MaxNodes /\ k - 1 < p
          BY <1>1, <2>1, <2>2
        <4> QED
          BY <1>2, <4>1
      <3> QED
        BY <2>2, <3>1, <3>2, <3>3
    <2>3. CASE k = p
      <3>1. PICK j \in 0 .. n - 1 : j = k + 1
        BY <1>1
      <3>2. At'[k] = At[j]
        BY <1>1, <1>2, <2>1, <2>3, <3>1
      <3>3. prev'[At[j]] = IF p = 0 THEN NULL ELSE At[p - 1]
        BY <1>1, <1>2, <2>3, <3>1
      <3>4. k > 0 => At'[k - 1] = At[k - 1]
        <4>1. k > 0 => k - 1 \in 0 .. MaxNodes /\ k - 1 < p
          BY <1>1, <2>1, <2>3
        <4> QED
          BY <1>2, <4>1
      <3> QED
        BY <1>1, <2>3, <3>2, <3>3, <3>4
    <2>4. CASE k > p
      <3>1. PICK j \in 0 .. n - 1 : j = k + 1 /\ j # p /\ j # p + 1
        BY <1>1, <2>4
      <3>2. At'[k] = At[j]
        BY <1>1, <1>2, <2>1, <2>4, <3>1
      <3>3. prev'[At[j]] = prev[At[j]]
        BY <1>1, <1>2, <3>1
      <3>4. PICK i \in 0 .. MaxNodes : i = k - 1 /\ i + 1 = k /\ ~(i < p) /\ i # MaxNodes
        BY <1>1, <2>1, <2>4
      <3>5. At'[i] = At[k]
        BY <1>1, <1>2, <3>4
      <3> QED
        BY <2>4, <3>1, <3>2, <3>3, <3>4, <3>5
    <2> QED
      BY <1>1, <2>2, <2>3, <2>4
  <1>4. \A k \in 0 .. n - 2 : k \in 0 .. n - 1 /\ k + 1 \in 0 .. n - 1 /\ k + 1 > 0
    BY <1>1
  <1>5. dpl_size' - 1 = n - 2
    BY <1>1
  <1>6. ASSUME Near PROVE Near'
    <2>1. \A k \in 0 .. n - 1 :
            \/ prev[At[k]] = NULL
            \/ prev[At[k]] = At[k]
            \/ k > 0 /\ prev[At[k]] = At[k - 1]
      BY <1>6 DEF Near, n
    <2>2. ASSUME NEW k \in 0 .. n - 2
          PROVE  \/ prev'[At'[k]] = NULL
                 \/ prev'[At'[k]] = At'[k]
                 \/ k > 0 /\ prev'[At'[k]] = At'[k - 1]
      BY <1>1, <1>3, <1>4, <2>1
    <2> QED
      BY <1>5, <2>2 DEF Near
  <1>7. ASSUME Linked PROVE Linked'
    <2>1. \A k \in 0 .. n - 1 : prev[At[k]] = IF k = 0 THEN NULL ELSE At[k - 1]
      BY <1>7 DEF Linked, n
    <2>2. ASSUME NEW k \in 0 .. n - 2
          PROVE  prev'[At'[k]] = IF k = 0 THEN NULL ELSE At'[k - 1]
      BY <1>1, <1>3, <1>4, <2>1
    <2> QED
      BY <1>5, <2>2 DEF Linked
  <1> QED
    BY <1>6, <1>7

-----------------------------------------------------------------------------
(* What is known of a list that can be used.                                *)
LEMMA Context ==
  ASSUME DInv, Usable
  PROVE  /\ Shape /\ live = Nodes /\ Near
         /\ TypeOK /\ live \subseteq Node /\ list /\ crashed = "no"
         /\ head = NULL <=> dpl_size = 0
         /\ MaxNodes \in Nat \ {0} /\ dpl_size \in 0 .. MaxNodes
  <1>1. Shape /\ live = Nodes /\ Near /\ TypeOK /\ live \subseteq Node /\ list /\ crashed = "no"
    BY WholeHasShape DEF DInv, Usable, Intact, TypeOK
  <1>2. MaxNodes \in Nat \ {0} /\ dpl_size \in 0 .. MaxNodes
    BY <1>1, Bounds DEF Shape
  <1>3. 0 \in Step /\ head = At[0] /\ (At[0] # NULL <=> 0 < dpl_size)
    BY <1>1, <1>2 DEF Shape, Step
  <1> QED
    BY <1>1, <1>2, <1>3

(* The walk to an index stops at the last node.                             *)
LEMMA ReferenceAt ==
  ASSUME Shape, dpl_size # 0, NEW index \in Int
  PROVE  /\ Clamp(index, dpl_size - 1) \in 0 .. dpl_size - 1
         /\ dpl_get_reference_at_index(index) = At[Clamp(index, dpl_size - 1)]
  <1>1. dpl_size \in 1 .. MaxNodes /\ MaxNodes \in Nat
    BY Bounds DEF Shape
  <1>2. At[0] = head /\ head # NULL
    BY <1>1 DEF Shape, Step
  <1>3. Clamp(index, dpl_size - 1) \in 0 .. dpl_size - 1
    BY <1>1 DEF Clamp
  <1>4. CASE index <= 0
    BY <1>2, <1>3, <1>4 DEF Clamp, dpl_get_reference_at_index
  <1>5. CASE index > 0 /\ index < dpl_size
    <2>1. Clamp(index, dpl_size - 1) = index
      BY <1>1, <1>5 DEF Clamp
    <2> QED
      BY <1>2, <1>3, <1>5, <2>1 DEF dpl_get_reference_at_index
  <1>6. CASE index > 0 /\ index >= dpl_size
    <2>1. Clamp(index, dpl_size - 1) = dpl_size - 1
      BY <1>1, <1>6 DEF Clamp
    <2> QED
      BY <1>1, <1>2, <1>3, <1>6, <2>1 DEF dpl_get_reference_at_index
  <1> QED
    BY <1>1, <1>4, <1>5, <1>6

(* As far as next is unchanged, the walk is.                                *)
LEMMA SamePrefix ==
  ASSUME Shape, NEW p \in 0 .. dpl_size - 1, head' = head,
         \A k \in 0 .. dpl_size - 1 : k < p => next'[At[k]] = next[At[k]]
  PROVE  \A k \in 0 .. p : At'[k] = At[k]
  <1> DEFINE S == {m \in Nat : m <= p => At'[m] = At[m]}
  <1>1. dpl_size \in 0 .. MaxNodes /\ MaxNodes \in Nat \ {0} /\ p \in 0 .. dpl_size - 1
    BY Bounds DEF Shape
  <1>2. /\ At'[0] = head'
        /\ \A k \in 1 .. MaxNodes :
             At'[k] = IF At'[k - 1] = NULL THEN NULL ELSE next'[At'[k - 1]]
    BY NextAt DEF Follows
  <1>3. 0 \in S
    BY <1>2 DEF Shape
  <1>4. ASSUME NEW m \in Nat, m \in S PROVE m + 1 \in S
    <2> SUFFICES ASSUME m + 1 <= p PROVE At'[m + 1] = At[m + 1]
      OBVIOUS
    <2>1. At'[m] = At[m]
      BY <1>1, <1>4
    <2>2. PICK k \in 1 .. MaxNodes : k = m + 1 /\ k - 1 = m
      BY <1>1
    <2>3. m \in 0 .. dpl_size - 1 /\ m < p /\ m \in Step /\ m < dpl_size
      BY <1>1 DEF Step
    <2>4. At[m] # NULL /\ At[m + 1] = next[At[m]]
      BY <2>3 DEF Shape
    <2>5. At'[k] = next'[At[m]]
      BY <1>2, <2>1, <2>2, <2>4
    <2> QED
      BY <2>2, <2>3, <2>4, <2>5
  <1> HIDE DEF S
  <1>5. \A m \in Nat : m \in S
    BY ONLY <1>3, <1>4, Induction
  <1> QED
    BY <1>1, <1>5 DEF S

(* What an insertion may come to.                                           *)
InsertOutcome(e, index) ==
  LET p == Clamp(index, dpl_size) IN
  \/ index \in 1 .. dpl_size - 1 /\ prev[At[index]] = NULL /\ Crash("dpl_insert_at_index")
  \/ index \in 1 .. dpl_size - 1 /\ prev[At[index]] = At[index] /\ Damaged'
  \/ /\ InsertedAt(p, Fresh) /\ PrevInserted(p, Fresh)
     /\ element' = [element EXCEPT ![Fresh] = e]
     /\ crashed' = crashed

(* The allocator gives a node that is not in use.                           *)
LEMMA FreshIsFree ==
  ASSUME live \subseteq Node, live # Node
  PROVE  Fresh \in Node \ live /\ Fresh # NULL
  <1>1. \E n \in Node \ live : TRUE
    OBVIOUS
  <1>2. Fresh \in Node \ live
    BY <1>1, Zenon DEF Fresh
  <1> QED
    BY <1>2, Bounds

(* The first node of an empty list.                                         *)
LEMMA InsertFirstOutcome ==
  ASSUME DInv, Usable, NEW e \in Element, NEW index \in Int, InsertFirst(e)
  PROVE  TypeOK' /\ InsertOutcome(e, index)
  <1>1. /\ Shape /\ TypeOK /\ live \subseteq Node /\ list /\ dpl_size = 0 /\ live # Node
        /\ MaxNodes \in Nat \ {0}
    BY Context DEF InsertFirst, Allocate
  <1>2. Fresh \in Node \ live /\ Fresh # NULL
    BY <1>1, FreshIsFree
  <1>3. /\ live' = live \cup {Fresh} /\ element' = [element EXCEPT ![Fresh] = e]
        /\ head' = Fresh /\ list' = list /\ crashed' = crashed
        /\ prev' = [prev EXCEPT ![Fresh] = NULL] /\ next' = [next EXCEPT ![Fresh] = NULL]
    BY DEF InsertFirst, Allocate
  <1>4. TypeOK'
    BY <1>1, <1>2, <1>3 DEF TypeOK
  <1>5. Clamp(index, dpl_size) = 0 /\ 0 \in 0 .. dpl_size
    BY <1>1 DEF Clamp
  <1>6. At[0] = NULL /\ next'[Fresh] = NULL /\ prev'[Fresh] = NULL
    BY <1>1, <1>2, <1>3 DEF Shape, Step, TypeOK
  <1>7. \A k \in Step : At'[k] = IF k < 0 THEN At[k] ELSE IF k = 0 THEN Fresh ELSE At[k - 1]
    BY <1>1, <1>2, <1>3, <1>5, <1>6, InsertedWalk
  <1>8. InsertedAt(0, Fresh)
    BY <1>1, <1>2, <1>3, <1>5, <1>7 DEF InsertedAt
  <1>9. PrevInserted(0, Fresh)
    BY <1>1, <1>6 DEF PrevInserted
  <1> QED
    BY <1>3, <1>4, <1>5, <1>8, <1>9 DEF InsertOutcome

(* A node before the head: the one case in which prev comes to be the node  *)
(* itself.                                                                  *)
LEMMA InsertAtFrontOutcome ==
  ASSUME DInv, Usable, NEW e \in Element, NEW index \in Int, InsertAtFront(e, index)
  PROVE  TypeOK' /\ InsertOutcome(e, index)
  <1>1. /\ Shape /\ TypeOK /\ live \subseteq Node /\ list /\ dpl_size # 0 /\ live # Node
        /\ MaxNodes \in Nat \ {0} /\ dpl_size \in 0 .. MaxNodes
    BY Context DEF InsertAtFront, Allocate
  <1>2. Fresh \in Node \ live /\ Fresh # NULL
    BY <1>1, FreshIsFree
  <1>3. /\ live' = live \cup {Fresh} /\ element' = [element EXCEPT ![Fresh] = e]
        /\ head' = Fresh /\ list' = list /\ crashed' = crashed
        /\ prev' = [prev EXCEPT ![Fresh] = Fresh] /\ next' = [next EXCEPT ![Fresh] = head]
    BY DEF InsertAtFront, Allocate
  <1>4. TypeOK'
    BY <1>1, <1>2, <1>3 DEF TypeOK
  <1>5. Clamp(index, dpl_size) = 0 /\ 0 \in 0 .. dpl_size
    BY <1>1 DEF Clamp, InsertAtFront
  <1>6. /\ At[0] = head /\ \A k \in 0 .. dpl_size - 1 : At[k] \in live
        /\ next'[Fresh] = At[0] /\ prev'[Fresh] = Fresh
    BY <1>1, <1>2, <1>3 DEF Shape, TypeOK
  <1>7. \A k \in 0 .. dpl_size - 1 : next'[At[k]] = next[At[k]] /\ prev'[At[k]] = prev[At[k]]
    BY <1>1, <1>2, <1>3, <1>6 DEF TypeOK
  <1>8. \A k \in Step : At'[k] = IF k < 0 THEN At[k] ELSE IF k = 0 THEN Fresh ELSE At[k - 1]
    BY <1>1, <1>2, <1>3, <1>5, <1>6, <1>7, InsertedWalk
  <1>9. InsertedAt(0, Fresh)
    BY <1>1, <1>2, <1>3, <1>5, <1>8 DEF InsertedAt
  <1>10. PrevInserted(0, Fresh)
    BY <1>1, <1>6, <1>7 DEF PrevInserted
  <1> QED
    BY <1>3, <1>4, <1>5, <1>9, <1>10 DEF InsertOutcome

(* A node after the last.                                                   *)
LEMMA InsertLastOutcome ==
  ASSUME DInv, Usable, NEW e \in Element, NEW index \in Int, InsertLast(e, index)
  PROVE  TypeOK' /\ InsertOutcome(e, index)
  <1> DEFINE n == dpl_size
             last == dpl_get_reference_at_index(index)
  <1>1. /\ Shape /\ TypeOK /\ live \subseteq Node /\ list /\ n # 0 /\ live # Node
        /\ MaxNodes \in Nat \ {0} /\ n \in 0 .. MaxNodes /\ index > 0 /\ index >= n
    BY Context DEF InsertLast, Allocate
  <1>2. Fresh \in Node \ live /\ Fresh # NULL
    BY <1>1, FreshIsFree
  <1>3. /\ live' = live \cup {Fresh} /\ element' = [element EXCEPT ![Fresh] = e]
        /\ head' = head /\ list' = list /\ crashed' = crashed
        /\ prev' = [prev EXCEPT ![Fresh] = last]
        /\ next' = [next EXCEPT ![last] = Fresh, ![Fresh] = NULL]
    BY DEF InsertLast, Allocate
  <1>4. Clamp(index, n) = n /\ Clamp(index, n - 1) = n - 1 /\ n \in 0 .. n /\ n - 1 \in 0 .. n - 1
    BY <1>1 DEF Clamp
  <1>5. last = At[n - 1]
    BY <1>1, <1>4, ReferenceAt
  <1> HIDE DEF n, last
  <1>6. /\ \A k \in 0 .. n - 1 : At[k] \in live
        /\ \A i, j \in 0 .. n - 1 : At[i] = At[j] => i = j
        /\ At[n] = NULL
    <2>1. n \in Step
      BY <1>1 DEF Step
    <2> QED
      BY <2>1, <1>1 DEF Shape, n
  <1>7. last \in live /\ last \in Node /\ last # Fresh
    BY <1>1, <1>2, <1>4, <1>5, <1>6
  <1>8. TypeOK'
    BY <1>1, <1>2, <1>3, <1>7 DEF TypeOK
  <1>9. next'[Fresh] = At[n] /\ next'[At[n - 1]] = Fresh /\ prev'[Fresh] = At[n - 1]
    BY <1>1, <1>2, <1>3, <1>5, <1>6, <1>7 DEF TypeOK
  <1>10. \A k \in 0 .. n - 1 : /\ k # n - 1 => next'[At[k]] = next[At[k]]
                               /\ prev'[At[k]] = prev[At[k]]
    <2> SUFFICES ASSUME NEW k \in 0 .. n - 1
                 PROVE  /\ k # n - 1 => next'[At[k]] = next[At[k]]
                        /\ prev'[At[k]] = prev[At[k]]
      OBVIOUS
    <2>1. At[k] \in Node /\ At[k] # Fresh /\ (k # n - 1 => At[k] # last)
      BY <1>1, <1>2, <1>4, <1>5, <1>6
    <2> QED
      BY <1>1, <1>3, <2>1 DEF TypeOK
  <1>11. \A k \in Step : At'[k] = IF k < n THEN At[k] ELSE IF k = n THEN Fresh ELSE At[k - 1]
    <2>1. head' = IF n = 0 THEN Fresh ELSE head
      BY <1>1, <1>3
    <2> QED
      BY <1>1, <1>2, <1>4, <1>9, <1>10, <2>1, InsertedWalk DEF n
  <1>12. InsertedAt(n, Fresh)
    BY <1>1, <1>2, <1>3, <1>4, <1>11 DEF InsertedAt, n
  <1>13. PrevInserted(n, Fresh)
    BY <1>1, <1>9, <1>10 DEF PrevInserted, n
  <1> QED
    BY <1>3, <1>4, <1>8, <1>12, <1>13 DEF InsertOutcome, n

(* Before a node that is its own prev, the new one is linked into a circle. *)
LEMMA CircleDamages ==
  ASSUME Shape, NEW p \in 0 .. dpl_size - 1, NEW f \in Node \ live, f # NULL,
         head' = head,
         \A k \in 0 .. dpl_size - 1 : k < p => next'[At[k]] = next[At[k]],
         next'[At[p]] = f, next'[f] = At[p]
  PROVE  Damaged'
  <1>1. dpl_size \in 0 .. MaxNodes /\ MaxNodes \in Nat \ {0} /\ p \in 0 .. dpl_size - 1
    BY Bounds DEF Shape
  <1>2. \A k \in 1 .. MaxNodes :
          At'[k] = IF At'[k - 1] = NULL THEN NULL ELSE next'[At'[k - 1]]
    BY NextAt DEF Follows
  <1>3. At'[p] = At[p]
    BY <1>1, SamePrefix
  <1>4. At[p] # NULL
    <2>1. p \in Step /\ p < dpl_size
      BY <1>1 DEF Step
    <2> QED
      BY <2>1 DEF Shape
  <1> DEFINE S == {m \in Nat : p + m <= MaxNodes => At'[p + m] \in {At[p], f}}
  <1>5. 0 \in S
    BY <1>1, <1>3
  <1>6. ASSUME NEW m \in Nat, m \in S PROVE m + 1 \in S
    <2> SUFFICES ASSUME p + (m + 1) <= MaxNodes PROVE At'[p + (m + 1)] \in {At[p], f}
      OBVIOUS
    <2>1. At'[p + m] \in {At[p], f}
      BY <1>1, <1>6
    <2>2. PICK k \in 1 .. MaxNodes : k = p + (m + 1) /\ k - 1 = p + m
      BY <1>1
    <2>3. At'[k] = next'[At'[p + m]]
      BY <1>2, <1>4, <2>1, <2>2
    <2> QED
      BY <2>1, <2>2, <2>3
  <1> HIDE DEF S
  <1>7. \A m \in Nat : m \in S
    BY ONLY <1>5, <1>6, Induction
  <1>8. MaxNodes - p \in Nat /\ p + (MaxNodes - p) = MaxNodes
    BY <1>1
  <1>9. At'[MaxNodes] \in {At[p], f}
    BY <1>7, <1>8 DEF S
  <1> QED
    BY <1>4, <1>9 DEF Damaged

(* A node before another: what becomes of it is up to the prev of that one. *)
LEMMA InsertBeforeOutcome ==
  ASSUME DInv, Usable, NEW e \in Element, NEW index \in Int, InsertBefore(e, index)
  PROVE  TypeOK' /\ InsertOutcome(e, index)
  <1> DEFINE n == dpl_size
             after == dpl_get_reference_at_index(index)
             before == prev[after]
  <1>1. /\ Shape /\ Near /\ TypeOK /\ live \subseteq Node /\ list /\ n # 0
        /\ MaxNodes \in Nat \ {0} /\ n \in 0 .. MaxNodes /\ index \in 1 .. n - 1
        /\ crashed = "no"
    BY Context DEF InsertBefore
  <1>2. /\ Clamp(index, n) = index /\ Clamp(index, n - 1) = index
        /\ index \in 0 .. n /\ index \in 0 .. n - 1 /\ index - 1 \in 0 .. n - 1
    BY <1>1 DEF Clamp
  <1>3. after = At[index]
    BY <1>1, <1>2, ReferenceAt
  <1> HIDE DEF n, after
  <1>4. /\ \A k \in 0 .. n - 1 : At[k] \in live
        /\ \A i, j \in 0 .. n - 1 : At[i] = At[j] => i = j
        /\ \A k \in 0 .. n - 1 : At[k] # NULL
    BY <1>1, Bounds DEF Shape, n
  <1>5. after \in live /\ after \in Node
    BY <1>1, <1>2, <1>3, <1>4
  <1>6. CASE before = NULL
    <2>1. Crash("dpl_insert_at_index")
      BY <1>6 DEF InsertBefore, after
    <2>2. TypeOK'
      BY <1>1, <2>1 DEF TypeOK, Crash, fields
    <2> QED
      BY <1>1, <1>2, <1>3, <1>6, <2>1, <2>2 DEF InsertOutcome, n
  <1>7. CASE before # NULL
    <2>1. /\ live # Node
          /\ live' = live \cup {Fresh} /\ element' = [element EXCEPT ![Fresh] = e]
          /\ head' = head /\ list' = list /\ crashed' = crashed
          /\ prev' = [prev EXCEPT ![Fresh] = before, ![after] = Fresh]
          /\ next' = [next EXCEPT ![before] = Fresh, ![Fresh] = after]
      BY <1>7 DEF InsertBefore, after, Allocate
    <2>2. Fresh \in Node \ live /\ Fresh # NULL
      BY <1>1, <2>1, FreshIsFree
    <2>3. before \in Node
      BY <1>1, <1>5, <1>7 DEF TypeOK
    <2> HIDE DEF before
    <2>4. TypeOK'
      BY <1>1, <1>5, <2>1, <2>2, <2>3 DEF TypeOK
    <2>5. before = after \/ before = At[index - 1]
      BY <1>1, <1>2, <1>3, <1>7 DEF Near, n, before
    <2>6. next'[Fresh] = after /\ after # Fresh
      BY <1>1, <1>5, <2>1, <2>2, <2>3 DEF TypeOK
    <2>7. CASE before = after
      <3>1. next'[after] = Fresh
        BY <1>1, <1>5, <2>1, <2>2, <2>7 DEF TypeOK
      <3>2. ASSUME NEW k \in 0 .. n - 1, k < index PROVE next'[At[k]] = next[At[k]]
        <4>1. At[k] \in Node /\ At[k] # Fresh /\ At[k] # after
          BY <1>1, <1>2, <1>3, <1>4, <2>2, <3>2
        <4> QED
          BY <1>1, <2>1, <2>7, <4>1 DEF TypeOK
      <3>3. Damaged'
        BY <1>1, <1>2, <1>3, <2>1, <2>2, <2>6, <3>1, <3>2, CircleDamages DEF n
      <3>4. prev[At[index]] = At[index]
        BY <1>3, <2>7 DEF before
      <3> QED
        BY <1>1, <2>4, <3>3, <3>4 DEF InsertOutcome, n
    <2>8. CASE before # after
      <3>1. before = At[index - 1] /\ before \in live /\ before # Fresh
        BY <1>1, <1>2, <1>4, <2>2, <2>5, <2>8
      <3>2. next'[At[index - 1]] = Fresh /\ prev'[Fresh] = At[index - 1]
        BY <1>1, <1>5, <2>1, <2>2, <2>3, <2>6, <3>1 DEF TypeOK
      <3>3. ASSUME NEW k \in 0 .. n - 1
            PROVE  /\ k # index - 1 => next'[At[k]] = next[At[k]]
                   /\ prev'[At[k]] = IF k = index THEN Fresh ELSE prev[At[k]]
        <4>1. At[k] \in Node /\ At[k] # Fresh /\ (k # index - 1 => At[k] # before)
              /\ (k = index <=> At[k] = after)
          BY <1>1, <1>2, <1>3, <1>4, <2>2, <3>1
        <4> QED
          BY <1>1, <1>5, <2>1, <4>1 DEF TypeOK
      <3>4. head' = IF index = 0 THEN Fresh ELSE head
        BY <1>1, <2>1
      <3>5. \A k \in Step :
              At'[k] = IF k < index THEN At[k] ELSE IF k = index THEN Fresh ELSE At[k - 1]
        BY <1>1, <1>2, <1>3, <2>2, <2>6, <3>2, <3>3, <3>4, InsertedWalk DEF n
      <3>6. InsertedAt(index, Fresh)
        BY <1>2, <2>1, <2>2, <3>5 DEF InsertedAt, n
      <3>7. PrevInserted(index, Fresh)
        BY <1>1, <3>2, <3>3 DEF PrevInserted, n
      <3> QED
        BY <1>2, <2>1, <2>4, <3>6, <3>7 DEF InsertOutcome, n
    <2> QED
      BY <2>7, <2>8
  <1> QED
    BY <1>6, <1>7

(* An insertion, at whatever index: the four cases of the code.             *)
LEMMA InsertStep ==
  ASSUME DInv, NEW e \in Element, NEW index \in Int, dpl_insert_at_index(e, index)
  PROVE  TypeOK' /\ InsertOutcome(e, index)
  BY InsertFirstOutcome, InsertAtFrontOutcome, InsertBeforeOutcome, InsertLastOutcome
     DEF dpl_insert_at_index

(* It keeps the invariant.                                                  *)
LEMMA InsertDInv ==
  ASSUME DInv, NEW e \in Element, NEW index \in Int, dpl_insert_at_index(e, index)
  PROVE  DInv'
  <1>1. TypeOK' /\ InsertOutcome(e, index)
    BY InsertStep
  <1>2. Usable /\ Shape /\ live \subseteq Node /\ live = Nodes /\ Near
    <2>1. Usable
      BY DEF dpl_insert_at_index
    <2> QED
      BY <2>1, Context
  <1>3. CASE crashed' = "dpl_insert_at_index" \/ Damaged'
    BY <1>1, <1>3 DEF DInv, Intact
  <1>4. ASSUME NEW p, InsertedAt(p, Fresh), PrevInserted(p, Fresh) PROVE DInv'
    <2>1. dpl_size < MaxNodes /\ dpl_size' = dpl_size + 1 /\ live' = Nodes'
      BY <1>2, <1>4, InsertedWhole
    <2>2. Near'
      BY <1>2, <1>4, <2>1, InsertedPrev
    <2> QED
      BY <1>1, <2>1, <2>2 DEF DInv
  <1> QED
    BY <1>1, <1>3, <1>4 DEF InsertOutcome, Crash

-----------------------------------------------------------------------------
(* What a removal may come to.                                              *)
RemoveOutcome(index) ==
  LET p == Clamp(index, dpl_size - 1) IN
  \/ p \in 1 .. dpl_size - 1 /\ prev[At[p]] = NULL /\ Crash("dpl_remove_at_index")
  \/ p \in 1 .. dpl_size - 1 /\ prev[At[p]] = At[p] /\ Damaged'
  \/ /\ RemovedAt(p) /\ PrevRemoved(p)
     /\ \A n \in Node : n # At[p] => element'[n] = element[n]
     /\ crashed' = crashed

(* Freeing one node blanks its fields and no other's.                       *)
LEMMA FreeOne ==
  ASSUME NEW m \in Node, NEW prevs, NEW nexts, Free({m}, prevs, nexts)
  PROVE  /\ live' = live \ {m}
         /\ \A n \in Node : n # m => /\ prev'[n] = prevs[n] /\ next'[n] = nexts[n]
                                     /\ element'[n] = element[n]
  BY DEF Free

(* It leaves every field with a value of its type.                          *)
LEMMA FreeTypes ==
  ASSUME TypeOK, NEW nodes, NEW prevs, NEW nexts, Free(nodes, prevs, nexts),
         \A n \in Node : prevs[n] \in Node \cup {NULL} /\ nexts[n] \in Node \cup {NULL}
  PROVE  /\ prev' \in [Node -> Node \cup {NULL}]
         /\ next' \in [Node -> Node \cup {NULL}]
         /\ element' \in [Node -> Element]
         /\ live' \subseteq Node
  <1>1. Blank \in Element
    BY Bounds DEF Blank
  <1> QED
    BY <1>1 DEF Free, TypeOK

(* The only node.                                                           *)
LEMMA RemoveOnlyOutcome ==
  ASSUME DInv, Usable, NEW index \in Int, RemoveOnly
  PROVE  TypeOK' /\ RemoveOutcome(index)
  <1>1. /\ Shape /\ TypeOK /\ live \subseteq Node /\ list /\ dpl_size = 1
        /\ MaxNodes \in Nat \ {0} /\ dpl_size \in 0 .. MaxNodes
    BY Context DEF RemoveOnly
  <1>2. /\ head' = NULL /\ list' = list /\ crashed' = crashed
        /\ Free({head}, prev, next)
    BY DEF RemoveOnly
  <1>3. Clamp(index, dpl_size - 1) = 0 /\ 0 \in 0 .. dpl_size - 1
    BY <1>1 DEF Clamp
  <1>4. At[0] = head /\ head \in live /\ head \in Node /\ At[1] = NULL
    <2>1. 1 \in Step
      BY <1>1 DEF Step
    <2> QED
      BY <1>1, <1>3, <2>1 DEF Shape
  <1>5. TypeOK'
    <2>1. \A n \in Node : prev[n] \in Node \cup {NULL} /\ next[n] \in Node \cup {NULL}
      BY <1>1 DEF TypeOK
    <2>2. /\ prev' \in [Node -> Node \cup {NULL}] /\ next' \in [Node -> Node \cup {NULL}]
          /\ element' \in [Node -> Element] /\ live' \subseteq Node
      BY <1>1, <1>2, <2>1, FreeTypes
    <2>3. head' \in live' \cup {NULL} /\ list' \in BOOLEAN /\ list'
      BY <1>1, <1>2 DEF TypeOK
    <2> QED
      BY <2>2, <2>3 DEF TypeOK
  <1>6. /\ live' = live \ {At[0]}
        /\ \A n \in Node : n # At[0] => element'[n] = element[n]
    BY <1>2, <1>4, FreeOne
  <1>7. \A k \in 0 .. dpl_size - 1 : k = 0
    BY <1>1
  <1>8. \A k \in Step :
          At'[k] = IF k < 0 THEN At[k] ELSE IF k = MaxNodes THEN NULL ELSE At[k + 1]
    BY <1>1, <1>2, <1>3, <1>4, <1>7, RemovedWalk
  <1>9. RemovedAt(0)
    BY <1>3, <1>6, <1>8 DEF RemovedAt
  <1>10. PrevRemoved(0)
    BY <1>7 DEF PrevRemoved
  <1> QED
    BY <1>2, <1>3, <1>5, <1>6, <1>9, <1>10 DEF RemoveOutcome

(* The head of several.                                                     *)
LEMMA RemoveHeadOutcome ==
  ASSUME DInv, Usable, NEW index \in Int, RemoveHead(index)
  PROVE  TypeOK' /\ RemoveOutcome(index)
  <1> DEFINE n == dpl_size
             prevs == [prev EXCEPT ![next[head]] = NULL]
  <1>1. /\ Shape /\ TypeOK /\ live \subseteq Node /\ list /\ n > 1 /\ index <= 0
        /\ MaxNodes \in Nat \ {0} /\ n \in 0 .. MaxNodes
    BY Context DEF RemoveHead
  <1>2. /\ head' = next[head] /\ list' = list /\ crashed' = crashed
        /\ Free({head}, prevs, next)
    BY DEF RemoveHead
  <1>3. Clamp(index, n - 1) = 0 /\ 0 \in 0 .. n - 1 /\ 1 \in 0 .. n - 1
    BY <1>1 DEF Clamp
  <1>4. /\ \A k \in 0 .. n - 1 : At[k] \in live
        /\ \A i, j \in 0 .. n - 1 : At[i] = At[j] => i = j
        /\ At[0] = head /\ next[head] = At[1]
    <2>1. At[0 + 1] = next[At[0]]
      BY <1>1, <1>3 DEF Shape
    <2> QED
      BY <1>1, <2>1 DEF Shape
  <1> HIDE DEF n
  <1>5. head \in Node /\ At[1] \in live /\ At[1] # head
    BY <1>1, <1>3, <1>4
  <1>6. \A x \in Node : prevs[x] = IF x = At[1] THEN NULL ELSE prev[x]
    BY <1>1, <1>4 DEF TypeOK
  <1> HIDE DEF prevs
  <1>7. /\ live' = live \ {At[0]}
        /\ \A x \in Node : x # At[0] => /\ prev'[x] = prevs[x] /\ next'[x] = next[x]
                                        /\ element'[x] = element[x]
    BY <1>2, <1>4, <1>5, FreeOne
  <1>8. TypeOK'
    <2>1. \A x \in Node : prevs[x] \in Node \cup {NULL} /\ next[x] \in Node \cup {NULL}
      BY <1>1, <1>6 DEF TypeOK
    <2>2. /\ prev' \in [Node -> Node \cup {NULL}] /\ next' \in [Node -> Node \cup {NULL}]
          /\ element' \in [Node -> Element] /\ live' \subseteq Node
      BY <1>1, <1>2, <2>1, FreeTypes
    <2>3. head' \in live'
      BY <1>2, <1>4, <1>5, <1>7
    <2> QED
      BY <1>1, <1>2, <2>2, <2>3 DEF TypeOK
  <1>9. ASSUME NEW k \in 0 .. n - 1, k # 0
        PROVE  /\ next'[At[k]] = next[At[k]]
               /\ prev'[At[k]] = IF k # 1 THEN prev[At[k]] ELSE NULL
    <2>1. At[k] \in Node /\ At[k] # At[0] /\ (At[k] = At[1] <=> k = 1)
      BY <1>1, <1>3, <1>4, <1>9
    <2> QED
      BY <1>6, <1>7, <2>1
  <1>10. \A k \in Step :
           At'[k] = IF k < 0 THEN At[k] ELSE IF k = MaxNodes THEN NULL ELSE At[k + 1]
    <2>1. head' = IF 0 = 0 THEN At[1] ELSE head
      BY <1>2, <1>4
    <2> QED
      BY <1>1, <1>3, <1>9, <2>1, RemovedWalk DEF n
  <1>11. RemovedAt(0)
    BY <1>3, <1>7, <1>10 DEF RemovedAt, n
  <1>12. PrevRemoved(0)
    BY <1>9 DEF PrevRemoved, n
  <1> QED
    BY <1>2, <1>3, <1>7, <1>8, <1>11, <1>12 DEF RemoveOutcome, n

(* A node that is its own prev is freed but not taken out of the list.      *)
LEMMA DanglingDamages ==
  ASSUME Shape, NEW p \in 0 .. dpl_size - 1, head' = head,
         \A k \in 0 .. dpl_size - 1 : k < p => next'[At[k]] = next[At[k]],
         At[p] \notin live'
  PROVE  Damaged'
  <1>1. dpl_size \in 0 .. MaxNodes /\ MaxNodes \in Nat \ {0} /\ p \in 0 .. dpl_size - 1
    BY Bounds DEF Shape
  <1>2. At'[p] = At[p]
    BY <1>1, SamePrefix
  <1>3. p \in Step /\ p < dpl_size /\ p \in 0 .. MaxNodes - 1
    BY <1>1 DEF Step
  <1>4. At[p] # NULL
    BY <1>3 DEF Shape
  <1> QED
    BY <1>2, <1>3, <1>4 DEF Damaged

(* The last node and one in the middle are taken out in the same way: the   *)
(* node before is linked to the one after, if there is one.                 *)
LEMMA UnlinkOutcome ==
  ASSUME DInv, Usable, NEW index \in Int, NEW p \in 1 .. dpl_size - 1,
         p = Clamp(index, dpl_size - 1), prev[At[p]] # NULL,
         NEW prevs, NEW nexts, Free({At[p]}, prevs, nexts),
         nexts = [next EXCEPT ![prev[At[p]]] = At[p + 1]],
         IF p + 1 = dpl_size THEN prevs = prev
                             ELSE prevs = [prev EXCEPT ![At[p + 1]] = prev[At[p]]],
         UNCHANGED <<list, head, crashed>>
  PROVE  TypeOK' /\ RemoveOutcome(index)
  <1> DEFINE n == dpl_size
             m == At[p]
             before == prev[m]
             after == At[p + 1]
  <1>1. /\ Shape /\ Near /\ TypeOK /\ live \subseteq Node /\ list
        /\ MaxNodes \in Nat \ {0} /\ n \in 0 .. MaxNodes /\ crashed = "no"
    BY Context
  <1>2. p \in 0 .. n - 1 /\ p - 1 \in 0 .. n - 1 /\ p > 0 /\ p + 1 \in Step /\ 0 \in 0 .. n - 1
    BY <1>1 DEF Step
  <1>3. /\ \A k \in 0 .. n - 1 : At[k] \in live
        /\ \A i, j \in 0 .. n - 1 : At[i] = At[j] => i = j
        /\ At[0] = head
        /\ p + 1 = n => after = NULL
        /\ p + 1 # n => p + 1 \in 0 .. n - 1
    BY <1>1, <1>2 DEF Shape
  <1>4. /\ before # NULL
        /\ nexts = [next EXCEPT ![before] = after]
        /\ IF p + 1 = n THEN prevs = prev ELSE prevs = [prev EXCEPT ![after] = before]
        /\ list' = list /\ head' = head /\ crashed' = crashed
        /\ Free({m}, prevs, nexts)
    OBVIOUS
  <1>5. m \in live /\ m \in Node /\ (before = m \/ before = At[p - 1])
    <2>1. before = NULL \/ before = m \/ (p > 0 /\ before = At[p - 1])
      BY <1>1, <1>2 DEF Near
    <2> QED
      BY <1>1, <1>2, <1>3, <1>4, <2>1
  <1>6. before \in Node
    BY <1>1, <1>2, <1>3, <1>5
  <1>7. after \in Node \cup {NULL} /\ (p + 1 # n => after \in Node)
    BY <1>1, <1>3
  <1> HIDE DEF n, m, before, after
  <1>8. /\ \A x \in Node : nexts[x] = IF x = before THEN after ELSE next[x]
        /\ \A x \in Node : prevs[x] = IF p + 1 # n /\ x = after THEN before ELSE prev[x]
    BY <1>1, <1>4, <1>6, <1>7 DEF TypeOK
  <1>9. /\ live' = live \ {m}
        /\ \A x \in Node : x # m => /\ prev'[x] = prevs[x] /\ next'[x] = nexts[x]
                                    /\ element'[x] = element[x]
    BY <1>4, <1>5, FreeOne
  <1>10. TypeOK'
    <2>1. \A x \in Node : prevs[x] \in Node \cup {NULL} /\ nexts[x] \in Node \cup {NULL}
      BY <1>1, <1>6, <1>7, <1>8 DEF TypeOK
    <2>2. /\ prev' \in [Node -> Node \cup {NULL}] /\ next' \in [Node -> Node \cup {NULL}]
          /\ element' \in [Node -> Element] /\ live' \subseteq Node
      BY <1>1, <1>4, <2>1, FreeTypes
    <2>3. head' \in live'
      BY <1>2, <1>3, <1>4, <1>9 DEF m
    <2>4. list' \in BOOLEAN /\ list'
      BY <1>1, <1>4 DEF TypeOK
    <2> QED
      BY <2>2, <2>3, <2>4 DEF TypeOK
  <1>11. CASE before = m
    <2>1. ASSUME NEW k \in 0 .. n - 1, k < p PROVE next'[At[k]] = next[At[k]]
      <3>1. At[k] \in Node /\ At[k] # m
        BY <1>1, <1>2, <1>3, <2>1 DEF m
      <3> QED
        BY <1>8, <1>9, <1>11, <3>1
    <2>2. At[p] \notin live'
      BY <1>9 DEF m
    <2>3. Damaged'
      BY <1>1, <1>2, <1>4, <2>1, <2>2, DanglingDamages DEF n
    <2> QED
      BY <1>10, <1>11, <2>3 DEF RemoveOutcome, before, m
  <1>12. CASE before # m
    <2>1. before = At[p - 1]
      BY <1>5, <1>12
    <2>2. ASSUME NEW k \in 0 .. n - 1, k # p
          PROVE  /\ next'[At[k]] = IF k = p - 1 THEN after ELSE next[At[k]]
                 /\ prev'[At[k]] = IF k = p + 1 THEN At[p - 1] ELSE prev[At[k]]
      <3>1. /\ At[k] \in Node /\ At[k] # m
            /\ At[k] = before <=> k = p - 1
        BY <1>1, <1>2, <1>3, <2>1, <2>2 DEF m
      <3>2. p + 1 # n /\ At[k] = after <=> k = p + 1
        BY <1>2, <1>3, <2>2 DEF after
      <3> QED
        BY <1>8, <1>9, <2>1, <3>1, <3>2
    <2>3. next'[At[p - 1]] = At[p + 1]
      BY <1>2, <2>2 DEF after
    <2>4. \A k \in 0 .. n - 1 : k # p /\ k # p - 1 => next'[At[k]] = next[At[k]]
      BY <2>2
    <2>5. head' = IF p = 0 THEN At[1] ELSE head
      BY <1>2, <1>4
    <2>6. \A k \in Step :
            At'[k] = IF k < p THEN At[k] ELSE IF k = MaxNodes THEN NULL ELSE At[k + 1]
      BY <1>1, <1>2, <2>3, <2>4, <2>5, RemovedWalk DEF n
    <2>7. RemovedAt(p)
      BY <1>2, <1>9, <2>6 DEF RemovedAt, n, m
    <2>8. PrevRemoved(p)
      BY <1>2, <2>2 DEF PrevRemoved, n
    <2> QED
      BY <1>4, <1>9, <1>10, <2>7, <2>8 DEF RemoveOutcome, m
  <1> QED
    BY <1>11, <1>12

(* A node after the head whose prev is NULL ends the program.               *)
LEMMA RemoveCrashOutcome ==
  ASSUME DInv, Usable, NEW index \in Int, NEW p \in 1 .. dpl_size - 1,
         p = Clamp(index, dpl_size - 1), prev[At[p]] = NULL, Crash("dpl_remove_at_index")
  PROVE  TypeOK' /\ RemoveOutcome(index)
  <1>1. TypeOK'
    BY DEF DInv, TypeOK, Crash, fields
  <1> QED
    BY <1>1 DEF RemoveOutcome

(* The last of several.                                                     *)
LEMMA RemoveLastOutcome ==
  ASSUME DInv, Usable, NEW index \in Int, RemoveLast(index)
  PROVE  TypeOK' /\ RemoveOutcome(index)
  <1> DEFINE n == dpl_size
             p == n - 1
  <1>1. /\ Shape /\ MaxNodes \in Nat \ {0} /\ n \in 0 .. MaxNodes
        /\ n > 1 /\ index > 0 /\ index >= n - 1
    BY Context DEF RemoveLast
  <1>2. p \in 1 .. n - 1 /\ p = Clamp(index, n - 1) /\ p + 1 = n
    BY <1>1 DEF Clamp
  <1>3. At[p + 1] = NULL
    <2>1. n \in Step
      BY <1>1 DEF Step
    <2> QED
      BY <1>1, <1>2, <2>1 DEF Shape
  <1>4. CASE prev[At[p]] = NULL
    <2>1. Crash("dpl_remove_at_index")
      BY <1>4 DEF RemoveLast
    <2> QED
      BY <1>2, <1>4, <2>1, RemoveCrashOutcome
  <1>5. CASE prev[At[p]] # NULL
    <2> DEFINE nexts == [next EXCEPT ![prev[At[p]]] = At[p + 1]]
    <2>1. Free({At[p]}, prev, nexts) /\ UNCHANGED <<list, head, crashed>>
      BY <1>3, <1>5 DEF RemoveLast
    <2>2. IF p + 1 = n THEN prev = prev
                       ELSE prev = [prev EXCEPT ![At[p + 1]] = prev[At[p]]]
      BY <1>2
    <2> QED
      BY <1>2, <1>5, <2>1, <2>2, UnlinkOutcome
  <1> QED
    BY <1>4, <1>5

(* A node with one before it and one after.                                 *)
LEMMA RemoveMiddleOutcome ==
  ASSUME DInv, Usable, NEW index \in Int, RemoveMiddle(index)
  PROVE  TypeOK' /\ RemoveOutcome(index)
  <1> DEFINE n == dpl_size
  <1>1. /\ Shape /\ MaxNodes \in Nat \ {0} /\ n \in 0 .. MaxNodes
        /\ index > 0 /\ index < n - 1
    BY Context DEF RemoveMiddle
  <1>2. /\ index \in 1 .. n - 1 /\ index \in 0 .. n - 1
        /\ index = Clamp(index, n - 1) /\ index + 1 # n /\ n # 0
    BY <1>1 DEF Clamp
  <1>3. dpl_get_reference_at_index(index) = At[index]
    BY <1>1, <1>2, ReferenceAt
  <1>4. next[At[index]] = At[index + 1]
    BY <1>1, <1>2 DEF Shape
  <1>5. CASE prev[At[index]] = NULL
    <2>1. Crash("dpl_remove_at_index")
      BY <1>3, <1>5 DEF RemoveMiddle
    <2> QED
      BY <1>2, <1>5, <2>1, RemoveCrashOutcome
  <1>6. CASE prev[At[index]] # NULL
    <2> DEFINE prevs == [prev EXCEPT ![At[index + 1]] = prev[At[index]]]
               nexts == [next EXCEPT ![prev[At[index]]] = At[index + 1]]
    <2>1. Free({At[index]}, prevs, nexts) /\ UNCHANGED <<list, head, crashed>>
      BY <1>3, <1>4, <1>6 DEF RemoveMiddle
    <2>2. IF index + 1 = n THEN prevs = prev
                           ELSE prevs = [prev EXCEPT ![At[index + 1]] = prev[At[index]]]
      BY <1>2
    <2> QED
      BY <1>2, <1>6, <2>1, <2>2, UnlinkOutcome
  <1> QED
    BY <1>5, <1>6

(* A removal, at whatever index: the four cases of the code.                *)
LEMMA RemoveStep ==
  ASSUME DInv, NEW index \in Int, dpl_remove_at_index(index)
  PROVE  TypeOK' /\ RemoveOutcome(index)
  BY RemoveOnlyOutcome, RemoveHeadOutcome, RemoveLastOutcome, RemoveMiddleOutcome
     DEF dpl_remove_at_index

(* It keeps the invariant.                                                  *)
LEMMA RemoveDInv ==
  ASSUME DInv, NEW index \in Int, dpl_remove_at_index(index)
  PROVE  DInv'
  <1>1. TypeOK' /\ RemoveOutcome(index)
    BY RemoveStep
  <1>2. Usable /\ Shape /\ live = Nodes /\ Near
    <2>1. Usable
      BY DEF dpl_remove_at_index
    <2> QED
      BY <2>1, Context
  <1>3. CASE crashed' = "dpl_remove_at_index" \/ Damaged'
    BY <1>1, <1>3 DEF DInv, Intact
  <1>4. ASSUME NEW p, RemovedAt(p), PrevRemoved(p) PROVE DInv'
    <2>1. dpl_size' = dpl_size - 1 /\ live' = Nodes'
      BY <1>2, <1>4, RemovedWhole
    <2>2. Near'
      BY <1>2, <1>4, <2>1, RemovedPrev
    <2> QED
      BY <1>1, <2>1, <2>2 DEF DInv
  <1> QED
    BY <1>1, <1>3, <1>4 DEF RemoveOutcome, Crash

-----------------------------------------------------------------------------
(* Every operation keeps the invariant                                     *)

(* The invariant holds before there is a list.                              *)
LEMMA InitDInv ==
  Init => DInv
  <1> SUFFICES ASSUME Init PROVE DInv
    OBVIOUS
  <1>1. TypeOK
    <2>1. Blank \in Element
      BY Bounds DEF Blank
    <2> QED
      BY <2>1 DEF Init, TypeOK
  <1>2. Intact => live = Nodes /\ Near
    <2> SUFFICES ASSUME Intact PROVE live = Nodes /\ Near
      OBVIOUS
    <2>1. Shape /\ head = NULL /\ live = {}
      BY WholeHasShape DEF Intact, Init
    <2>2. dpl_size = 0
      <3>1. 0 \in Step /\ dpl_size \in Nat
        BY <2>1, Bounds DEF Step, Shape
      <3> QED
        BY <2>1, <3>1 DEF Shape
    <2>3. Nodes = {} /\ Near
      BY <2>1, <2>2, Bounds DEF Shape, Nodes, Step, Near
    <2> QED
      BY <2>1, <2>3
  <1> QED
    BY <1>1, <1>2 DEF DInv

(* Nothing about the list changes if its head, its nodes and its links do   *)
(* not.                                                                     *)
LEMMA SameList ==
  ASSUME UNCHANGED <<head, fields, live>>
  PROVE  /\ \A k \in Step : At'[k] = At[k]
         /\ dpl_size' = dpl_size
         /\ Damaged' <=> Damaged
         /\ Nodes' = Nodes
         /\ Near' <=> Near
         /\ Linked' <=> Linked
  <1>1. head' = head /\ next' = next /\ prev' = prev /\ element' = element /\ live' = live
    BY DEF fields
  <1>2. At' = At
    BY <1>1 DEF At
  <1>3. dpl_size' = dpl_size
    BY <1>2 DEF dpl_size
  <1> QED
    BY <1>1, <1>2, <1>3 DEF Damaged, Nodes, Near, Linked

(* A step that touches neither nodes nor links keeps it.                    *)
LEMMA SameDInv ==
  ASSUME DInv, UNCHANGED <<head, fields, live>>, list' = list \/ list',
         crashed' = crashed \/ crashed' # "no"
  PROVE  DInv'
  <1>1. TypeOK'
    BY DEF DInv, TypeOK, fields
  <1>2. Intact' => Intact
    BY SameList DEF Intact
  <1> QED
    BY <1>1, <1>2, SameList DEF DInv

(* Freeing the list leaves no node in use, and no links to disagree.        *)
LEMMA FreeDInv ==
  ASSUME DInv, dpl_free
  PROVE  DInv' /\ (crashed = "no" => Linked' /\ live' = Nodes' /\ Intact')
  <1> DEFINE nodes == {At[k] : k \in 0 .. MaxNodes}
  <1>1. /\ Shape /\ live = Nodes /\ TypeOK /\ live \subseteq Node
        /\ MaxNodes \in Nat \ {0}
    <2>1. Usable
      BY DEF dpl_free
    <2> QED
      BY <2>1, Context
  <1>2. /\ head' = NULL /\ list' = FALSE /\ crashed' = crashed
        /\ Free(nodes, prev, next)
    BY DEF dpl_free
  <1>3. live' = {}
    BY <1>1, <1>2 DEF Nodes, Step, Free
  <1>4. TypeOK'
    <2>1. \A n \in Node : prev[n] \in Node \cup {NULL} /\ next[n] \in Node \cup {NULL}
      BY <1>1 DEF TypeOK
    <2> HIDE DEF nodes
    <2>2. /\ prev' \in [Node -> Node \cup {NULL}] /\ next' \in [Node -> Node \cup {NULL}]
          /\ element' \in [Node -> Element] /\ live' \subseteq Node
      BY <1>1, <1>2, <2>1, FreeTypes
    <2> QED
      BY <1>2, <1>3, <2>2 DEF TypeOK
  <1>5. \A k \in Step : At'[k] = NULL
    <2> DEFINE g == [k \in Step |-> NULL]
    <2>1. g[0] = head'
      BY <1>1, <1>2 DEF Step
    <2>2. \A k \in 1 .. MaxNodes : g[k] = IF g[k - 1] = NULL THEN NULL ELSE next'[g[k - 1]]
      BY <1>1 DEF Step
    <2> HIDE DEF g
    <2>3. \A k \in Step : At'[k] = g[k]
      BY <2>1, <2>2, GuessedWalk
    <2> QED
      BY <2>3 DEF g
  <1>6. dpl_size' = 0 /\ ~Damaged'
    <2>1. 0 \in 0 .. MaxNodes
      BY <1>1
    <2>2. \A k \in Step : At'[k] # NULL <=> k < 0
      BY <1>1, <1>5 DEF Step
    <2>3. \A k \in 0 .. 0 - 1 : At'[k] \in live'
      OBVIOUS
    <2> QED
      BY <2>1, <2>2, <2>3, GuessedSize
  <1>7. Nodes' = {} /\ Near' /\ Linked'
    BY <1>5, <1>6 DEF Nodes, Near, Linked
  <1> QED
    BY <1>2, <1>3, <1>4, <1>6, <1>7 DEF DInv, Intact

(* The place a sorted insertion finds is one of the list, or its end.       *)
LEMMA SortedPlaceIs ==
  ASSUME Shape, TypeOK, NEW e \in Element
  PROVE  /\ SortedPlace(e) \in 0 .. dpl_size
         /\ \A j \in 0 .. SortedPlace(e) - 1 : e > element[At[j]]
         /\ SortedPlace(e) < dpl_size => e <= element[At[SortedPlace(e)]]
  <1> DEFINE n == dpl_size
             T == {k \in 0 .. n : k < n => e <= element[At[k]]}
  <1>1. n \in Nat /\ e \in Int
    BY Bounds DEF Shape
  <1>2. \A k \in 0 .. n - 1 : element[At[k]] \in Int
    BY Bounds DEF Shape, TypeOK
  <1> HIDE DEF n
  <1>3. T \subseteq Nat /\ n \in T
    BY <1>1
  <1>4. PICK k \in T : \A j \in T : k <= j
    <2> HIDE DEF T
    <2> QED
      BY <1>3, Least
  <1>5. ASSUME NEW j \in 0 .. k - 1 PROVE e > element[At[j]]
    <2>1. j \in 0 .. n - 1 /\ j \notin T /\ j \in 0 .. n
      BY <1>1, <1>4
    <2> QED
      BY <1>1, <1>2, <2>1
  <1>6. \E i \in 0 .. dpl_size : /\ \A j \in 0 .. i - 1 : e > element[At[j]]
                                 /\ i < dpl_size => e <= element[At[i]]
    BY <1>4, <1>5 DEF n
  <1> QED
    BY <1>6, Zenon DEF SortedPlace

(* So is the place of a node, and of an element that is found.              *)
LEMMA PlaceOf ==
  ASSUME Shape, NEW r
  PROVE  /\ dpl_get_index_of_reference(r) \in -1 .. dpl_size - 1
         /\ dpl_get_index_of_reference(r) # -1
              => r = At[dpl_get_index_of_reference(r)]
         /\ (\E k \in 0 .. dpl_size - 1 : At[k] = r) => dpl_get_index_of_reference(r) # -1
  <1> DEFINE n == dpl_size
  <1>1. n \in 0 .. MaxNodes /\ MaxNodes \in Nat \ {0}
    BY Bounds DEF Shape
  <1>2. \A k \in 0 .. MaxNodes : At[k] # NULL <=> k < n
    BY DEF Shape, Step
  <1> HIDE DEF n
  <1>3. CASE \E k \in 0 .. MaxNodes : At[k] = r /\ r # NULL
    <2> DEFINE c == CHOOSE k \in 0 .. MaxNodes : At[k] = r
    <2>1. c \in 0 .. MaxNodes /\ At[c] = r
      BY <1>3
    <2>2. dpl_get_index_of_reference(r) = c
      BY <1>3 DEF dpl_get_index_of_reference
    <2> HIDE DEF c
    <2>3. c \in 0 .. n - 1
      BY <1>1, <1>2, <1>3, <2>1
    <2> QED
      BY <1>1, <2>1, <2>2, <2>3 DEF n
  <1>4. CASE ~ \E k \in 0 .. MaxNodes : At[k] = r /\ r # NULL
    <2>1. dpl_get_index_of_reference(r) = -1
      BY <1>4 DEF dpl_get_index_of_reference
    <2>2. \A k \in 0 .. n - 1 : k \in 0 .. MaxNodes /\ At[k] # NULL
      BY <1>1, <1>2
    <2>3. ~ \E k \in 0 .. n - 1 : At[k] = r
      BY <1>4, <2>2
    <2> QED
      BY <1>1, <2>1, <2>3 DEF n
  <1> QED
    BY <1>3, <1>4

(* The index of an element is that of the first node that holds it.         *)
LEMMA FirstHolder ==
  ASSUME Shape, NEW e
  PROVE  /\ dpl_get_index_of_element(e) \in -1 .. dpl_size - 1
         /\ dpl_get_index_of_element(e) # -1 =>
              /\ element[At[dpl_get_index_of_element(e)]] = e
              /\ \A j \in 0 .. dpl_size - 1 :
                   element[At[j]] = e => dpl_get_index_of_element(e) <= j
         /\ dpl_get_index_of_element(e) = -1 <=> Holders(e) = {}
  <1> DEFINE n == dpl_size
             H == Holders(e)
             c == CHOOSE k \in H : \A j \in H : k <= j
  <1>1. n \in Nat
    BY Bounds DEF Shape
  <1>2. H = {k \in 0 .. n - 1 : element[At[k]] = e}
    BY DEF Holders
  <1> HIDE DEF n, H
  <1>3. CASE H = {}
    <2>1. dpl_get_index_of_element(e) = -1
      BY <1>3 DEF dpl_get_index_of_element, H
    <2> QED
      BY <1>1, <1>3, <2>1 DEF n, H
  <1>4. CASE H # {}
    <2>1. H \subseteq Nat
      BY <1>1, <1>2
    <2>2. \E k \in H : \A j \in H : k <= j
      BY <1>4, <2>1, Least
    <2>3. c \in H /\ \A j \in H : c <= j
      BY <2>2
    <2>4. dpl_get_index_of_element(e) = c
      BY <1>4 DEF dpl_get_index_of_element, H
    <2> HIDE DEF c
    <2> QED
      BY <1>1, <1>2, <1>4, <2>3, <2>4 DEF n, H
  <1> QED
    BY <1>3, <1>4

(* Every step keeps the invariant.                                          *)
LEMMA NextDInv ==
  DInv /\ [Next]_vars => DInv'
  <1> SUFFICES ASSUME DInv, [Next]_vars PROVE DInv'
    OBVIOUS
  <1>1. Index \subseteq Int
    BY Bounds DEF Index
  <1>2. Usable => Shape /\ TypeOK /\ dpl_size \in Nat
    BY Context
  <1>3. CASE UNCHANGED vars
    BY <1>3, SameDInv DEF vars
  <1>4. CASE dpl_create
    BY <1>4, SameDInv DEF dpl_create
  <1>5. CASE dpl_free
    BY <1>5, FreeDInv
  <1>6. CASE \E e \in Element, index \in Index : dpl_insert_at_index(e, index)
    BY <1>1, <1>6, InsertDInv
  <1>7. CASE \E e \in Element, r \in Node : dpl_insert_at_reference(e, r)
    <2>1. PICK e \in Element, r \in Node : dpl_insert_at_reference(e, r)
      BY <1>7
    <2>2. dpl_get_index_of_reference(r) \in Int
      BY <1>2, <2>1, PlaceOf DEF dpl_insert_at_reference
    <2> QED
      BY <2>1, <2>2, InsertDInv DEF dpl_insert_at_reference
  <1>8. CASE \E e \in Element : dpl_insert_sorted(e)
    <2>1. PICK e \in Element : dpl_insert_sorted(e)
      BY <1>8
    <2>2. SortedPlace(e) \in Int
      BY <1>2, <2>1, SortedPlaceIs DEF dpl_insert_sorted
    <2>3. CASE Crash("dpl_insert_sorted")
      BY <2>3, SameDInv DEF Crash
    <2> QED
      BY <2>1, <2>2, <2>3, InsertDInv DEF dpl_insert_sorted
  <1>9. CASE \E e \in Element : dpl_remove_element(e)
    <2>1. PICK e \in Element : dpl_remove_element(e)
      BY <1>9
    <2>2. dpl_get_index_of_element(e) \in Int
      BY <1>2, <2>1, FirstHolder DEF dpl_remove_element
    <2>3. CASE Crash("dpl_remove_element")
      BY <2>3, SameDInv DEF Crash
    <2> QED
      BY <2>1, <2>2, <2>3, RemoveDInv DEF dpl_remove_element
  <1>10. CASE \E index \in Index : dpl_remove_at_index(index)
    BY <1>1, <1>10, RemoveDInv
  <1>11. CASE \E r \in Node : dpl_remove_at_reference(r)
    <2>1. PICK r \in Node : dpl_remove_at_reference(r)
      BY <1>11
    <2>2. dpl_get_index_of_reference(r) \in Int
      BY <1>2, <2>1, PlaceOf DEF dpl_remove_at_reference
    <2> QED
      BY <2>1, <2>2, RemoveDInv DEF dpl_remove_at_reference
  <1>12. CASE Stopped
    BY <1>12, SameDInv DEF Stopped, vars
  <1> QED
    BY <1>3, <1>4, <1>5, <1>6, <1>7, <1>8, <1>9, <1>10, <1>11, <1>12 DEF Next

(* At all times a list that is whole holds every node in use, and their     *)
(* prev is the node before, the node itself or NULL.                        *)
THEOREM SpecDInv ==
  Spec => []DInv
  BY InitDInv, NextDInv, PTL DEF Spec

(* Every variable holds a value of its type, however the list is used.      *)
THEOREM TypeCorrect ==
  Spec => []TypeOK
  <1>1. DInv => TypeOK
    BY DEF DInv
  <1> QED
    BY <1>1, SpecDInv, PTL

(* A prev that is not the predecessor is the node itself or NULL.           *)
THEOREM PrevNear ==
  Spec => []PrevNeverElsewhere
  <1>1. DInv => PrevNeverElsewhere
    <2> SUFFICES ASSUME DInv, Intact, NEW k \in 1 .. dpl_size - 1
                 PROVE  prev[At[k]] \in {At[k - 1], At[k], NULL}
      BY DEF PrevNeverElsewhere
    <2>1. dpl_size \in Nat /\ Near
      BY WholeHasShape, Bounds DEF DInv, Intact, Shape
    <2>2. k \in 0 .. dpl_size - 1
      BY <2>1
    <2> QED
      BY <2>1, <2>2 DEF Near
  <1> QED
    BY <1>1, SpecDInv, PTL

-----------------------------------------------------------------------------
(* Only an insertion before the head spoils the links                      *)

(* Links that agree are those of a whole list with the right prevs.         *)
LEMMA LinksAgreeIs ==
  ASSUME DInv, LinksAgree
  PROVE  Intact /\ Shape /\ live = Nodes /\ live \subseteq Node /\ Linked /\ Near
  <1>1. Intact /\ live = Nodes /\ Linked /\ live \subseteq Node /\ Near
    BY DEF LinksAgree, Nodes, Step, Linked, DInv, TypeOK
  <1> QED
    BY <1>1, WholeHasShape DEF Intact

(* Where links agree, no prev after the head is NULL or the node itself.    *)
LEMMA LinkedPrev ==
  ASSUME Shape, Linked, NEW k \in 1 .. dpl_size - 1
  PROVE  prev[At[k]] # NULL /\ prev[At[k]] # At[k]
  <1>1. dpl_size \in 0 .. MaxNodes /\ MaxNodes \in Nat
    BY Bounds DEF Shape
  <1>2. k \in 0 .. dpl_size - 1 /\ k # 0
    BY <1>1
  <1>3. prev[At[k]] = At[k - 1]
    BY <1>2 DEF Linked
  <1>4. PICK j \in 0 .. dpl_size - 1 : j = k - 1 /\ j # k /\ j < dpl_size
    BY <1>1
  <1>5. j \in Step
    BY <1>1, <1>4 DEF Step
  <1>6. At[j] # NULL /\ At[j] # At[k]
    BY <1>2, <1>4, <1>5 DEF Shape
  <1> QED
    BY <1>3, <1>4, <1>6

(* Links that agree do so after every insertion but one before the head.    *)
LEMMA InsertKeepsLinks ==
  ASSUME DInv, LinksAgree, ~Prepends, NEW e \in Element, NEW index \in Int,
         dpl_insert_at_index(e, index)
  PROVE  LinksAgree'
  <1> DEFINE p == Clamp(index, dpl_size)
  <1>1. Intact /\ Shape /\ live = Nodes /\ live \subseteq Node /\ Linked
    BY LinksAgreeIs
  <1>2. MaxNodes \in Nat \ {0} /\ dpl_size \in 0 .. MaxNodes /\ (head = NULL <=> dpl_size = 0)
    BY Context DEF dpl_insert_at_index
  <1>3. p = 0 => dpl_size = 0
    <2>1. ~InsertAtFront(e, index)
      BY DEF Prepends, InsertAtFront
    <2>2. head = NULL \/ index > 0
      BY <2>1 DEF dpl_insert_at_index, InsertFirst, InsertBefore, InsertLast
    <2> QED
      BY <1>2, <2>2 DEF Clamp
  <1>4. InsertedAt(p, Fresh) /\ PrevInserted(p, Fresh) /\ crashed' = crashed
    <2>1. InsertOutcome(e, index)
      BY InsertStep
    <2> QED
      BY <1>1, <2>1, LinkedPrev DEF InsertOutcome
  <1> HIDE DEF p
  <1>5. dpl_size < MaxNodes /\ dpl_size' = dpl_size + 1 /\ ~Damaged' /\ live' = Nodes'
    BY <1>1, <1>4, InsertedWhole
  <1>6. Linked'
    BY <1>1, <1>3, <1>4, <1>5, InsertedPrev
  <1> QED
    BY <1>1, <1>4, <1>5, <1>6 DEF LinksAgree, Intact, Nodes, Step, Linked

(* And after every removal.                                                 *)
LEMMA RemoveKeepsLinks ==
  ASSUME DInv, LinksAgree, NEW index \in Int, dpl_remove_at_index(index)
  PROVE  LinksAgree'
  <1> DEFINE p == Clamp(index, dpl_size - 1)
  <1>1. Intact /\ Shape /\ live = Nodes /\ live \subseteq Node /\ Linked
    BY LinksAgreeIs
  <1>2. RemovedAt(p) /\ PrevRemoved(p) /\ crashed' = crashed
    <2>1. RemoveOutcome(index)
      BY RemoveStep
    <2> QED
      BY <1>1, <2>1, LinkedPrev DEF RemoveOutcome
  <1> HIDE DEF p
  <1>3. dpl_size' = dpl_size - 1 /\ ~Damaged' /\ live' = Nodes'
    BY <1>1, <1>2, RemovedWhole
  <1>4. Linked'
    BY <1>1, <1>2, <1>3, RemovedPrev
  <1> QED
    BY <1>1, <1>2, <1>3, <1>4 DEF LinksAgree, Intact, Nodes, Step, Linked

(* And after a step that touches neither nodes nor links.                   *)
LEMMA SameLinks ==
  ASSUME LinksAgree, UNCHANGED <<head, fields, live, crashed>>
  PROVE  LinksAgree'
  BY SameList DEF LinksAgree, Intact, Nodes, Step, Linked

(* So what spoils them is an insertion before the head, or one of the two   *)
(* reads past the end.                                                      *)
LEMMA NextSpoils ==
  ASSUME DInv, [Next]_vars, LinksAgree, ~Prepends
  PROVE  LinksAgree' \/ crashed' \in {"dpl_insert_sorted", "dpl_remove_element"}
  <1>1. Index \subseteq Int
    BY Bounds DEF Index
  <1>2. Shape /\ TypeOK /\ dpl_size \in Nat
    BY LinksAgreeIs, Bounds DEF DInv, Shape
  <1>3. CASE UNCHANGED vars
    BY <1>3, SameLinks DEF vars
  <1>4. CASE dpl_create
    BY <1>4, SameLinks DEF dpl_create
  <1>5. CASE dpl_free
    <2>1. crashed = "no"
      BY DEF LinksAgree, Intact
    <2>2. Linked' /\ live' = Nodes' /\ Intact'
      BY <1>5, <2>1, FreeDInv
    <2> QED
      BY <2>2 DEF LinksAgree, Nodes, Step, Linked
  <1>6. CASE \E e \in Element, index \in Index : dpl_insert_at_index(e, index)
    BY <1>1, <1>6, InsertKeepsLinks
  <1>7. CASE \E e \in Element, r \in Node : dpl_insert_at_reference(e, r)
    <2>1. PICK e \in Element, r \in Node : dpl_insert_at_reference(e, r)
      BY <1>7
    <2>2. dpl_get_index_of_reference(r) \in Int
      BY <1>2, PlaceOf
    <2> QED
      BY <2>1, <2>2, InsertKeepsLinks DEF dpl_insert_at_reference
  <1>8. CASE \E e \in Element : dpl_insert_sorted(e)
    <2>1. PICK e \in Element : dpl_insert_sorted(e)
      BY <1>8
    <2>2. SortedPlace(e) \in Int
      BY <1>2, SortedPlaceIs
    <2> QED
      BY <2>1, <2>2, InsertKeepsLinks DEF dpl_insert_sorted, Crash
  <1>9. CASE \E e \in Element : dpl_remove_element(e)
    <2>1. PICK e \in Element : dpl_remove_element(e)
      BY <1>9
    <2>2. dpl_get_index_of_element(e) \in Int
      BY <1>2, FirstHolder
    <2> QED
      BY <2>1, <2>2, RemoveKeepsLinks DEF dpl_remove_element, Crash
  <1>10. CASE \E index \in Index : dpl_remove_at_index(index)
    BY <1>1, <1>10, RemoveKeepsLinks
  <1>11. CASE \E r \in Node : dpl_remove_at_reference(r)
    <2>1. PICK r \in Node : dpl_remove_at_reference(r)
      BY <1>11
    <2>2. dpl_get_index_of_reference(r) \in Int
      BY <1>2, PlaceOf
    <2> QED
      BY <2>1, <2>2, RemoveKeepsLinks DEF dpl_remove_at_reference
  <1>12. CASE Stopped
    BY <1>12, SameLinks DEF Stopped, vars
  <1> QED
    BY <1>3, <1>4, <1>5, <1>6, <1>7, <1>8, <1>9, <1>10, <1>11, <1>12 DEF Next

(* In every behaviour, the assignment of dplist.c:170 is all that spoils    *)
(* the links.                                                               *)
THEOREM OnlyPrepending ==
  Spec => OnlyPrependingSpoils
  <1>1. DInv /\ [Next]_vars =>
          [LinksAgree /\ ~Prepends
             => LinksAgree' \/ crashed' \in {"dpl_insert_sorted", "dpl_remove_element"}]_vars
    BY NextSpoils
  <1> QED
    BY <1>1, SpecDInv, PTL DEF Spec, OnlyPrependingSpoils

-----------------------------------------------------------------------------
(* The list as a sequence                                                  *)

(* The items of a list of that shape are the elements of its nodes, in      *)
(* order.                                                                   *)
LEMMA ItemsSeq ==
  ASSUME Shape, TypeOK
  PROVE  /\ items \in Seq(Element) /\ Len(items) = dpl_size
         /\ \A k \in 1 .. dpl_size : items[k] = element[At[k - 1]]
  <1> DEFINE n == dpl_size
  <1>1. n \in Nat
    BY Bounds DEF Shape
  <1>2. ASSUME NEW k \in 1 .. n PROVE element[At[k - 1]] \in Element
    <2>1. k - 1 \in 0 .. dpl_size - 1
      BY <1>1
    <2> QED
      BY <2>1 DEF Shape, TypeOK
  <1>3. items \in [1 .. n -> Element] /\ \A k \in 1 .. n : items[k] = element[At[k - 1]]
    BY <1>2 DEF items
  <1> HIDE DEF n
  <1>4. items \in Seq(Element) /\ DOMAIN items = 1 .. n
    BY <1>1, <1>3, SeqDef
  <1>5. Len(items) = n
    BY <1>1, <1>4, LenProperties
  <1> QED
    BY <1>3, <1>4, <1>5 DEF n

(* The same of the list a step leaves.                                      *)
LEMMA ItemsSeqNext ==
  (Shape /\ TypeOK => /\ items \in Seq(Element) /\ Len(items) = dpl_size
                      /\ \A k \in 1 .. dpl_size : items[k] = element[At[k - 1]])'
  BY ItemsSeq, PTL

(* What a sequence is with an element more, and with one less.              *)
LEMMA InsertAtFacts ==
  ASSUME NEW S, NEW q \in Seq(S), NEW i \in 1 .. Len(q) + 1, NEW e \in S
  PROVE  /\ InsertAt(q, i, e) \in Seq(S)
         /\ Len(InsertAt(q, i, e)) = Len(q) + 1
         /\ \A j \in 1 .. Len(q) + 1 :
              InsertAt(q, i, e)[j] = IF j < i THEN q[j] ELSE IF j = i THEN e ELSE q[j - 1]
  <1> DEFINE a == SubSeq(q, 1, i - 1)
             b == SubSeq(q, i, Len(q))
             c == a \o <<e>>
  <1>1. /\ a \in Seq(S) /\ Len(a) = i - 1
        /\ \A j \in 1 .. i - 1 : a[j] = q[j]
    OBVIOUS
  <1>2. /\ b \in Seq(S) /\ Len(b) = Len(q) - i + 1
        /\ \A j \in 1 .. Len(q) - i + 1 : b[j] = q[j + i - 1]
    OBVIOUS
  <1>3. <<e>> \in Seq(S) /\ Len(<<e>>) = 1 /\ <<e>>[1] = e
    OBVIOUS
  <1>4. InsertAt(q, i, e) = c \o b
    BY DEF InsertAt
  <1>5. Len(q) \in Nat /\ i \in Nat /\ i >= 1 /\ i <= Len(q) + 1
    OBVIOUS
  <1> HIDE DEF a, b
  <1> DEFINE d == <<e>>
  <1>6. d \in Seq(S) /\ Len(d) = 1 /\ d[1] = e
    BY <1>3
  <1>7. c = a \o d
    OBVIOUS
  <1> HIDE DEF c, d
  <1>8. /\ c \in Seq(S) /\ Len(c) = i
        /\ \A j \in 1 .. i : c[j] = IF j < i THEN q[j] ELSE e
    <2>1. /\ a \o d \in Seq(S) /\ Len(a \o d) = Len(a) + Len(d)
          /\ \A j \in 1 .. Len(a) + Len(d) :
               (a \o d)[j] = IF j <= Len(a) THEN a[j] ELSE d[j - Len(a)]
      BY <1>1, <1>6, ConcatProperties
    <2>2. ASSUME NEW j \in 1 .. i PROVE c[j] = IF j < i THEN q[j] ELSE e
      <3>1. j \in 1 .. Len(a) + Len(d)
        BY <1>1, <1>5, <1>6
      <3>2. CASE j < i
        BY <1>1, <1>5, <1>7, <2>1, <3>1, <3>2
      <3>3. CASE j = i
        <4>1. j - Len(a) = 1 /\ ~(j <= Len(a))
          BY <1>1, <1>5, <3>3
        <4> QED
          BY <1>6, <1>7, <2>1, <3>1, <3>3, <4>1
      <3> QED
        BY <1>5, <3>2, <3>3
    <2> QED
      BY <1>1, <1>5, <1>6, <1>7, <2>1, <2>2
  <1>9. /\ c \o b \in Seq(S) /\ Len(c \o b) = Len(c) + Len(b)
        /\ \A j \in 1 .. Len(c) + Len(b) :
             (c \o b)[j] = IF j <= Len(c) THEN c[j] ELSE b[j - Len(c)]
    BY <1>2, <1>8, ConcatProperties
  <1>10. ASSUME NEW j \in 1 .. Len(q) + 1
         PROVE  (c \o b)[j] = IF j < i THEN q[j] ELSE IF j = i THEN e ELSE q[j - 1]
    <2>1. j \in 1 .. Len(c) + Len(b)
      BY <1>2, <1>5, <1>8
    <2>2. CASE j <= i
      <3>1. j \in 1 .. i /\ j <= Len(c)
        BY <1>5, <1>8, <2>2
      <3>2. (c \o b)[j] = c[j]
        BY <1>9, <2>1, <3>1
      <3>3. c[j] = IF j < i THEN q[j] ELSE e
        BY <1>8, <3>1
      <3> QED
        BY <1>5, <2>2, <3>2, <3>3
    <2>3. CASE j > i
      <3>1. PICK l \in 1 .. Len(q) - i + 1 : l = j - i /\ l + i - 1 = j - 1
        BY <1>5, <2>3
      <3>2. (c \o b)[j] = b[l]
        <4>1. ~(j <= Len(c)) /\ j - Len(c) = l
          BY <1>5, <1>8, <2>3, <3>1
        <4> QED
          BY <1>9, <2>1, <4>1
      <3>3. b[l] = q[j - 1]
        BY <1>2, <3>1
      <3> QED
        BY <1>5, <2>3, <3>2, <3>3
    <2>4. j <= i \/ j > i
      BY <1>5
    <2> QED
      BY ONLY <2>2, <2>3, <2>4
  <1> QED
    BY <1>2, <1>4, <1>5, <1>8, <1>9, <1>10

(* The same of a sequence with an element less.                             *)
LEMMA RemoveAtFacts ==
  ASSUME NEW S, NEW q \in Seq(S), NEW k \in 1 .. Len(q)
  PROVE  /\ RemoveAt(q, k) \in Seq(S)
         /\ Len(RemoveAt(q, k)) = Len(q) - 1
         /\ \A j \in 1 .. Len(q) - 1 :
              RemoveAt(q, k)[j] = IF j < k THEN q[j] ELSE q[j + 1]
  <1> DEFINE a == SubSeq(q, 1, k - 1)
             b == SubSeq(q, k + 1, Len(q))
  <1>1. /\ a \in Seq(S) /\ Len(a) = k - 1
        /\ \A j \in 1 .. k - 1 : a[j] = q[j]
    OBVIOUS
  <1>2. /\ b \in Seq(S) /\ Len(b) = Len(q) - k
        /\ \A j \in 1 .. Len(q) - k : b[j] = q[j + k]
    OBVIOUS
  <1>3. RemoveAt(q, k) = a \o b
    BY DEF RemoveAt
  <1> HIDE DEF a, b
  <1>4. /\ a \o b \in Seq(S) /\ Len(a \o b) = Len(a) + Len(b)
        /\ \A j \in 1 .. Len(a) + Len(b) :
             (a \o b)[j] = IF j <= Len(a) THEN a[j] ELSE b[j - Len(a)]
    BY <1>1, <1>2, ConcatProperties
  <1>5. Len(q) \in Nat /\ k \in Nat /\ k >= 1 /\ k <= Len(q)
    OBVIOUS
  <1>6. ASSUME NEW j \in 1 .. Len(q) - 1
        PROVE  (a \o b)[j] = IF j < k THEN q[j] ELSE q[j + 1]
    <2>1. j \in 1 .. Len(a) + Len(b)
      BY <1>1, <1>2, <1>5
    <2>2. CASE j < k
      BY <1>1, <1>4, <1>5, <2>1, <2>2
    <2>3. CASE ~(j < k)
      <3>1. j - Len(a) \in 1 .. Len(q) - k /\ j - Len(a) + k = j + 1 /\ ~(j <= Len(a))
        BY <1>1, <1>5, <2>3
      <3> QED
        BY <1>2, <1>4, <2>1, <2>3, <3>1
    <2> QED
      BY <2>2, <2>3
  <1> QED
    BY <1>1, <1>2, <1>3, <1>4, <1>5, <1>6

(* An insertion that leaves the list whole inserts the element into the     *)
(* items.                                                                   *)
LEMMA InsertEdits ==
  ASSUME DInv, NEW e \in Element, NEW index \in Int, dpl_insert_at_index(e, index), Intact'
  PROVE  /\ items' = InsertAt(items, Clamp(index, Len(items)) + 1, e)
         /\ Len(items) = dpl_size /\ dpl_size' = dpl_size + 1 /\ TypeOK' /\ Shape'
  <1> DEFINE n == dpl_size
             p == Clamp(index, n)
             q == InsertAt(items, p + 1, e)
  <1>1. /\ Shape /\ live = Nodes /\ live \subseteq Node /\ TypeOK
        /\ MaxNodes \in Nat \ {0} /\ n \in 0 .. MaxNodes /\ crashed = "no"
    BY Context DEF dpl_insert_at_index
  <1>2. /\ items \in Seq(Element) /\ Len(items) = n
        /\ \A k \in 1 .. n : items[k] = element[At[k - 1]]
    BY <1>1, ItemsSeq
  <1>3. /\ InsertedAt(p, Fresh) /\ element' = [element EXCEPT ![Fresh] = e] /\ TypeOK'
    <2>1. InsertOutcome(e, index) /\ TypeOK'
      BY InsertStep
    <2>2. crashed' = "no" /\ ~Damaged'
      BY DEF Intact
    <2> QED
      BY <2>1, <2>2 DEF InsertOutcome, Crash
  <1>4. p \in 0 .. n
    BY <1>1 DEF Clamp
  <1> HIDE DEF p
  <1>5. n < MaxNodes /\ dpl_size' = n + 1 /\ ~Damaged'
    BY <1>1, <1>3, InsertedWhole
  <1>6. Shape'
    BY <1>5, WholeHasShapeNext
  <1>7. /\ items' \in Seq(Element) /\ Len(items') = n + 1
        /\ \A k \in 1 .. n + 1 : items'[k] = element'[At'[k - 1]]
    BY <1>3, <1>5, <1>6, ItemsSeqNext
  <1>8. /\ q \in Seq(Element) /\ Len(q) = n + 1
        /\ \A j \in 1 .. n + 1 :
             q[j] = IF j < p + 1 THEN items[j] ELSE IF j = p + 1 THEN e ELSE items[j - 1]
    <2> DEFINE place == p + 1
    <2>1. place \in 1 .. Len(items) + 1
      BY <1>1, <1>2, <1>4
    <2> HIDE DEF place
    <2>3. /\ InsertAt(items, place, e) \in Seq(Element)
          /\ Len(InsertAt(items, place, e)) = Len(items) + 1
          /\ \A j \in 1 .. Len(items) + 1 :
               InsertAt(items, place, e)[j] =
                 IF j < place THEN items[j] ELSE IF j = place THEN e ELSE items[j - 1]
      <3>1. items \in Seq(Element) /\ e \in Element
        BY <1>2
      <3>2. \A r \in Seq(Element) : \A i \in 1 .. Len(r) + 1 :
              /\ InsertAt(r, i, e) \in Seq(Element)
              /\ Len(InsertAt(r, i, e)) = Len(r) + 1
              /\ \A j \in 1 .. Len(r) + 1 :
                   InsertAt(r, i, e)[j] =
                     IF j < i THEN r[j] ELSE IF j = i THEN e ELSE r[j - 1]
        BY ONLY <3>1, InsertAtFacts
      <3> QED
        BY ONLY <2>1, <3>1, <3>2, Zenon
    <2>2. /\ q \in Seq(Element) /\ Len(q) = Len(items) + 1
          /\ \A j \in 1 .. Len(items) + 1 :
               q[j] = IF j < p + 1 THEN items[j] ELSE IF j = p + 1 THEN e ELSE items[j - 1]
      BY <2>3 DEF place
    <2> QED
      BY <1>2, <2>2
  <1>9. /\ \A k \in 0 .. n - 1 : At[k] \in live
        /\ \A k \in 0 .. MaxNodes :
             At'[k] = IF k < p THEN At[k] ELSE IF k = p THEN Fresh ELSE At[k - 1]
        /\ Fresh \in Node \ live
        /\ \A x \in Node : element'[x] = IF x = Fresh THEN e ELSE element[x]
    BY <1>1, <1>3 DEF Shape, Step, InsertedAt, TypeOK
  <1> HIDE DEF n, q
  <1>10. ASSUME NEW j \in 1 .. n + 1 PROVE items'[j] = q[j]
    <2>1. PICK k \in 0 .. n : k = j - 1 /\ j = k + 1
      BY <1>1
    <2>2. k \in 0 .. MaxNodes /\ items'[j] = element'[At'[k]]
      BY <1>1, <1>7, <2>1
    <2>3. CASE k < p
      <3>1. k \in 0 .. n - 1 /\ j \in 1 .. n /\ j < p + 1
        BY <1>1, <1>4, <2>1, <2>3
      <3>2. At'[k] = At[k] /\ element'[At[k]] = element[At[k]]
        BY <1>1, <1>9, <2>2, <2>3, <3>1
      <3>3. q[j] = items[j] /\ items[j] = element[At[j - 1]]
        BY <1>2, <1>8, <3>1
      <3> QED
        BY <2>1, <2>2, <3>2, <3>3
    <2>4. CASE k = p
      <3>1. At'[k] = Fresh /\ element'[Fresh] = e
        BY <1>4, <1>9, <2>2, <2>4
      <3>2. q[j] = e
        BY <1>4, <1>8, <2>1, <2>4
      <3> QED
        BY <2>2, <3>1, <3>2
    <2>5. CASE k > p
      <3>1. k - 1 \in 0 .. n - 1 /\ k \in 1 .. n /\ ~(j < p + 1) /\ j # p + 1
        BY <1>1, <1>4, <2>1, <2>5
      <3>2. At'[k] = At[k - 1]
        BY <1>4, <1>9, <2>2, <2>5
      <3>3. element'[At[k - 1]] = element[At[k - 1]]
        BY <1>1, <1>9, <3>1
      <3>4. q[j] = items[k] /\ items[k] = element[At[k - 1]]
        BY <1>2, <1>8, <2>1, <3>1
      <3> QED
        BY <2>2, <3>2, <3>3, <3>4
    <2> QED
      BY <1>4, <2>3, <2>4, <2>5
  <1>11. items' = q
    BY <1>7, <1>8, <1>10, SeqEqual
  <1> QED
    BY <1>2, <1>3, <1>5, <1>6, <1>11 DEF n, p, q

(* A removal that leaves it whole takes one out of them.                    *)
LEMMA RemoveEdits ==
  ASSUME DInv, NEW index \in Int, dpl_remove_at_index(index), Intact'
  PROVE  items' = RemoveAt(items, Clamp(index, Len(items) - 1) + 1)
  <1> DEFINE n == dpl_size
             p == Clamp(index, n - 1)
             q == RemoveAt(items, p + 1)
  <1>1. /\ Shape /\ live = Nodes /\ live \subseteq Node /\ TypeOK
        /\ MaxNodes \in Nat \ {0} /\ n \in 0 .. MaxNodes /\ crashed = "no"
    BY Context DEF dpl_remove_at_index
  <1>2. /\ items \in Seq(Element) /\ Len(items) = n
        /\ \A k \in 1 .. n : items[k] = element[At[k - 1]]
    BY <1>1, ItemsSeq
  <1>3. /\ RemovedAt(p) /\ TypeOK'
        /\ \A x \in Node : x # At[p] => element'[x] = element[x]
    <2>1. RemoveOutcome(index) /\ TypeOK'
      BY RemoveStep
    <2>2. crashed' = "no" /\ ~Damaged'
      BY DEF Intact
    <2> QED
      BY <2>1, <2>2 DEF RemoveOutcome, Crash
  <1>4. p \in 0 .. n - 1
    BY <1>3 DEF RemovedAt
  <1> HIDE DEF p
  <1>5. dpl_size' = n - 1 /\ ~Damaged'
    BY <1>1, <1>3, RemovedWhole
  <1>6. Shape'
    BY <1>5, WholeHasShapeNext
  <1>7. /\ items' \in Seq(Element) /\ Len(items') = n - 1
        /\ \A k \in 1 .. n - 1 : items'[k] = element'[At'[k - 1]]
    BY <1>3, <1>5, <1>6, ItemsSeqNext
  <1>8. /\ q \in Seq(Element) /\ Len(q) = n - 1
        /\ \A j \in 1 .. n - 1 : q[j] = IF j < p + 1 THEN items[j] ELSE items[j + 1]
    <2>1. p + 1 \in 1 .. Len(items)
      BY <1>1, <1>2, <1>4
    <2>2. /\ q \in Seq(Element) /\ Len(q) = Len(items) - 1
          /\ \A j \in 1 .. Len(items) - 1 :
               q[j] = IF j < p + 1 THEN items[j] ELSE items[j + 1]
      BY <1>2, <2>1, RemoveAtFacts
    <2> QED
      BY <1>2, <2>2
  <1>9. /\ \A k \in 0 .. n - 1 : At[k] \in live
        /\ \A i, j \in 0 .. n - 1 : At[i] = At[j] => i = j
        /\ \A k \in 0 .. MaxNodes :
             At'[k] = IF k < p THEN At[k] ELSE IF k = MaxNodes THEN NULL ELSE At[k + 1]
    BY <1>1, <1>3 DEF Shape, Step, RemovedAt
  <1> HIDE DEF n, q
  <1>10. ASSUME NEW j \in 1 .. n - 1 PROVE items'[j] = q[j]
    <2>1. PICK k \in 0 .. n - 2 : k = j - 1 /\ j = k + 1
      BY <1>1
    <2>2. k \in 0 .. MaxNodes /\ k # MaxNodes /\ items'[j] = element'[At'[k]]
      BY <1>1, <1>7, <2>1
    <2>3. CASE k < p
      <3>1. k \in 0 .. n - 1 /\ j \in 1 .. n /\ j < p + 1
        BY <1>1, <1>4, <2>1, <2>3
      <3>2. At'[k] = At[k] /\ At[k] # At[p] /\ At[k] \in Node
        BY <1>1, <1>4, <1>9, <2>2, <2>3, <3>1
      <3>3. q[j] = items[j] /\ items[j] = element[At[k]]
        BY <1>2, <1>8, <2>1, <3>1
      <3> QED
        BY <1>3, <2>2, <3>2, <3>3
    <2>4. CASE ~(k < p)
      <3>1. PICK i \in 0 .. n - 1 : i = k + 1 /\ i # p
        BY <1>1, <1>4, <2>4
      <3>2. At'[k] = At[i] /\ At[i] # At[p] /\ At[i] \in Node
        BY <1>1, <1>4, <1>9, <2>2, <2>4, <3>1
      <3>3. PICK l \in 1 .. n : l = j + 1 /\ l - 1 = i
        BY <1>1, <2>1, <3>1
      <3>4. q[j] = items[l] /\ items[l] = element[At[i]]
        <4>1. ~(j < p + 1)
          BY <1>4, <2>1, <2>4
        <4> QED
          BY <1>2, <1>8, <3>3, <4>1
      <3> QED
        BY <1>3, <2>2, <3>2, <3>4
    <2> QED
      BY <2>3, <2>4
  <1>11. items' = q
    BY <1>7, <1>8, <1>10, SeqEqual
  <1> QED
    BY <1>2, <1>11 DEF n, p, q

(* In every behaviour, edits are at the index asked for and move nothing    *)
(* else.                                                                    *)
THEOREM EditsAreWhereAsked ==
  Spec => EditsWhereAsked
  <1> DEFINE Edits ==
        \A index \in Index :
          /\ \A e \in Element :
               dpl_insert_at_index(e, index) /\ Intact'
                 => items' = InsertAt(items, Clamp(index, Len(items)) + 1, e)
          /\ dpl_remove_at_index(index) /\ Intact'
               => items' = RemoveAt(items, Clamp(index, Len(items) - 1) + 1)
  <1>1. DInv => Edits
    <2>1. Index \subseteq Int
      BY Bounds DEF Index
    <2> QED
      BY <2>1, InsertEdits, RemoveEdits
  <1>2. EditsWhereAsked <=> [][Edits]_vars
    BY DEF EditsWhereAsked
  <1> HIDE DEF Edits
  <1> QED
    BY <1>1, <1>2, SpecDInv, PTL DEF Spec

-----------------------------------------------------------------------------
(* Sorted insertion                                                        *)

(* An element put before the first that is not smaller leaves a sorted      *)
(* sequence sorted.                                                         *)
LEMMA InsertSorted ==
  ASSUME NEW q \in Seq(Element), NEW i \in 1 .. Len(q) + 1, NEW e \in Element,
         \A j, k \in 1 .. Len(q) : j < k => q[j] <= q[k],
         \A j \in 1 .. i - 1 : e > q[j],
         i <= Len(q) => e <= q[i]
  PROVE  \A j, k \in 1 .. Len(InsertAt(q, i, e)) :
           j < k => InsertAt(q, i, e)[j] <= InsertAt(q, i, e)[k]
  <1> DEFINE n == Len(q)
             r == InsertAt(q, i, e)
  <1>1. n \in Nat /\ i \in Nat /\ i >= 1 /\ i <= n + 1 /\ e \in Int
        /\ \A j \in 1 .. n : q[j] \in Int
    <2>1. Element \subseteq Int
      BY Bounds
    <2>2. \A j \in 1 .. n : q[j] \in Element
      OBVIOUS
    <2>3. n \in Nat /\ i \in Nat /\ i >= 1 /\ i <= n + 1
      OBVIOUS
    <2> QED
      BY <2>1, <2>2, <2>3
  <1>2. /\ Len(r) = n + 1
        /\ \A j \in 1 .. n + 1 : r[j] = IF j < i THEN q[j] ELSE IF j = i THEN e ELSE q[j - 1]
    BY InsertAtFacts
  <1>3. /\ \A j, k \in 1 .. n : j < k => q[j] <= q[k]
        /\ \A j \in 1 .. i - 1 : e > q[j]
        /\ i <= n => e <= q[i]
    OBVIOUS
  <1> HIDE DEF n, r
  <1>4. \A k \in i .. n : e <= q[k]
    BY <1>1, <1>3
  <1>5. ASSUME NEW j \in 1 .. n + 1, NEW k \in 1 .. n + 1, j < k PROVE r[j] <= r[k]
    <2>1. CASE k < i
      <3>1. j \in 1 .. n /\ k \in 1 .. n /\ j < i
        BY <1>1, <1>5, <2>1
      <3> QED
        BY <1>2, <1>3, <1>5, <2>1, <3>1
    <2>2. CASE k = i
      <3>1. j \in 1 .. i - 1 /\ j < i /\ j \in 1 .. n
        BY <1>1, <1>5, <2>2
      <3>2. r[j] = q[j] /\ r[k] = e /\ e > q[j]
        BY <1>2, <1>3, <2>2, <3>1
      <3> QED
        BY <1>1, <3>1, <3>2
    <2>3. CASE k > i
      <3>1. PICK l \in i .. n : l = k - 1
        BY <1>1, <2>3
      <3>2. r[k] = q[l] /\ l \in 1 .. n
        BY <1>1, <1>2, <2>3, <3>1
      <3>3. CASE j < i
        <4>1. j \in 1 .. n /\ j < l
          BY <1>1, <3>1, <3>3
        <4> QED
          BY <1>2, <1>3, <3>2, <3>3, <4>1
      <3>4. CASE j = i
        BY <1>2, <1>4, <3>1, <3>2, <3>4
      <3>5. CASE j > i
        <4>1. PICK m \in 1 .. n : m = j - 1 /\ m < l
          BY <1>1, <1>5, <3>1, <3>5
        <4>2. r[j] = q[m]
          BY <1>1, <1>2, <3>5, <4>1
        <4> QED
          BY <1>3, <3>2, <4>1, <4>2
      <3> QED
        BY <1>1, <3>3, <3>4, <3>5
    <2> QED
      BY <1>1, <2>1, <2>2, <2>3
  <1> QED
    BY <1>2, <1>5 DEF n, r

(* Where the links agree, an insertion at whatever index leaves the list     *)
(* whole: no prev after the head is NULL or the node itself.                *)
LEMMA LinkedInsertIsWhole ==
  ASSUME DInv, LinksAgree, NEW e \in Element, NEW index \in Int,
         dpl_insert_at_index(e, index)
  PROVE  Intact'
  <1> DEFINE p == Clamp(index, dpl_size)
  <1>1. Intact /\ Shape /\ live = Nodes /\ live \subseteq Node /\ Linked
    BY LinksAgreeIs
  <1>2. InsertedAt(p, Fresh) /\ crashed' = crashed
    <2>1. InsertOutcome(e, index)
      BY InsertStep
    <2> QED
      BY <1>1, <2>1, LinkedPrev DEF InsertOutcome
  <1> HIDE DEF p
  <1>3. ~Damaged'
    BY <1>1, <1>2, InsertedWhole
  <1> QED
    BY <1>1, <1>2, <1>3 DEF Intact

(* The walk to the place of a new maximum, and no other, reaches the end of *)
(* a list that has nodes.                                                   *)
LEMMA NewMaximumIs ==
  ASSUME DInv, Usable, NEW e \in Element
  PROVE  NewMaximum(e) <=> head # NULL /\ SortedPlace(e) = dpl_size
  <1> DEFINE n == dpl_size
             p == SortedPlace(e)
             q == items
  <1>1. Shape /\ TypeOK /\ n \in Nat /\ (head = NULL <=> n = 0)
    BY Context
  <1>2. /\ p \in 0 .. n
        /\ \A j \in 0 .. p - 1 : e > element[At[j]]
        /\ p < n => e <= element[At[p]]
    BY <1>1, SortedPlaceIs
  <1>3. /\ q \in Seq(Element) /\ Len(q) = n
        /\ \A k \in 1 .. n : q[k] = element[At[k - 1]]
    BY <1>1, ItemsSeq
  <1>4. e \in Int /\ \A k \in 1 .. n : q[k] \in Int
    <2>1. Element \subseteq Int
      BY Bounds
    <2>2. \A k \in 1 .. n : q[k] \in Element
      BY <1>3
    <2> QED
      BY <2>1, <2>2
  <1>5. NewMaximum(e) <=> q # << >> /\ \A k \in 1 .. Len(q) : q[k] < e
    BY DEF NewMaximum
  <1>6. q # << >> <=> n # 0
    BY <1>3
  <1> HIDE DEF n, p, q
  <1>7. ASSUME p = n, NEW k \in 1 .. n PROVE q[k] < e
    <2>1. k - 1 \in 0 .. p - 1
      BY <1>1, <1>7
    <2>2. e > q[k]
      BY <1>2, <1>3, <2>1
    <2> QED
      BY <1>4, <2>2
  <1>8. ASSUME p # n PROVE \E k \in 1 .. n : ~(q[k] < e)
    <2>1. p < n /\ p + 1 \in 1 .. n /\ (p + 1) - 1 = p
      BY <1>1, <1>2, <1>8
    <2>2. e <= q[p + 1]
      BY <1>2, <1>3, <2>1
    <2> QED
      BY <1>4, <2>1, <2>2
  <1> QED
    BY <1>1, <1>3, <1>5, <1>6, <1>7, <1>8 DEF n, p

(* An element put at its place in a sorted list that stays whole leaves it  *)
(* sorted, with one member more.                                            *)
LEMMA InsertedInOrder ==
  ASSUME DInv, NEW e \in Element, dpl_insert_at_index(e, SortedPlace(e)), Intact', Sorted
  PROVE  Sorted' /\ \E place \in 1 .. Len(items) + 1 : items' = InsertAt(items, place, e)
  <1> DEFINE p == SortedPlace(e)
  <1>1. Usable /\ dpl_insert_at_index(e, p)
    BY DEF dpl_insert_at_index
  <1>2. Shape /\ TypeOK /\ dpl_size \in Nat
    BY <1>1, Context
  <1>3. /\ p \in 0 .. dpl_size
        /\ \A j \in 0 .. p - 1 : e > element[At[j]]
        /\ p < dpl_size => e <= element[At[p]]
    BY <1>2, SortedPlaceIs
  <1>4. /\ items \in Seq(Element) /\ Len(items) = dpl_size
        /\ \A k \in 1 .. dpl_size : items[k] = element[At[k - 1]]
    BY <1>2, ItemsSeq
  <1> HIDE DEF p
  <1>5. p \in Int /\ Clamp(p, Len(items)) = p
    BY <1>2, <1>3, <1>4 DEF Clamp
  <1>6. items' = InsertAt(items, p + 1, e)
    BY <1>1, <1>5, InsertEdits
  <1>7. PICK i \in 1 .. Len(items) + 1 : i = p + 1 /\ i - 1 = p
    BY <1>2, <1>3, <1>4
  <1>8. ASSUME NEW j \in 1 .. i - 1 PROVE e > items[j]
    <2>1. j - 1 \in 0 .. p - 1 /\ j \in 1 .. dpl_size
      BY <1>2, <1>3, <1>7
    <2> QED
      BY <1>3, <1>4, <2>1
  <1>9. i <= Len(items) => e <= items[i]
    <2> SUFFICES ASSUME i <= Len(items) PROVE e <= items[i]
      OBVIOUS
    <2>1. i \in 1 .. dpl_size /\ p < dpl_size
      BY <1>2, <1>3, <1>4, <1>7
    <2> QED
      BY <1>3, <1>4, <1>7, <2>1
  <1>10. \A j, k \in 1 .. Len(items) : j < k => items[j] <= items[k]
    BY DEF Sorted
  <1>11. \A r \in Seq(Element) : \A l \in 1 .. Len(r) + 1 :
           /\ \A j, k \in 1 .. Len(r) : j < k => r[j] <= r[k]
           /\ \A j \in 1 .. l - 1 : e > r[j]
           /\ l <= Len(r) => e <= r[l]
           => \A j, k \in 1 .. Len(InsertAt(r, l, e)) :
                j < k => InsertAt(r, l, e)[j] <= InsertAt(r, l, e)[k]
    BY InsertSorted
  <1>12. \A j, k \in 1 .. Len(InsertAt(items, i, e)) :
           j < k => InsertAt(items, i, e)[j] <= InsertAt(items, i, e)[k]
    BY ONLY <1>4, <1>7, <1>8, <1>9, <1>10, <1>11, Zenon
  <1>13. items' = InsertAt(items, i, e)
    BY <1>6, <1>7
  <1>14. Sorted'
    BY ONLY <1>12, <1>13 DEF Sorted
  <1> QED
    BY <1>7, <1>13, <1>14

(* In every behaviour, a sorted insertion keeps what dplist.h promises of   *)
(* it - the element is in, once, and the list still sorted - except for an  *)
(* element larger than all: that always ends the program.                   *)
THEOREM SortedRemains ==
  Spec => SortedStaysSorted
  <1> DEFINE Keeps ==
        \A e \in Element :
          dpl_insert_sorted(e) /\ Sorted =>
            IF NewMaximum(e)
            THEN crashed' = "dpl_insert_sorted"
            ELSE /\ LinksAgree => Intact'
                 /\ Intact' => /\ Sorted'
                              /\ \E place \in 1 .. Len(items) + 1 :
                                   items' = InsertAt(items, place, e)
  <1>1. DInv => Keeps
    <2> SUFFICES ASSUME DInv, NEW e \in Element, dpl_insert_sorted(e), Sorted
                 PROVE  IF NewMaximum(e)
                        THEN crashed' = "dpl_insert_sorted"
                        ELSE /\ LinksAgree => Intact'
                             /\ Intact' => /\ Sorted'
                                          /\ \E place \in 1 .. Len(items) + 1 :
                                               items' = InsertAt(items, place, e)
      OBVIOUS
    <2>1. Usable
      BY DEF dpl_insert_sorted
    <2>2. NewMaximum(e) <=> head # NULL /\ SortedPlace(e) = dpl_size
      BY <2>1, NewMaximumIs
    <2>3. CASE NewMaximum(e)
      BY <2>2, <2>3 DEF dpl_insert_sorted, Crash
    <2>4. CASE ~NewMaximum(e)
      <3>1. dpl_insert_at_index(e, SortedPlace(e))
        BY <2>2, <2>4 DEF dpl_insert_sorted
      <3>2. SortedPlace(e) \in Int
        BY <2>1, Context, SortedPlaceIs
      <3>3. LinksAgree => Intact'
        BY <3>1, <3>2, LinkedInsertIsWhole
      <3>4. Intact' => Sorted' /\ \E place \in 1 .. Len(items) + 1 :
                                    items' = InsertAt(items, place, e)
        BY <3>1, InsertedInOrder
      <3> QED
        BY <2>4, <3>3, <3>4
    <2> QED
      BY <2>3, <2>4
  <1>2. SortedStaysSorted <=> [][Keeps]_vars
    BY DEF SortedStaysSorted
  <1> HIDE DEF Keeps
  <1> QED
    BY <1>1, <1>2, SpecDInv, PTL DEF Spec

-----------------------------------------------------------------------------
(* The look-ups                                                            *)

(* The place of the node at k is k, and NULL has none.                      *)
LEMMA PlaceAt ==
  ASSUME Shape
  PROVE  /\ \A k \in 0 .. dpl_size - 1 : dpl_get_index_of_reference(At[k]) = k
         /\ dpl_get_index_of_reference(NULL) = -1
  <1>1. ASSUME NEW k \in 0 .. dpl_size - 1
        PROVE  dpl_get_index_of_reference(At[k]) = k
    <2> DEFINE r == At[k]
               c == dpl_get_index_of_reference(r)
    <2>1. dpl_size \in Nat
      BY Bounds DEF Shape
    <2>2. c \in -1 .. dpl_size - 1 /\ c # -1 /\ r = At[c]
      BY PlaceOf
    <2> HIDE DEF c
    <2>3. c \in 0 .. dpl_size - 1
      BY <2>1, <2>2
    <2>4. c = k
      BY <2>2, <2>3 DEF Shape
    <2> QED
      BY <2>4 DEF c
  <1>2. dpl_get_index_of_reference(NULL) = -1
    BY DEF dpl_get_index_of_reference
  <1> QED
    BY <1>1, <1>2

(* A reference is in the list just when it is the node at some index.       *)
LEMMA InListIs ==
  ASSUME Shape, NEW r
  PROVE  InList(r) <=> \E k \in 0 .. dpl_size - 1 :
                         r = At[k] /\ dpl_get_index_of_reference(r) = k
  <1>1. dpl_size \in Nat
    BY Bounds DEF Shape
  <1>2. ASSUME InList(r)
        PROVE  \E k \in 0 .. dpl_size - 1 : r = At[k] /\ dpl_get_index_of_reference(r) = k
    <2> DEFINE c == dpl_get_index_of_reference(r)
    <2>1. c \in -1 .. dpl_size - 1 /\ c # -1 /\ r = At[c]
      BY <1>2, PlaceOf DEF InList
    <2>2. c = dpl_get_index_of_reference(r)
      OBVIOUS
    <2> HIDE DEF c
    <2>3. c \in 0 .. dpl_size - 1
      BY <1>1, <2>1
    <2> QED
      BY <2>1, <2>2, <2>3
  <1>3. ASSUME NEW k \in 0 .. dpl_size - 1, dpl_get_index_of_reference(r) = k
        PROVE  InList(r)
    BY <1>1, <1>3 DEF InList
  <1> QED
    BY <1>2, <1>3

(* The nodes that are found are the nodes of the list, and as many.         *)
LEMMA FoundCount ==
  ASSUME Shape, live \subseteq Node
  PROVE  Cardinality({n \in Node : dpl_get_index_of_reference(n) # -1}) = dpl_size
  <1> DEFINE found == {n \in Node : dpl_get_index_of_reference(n) # -1}
  <1>1. Nodes = {At[k] : k \in 0 .. dpl_size - 1} /\ Cardinality(Nodes) = dpl_size
    BY NodesCount
  <1>2. ASSUME NEW n \in found PROVE n \in Nodes
    <2>1. InList(n)
      BY DEF InList
    <2> QED
      BY <1>1, <2>1, InListIs
  <1>3. ASSUME NEW n \in Nodes PROVE n \in found
    <2>1. PICK k \in 0 .. dpl_size - 1 : n = At[k]
      BY <1>1
    <2>2. n \in Node /\ dpl_get_index_of_reference(n) = k /\ k # -1
      <3>1. dpl_size \in Nat
        BY Bounds DEF Shape
      <3> QED
        BY <2>1, <3>1, PlaceAt DEF Shape
    <2> QED
      BY <2>2
  <1> HIDE DEF found
  <1>4. found = Nodes
    BY <1>2, <1>3
  <1> QED
    BY <1>1, <1>4 DEF found

(* The last reference is the one at an index too large.                     *)
LEMMA LastAgrees ==
  ASSUME Shape, head = NULL <=> dpl_size = 0
  PROVE  dpl_get_last_reference = dpl_get_reference_at_index(MaxNodes)
  <1>1. dpl_size \in 0 .. MaxNodes /\ MaxNodes \in Nat \ {0}
    BY Bounds DEF Shape
  <1>2. CASE head = NULL
    BY <1>2 DEF dpl_get_last_reference, dpl_get_reference_at_index
  <1>3. CASE head # NULL
    <2>1. dpl_size # 0
      BY <1>3
    <2>2. /\ Clamp(dpl_size - 1, dpl_size - 1) = dpl_size - 1
          /\ Clamp(MaxNodes, dpl_size - 1) = dpl_size - 1
      BY <1>1, <2>1 DEF Clamp
    <2>3. dpl_get_reference_at_index(dpl_size - 1) = At[dpl_size - 1]
      <3>1. dpl_size - 1 \in Int
        BY <1>1
      <3> QED
        BY <2>1, <2>2, <3>1, ReferenceAt
    <2>4. dpl_get_reference_at_index(MaxNodes) = At[dpl_size - 1]
      BY <1>1, <2>1, <2>2, ReferenceAt
    <2> QED
      BY <1>3, <2>3, <2>4 DEF dpl_get_last_reference
  <1> QED
    BY <1>2, <1>3

(* By index, the element found is that of the node found, which is at the   *)
(* index or the last.                                                       *)
LEMMA IndexAgrees ==
  ASSUME Shape, head = NULL <=> dpl_size = 0, NEW k \in 0 .. MaxNodes
  PROVE  LET n == dpl_get_reference_at_index(k)
         IN  /\ dpl_get_element_at_index(k) = dpl_get_element_at_reference(n)
             /\ dpl_size > 0 => dpl_get_index_of_reference(n) = Clamp(k, dpl_size - 1)
  <1>1. dpl_size \in 0 .. MaxNodes /\ MaxNodes \in Nat \ {0} /\ At[0] = head
    BY Bounds DEF Shape
  <1>2. CASE dpl_size = 0
    <2>1. head = NULL /\ ~(dpl_size > 0)
      BY <1>2
    <2>2. dpl_get_reference_at_index(k) = NULL /\ dpl_get_element_at_index(k) = NULL
      BY <2>1 DEF dpl_get_reference_at_index, dpl_get_element_at_index
    <2>3. dpl_get_element_at_reference(NULL) = NULL
      BY PlaceAt DEF dpl_get_element_at_reference, InList
    <2> QED
      BY <2>1, <2>2, <2>3
  <1>3. CASE dpl_size # 0
    <2> DEFINE c == Clamp(k, dpl_size - 1)
               n == dpl_get_reference_at_index(k)
    <2>1. c \in 0 .. dpl_size - 1 /\ n = At[c]
      BY <1>1, <1>3, ReferenceAt
    <2>2. dpl_get_element_at_index(k) = element[At[c]]
      <3>1. head # NULL
        BY <1>3
      <3>2. CASE k <= 0
        <4>1. c = 0
          BY <3>2 DEF Clamp
        <4> QED
          BY <1>1, <3>1, <3>2, <4>1 DEF dpl_get_element_at_index
      <3>3. CASE ~(k <= 0)
        <4>1. c = IF k < dpl_size THEN k ELSE dpl_size - 1
          BY <1>1, <3>3 DEF Clamp
        <4> QED
          BY <3>1, <3>3, <4>1 DEF dpl_get_element_at_index
      <3> QED
        BY <3>2, <3>3
    <2> HIDE DEF c, n
    <2>3. dpl_get_index_of_reference(n) = c /\ c # -1
      BY <1>1, <2>1, PlaceAt
    <2>4. dpl_get_element_at_reference(n) = element[At[c]]
      BY <2>1, <2>3 DEF dpl_get_element_at_reference, InList
    <2> QED
      BY <2>2, <2>3, <2>4 DEF c, n
  <1> QED
    BY <1>2, <1>3

(* The reference after a node is the next node, and back - where the links  *)
(* agree - the node itself; after the last there is none, nor after what is *)
(* not in the list.                                                         *)
LEMMA NeighboursAgree ==
  ASSUME Shape, LinksAgree => Linked, NEW n \in Node
  PROVE  LET after == dpl_get_next_reference(n)
             k == dpl_get_index_of_reference(n)
         IN  IF InList(n) /\ k < dpl_size - 1
             THEN /\ dpl_get_index_of_reference(after) = k + 1
                  /\ LinksAgree => dpl_get_previous_reference(after) = n
             ELSE after = NULL
  <1> DEFINE after == dpl_get_next_reference(n)
             k == dpl_get_index_of_reference(n)
  <1>1. dpl_size \in 0 .. MaxNodes /\ MaxNodes \in Nat \ {0} /\ At[0] = head
    BY Bounds DEF Shape
  <1>2. CASE ~InList(n)
    BY <1>2 DEF dpl_get_next_reference
  <1>3. CASE InList(n)
    <2>1. k \in 0 .. dpl_size - 1 /\ n = At[k]
      BY <1>3, InListIs
    <2>2. after = next[n]
      BY <1>3 DEF dpl_get_next_reference
    <2> HIDE DEF after, k
    <2>3. after = At[k + 1]
      BY <2>1, <2>2 DEF Shape
    <2>4. CASE k < dpl_size - 1
      <3>1. PICK l \in 0 .. dpl_size - 1 : l = k + 1 /\ l - 1 = k /\ l # 0 /\ l # -1
        BY <1>1, <2>1, <2>4
      <3>2. after = At[l] /\ dpl_get_index_of_reference(after) = l
        BY <2>3, <3>1, PlaceAt
      <3>3. after # head
        BY <1>1, <2>1, <3>1, <3>2 DEF Shape
      <3>4. InList(after)
        BY <3>1, <3>2 DEF InList
      <3>5. ASSUME LinksAgree PROVE dpl_get_previous_reference(after) = n
        <4>1. prev[At[l]] = At[k]
          BY <3>1, <3>5 DEF Linked
        <4> QED
          BY <2>1, <3>2, <3>3, <3>4, <4>1 DEF dpl_get_previous_reference
      <3> QED
        BY <1>3, <2>4, <3>1, <3>2, <3>5 DEF after, k
    <2>5. CASE ~(k < dpl_size - 1)
      <3>1. k + 1 = dpl_size /\ dpl_size \in Step
        BY <1>1, <2>1, <2>5 DEF Step
      <3>2. ~(dpl_size < dpl_size)
        BY <1>1
      <3>3. At[dpl_size] = NULL
        BY <3>1, <3>2 DEF Shape
      <3> QED
        BY <2>3, <2>5, <3>1, <3>3 DEF after, k
    <2> QED
      BY <2>4, <2>5
  <1> QED
    BY <1>2, <1>3

(* By element, the node found holds it and is the first that does.          *)
LEMMA HolderAgrees ==
  ASSUME Shape, TypeOK, NEW e \in Element
  PROVE  LET n == dpl_get_reference_of_element(e)
         IN  /\ dpl_get_index_of_reference(n) = dpl_get_index_of_element(e)
             /\ n # NULL => dpl_get_element_at_reference(n) = e
             /\ \A k \in 0 .. dpl_size - 1 :
                  items[k + 1] = e => dpl_get_index_of_reference(n) \in 0 .. k
  <1> DEFINE n == dpl_get_reference_of_element(e)
             c == dpl_get_index_of_element(e)
  <1>1. dpl_size \in Nat
    BY Bounds DEF Shape
  <1>2. \A k \in 0 .. dpl_size - 1 : items[k + 1] = element[At[k]]
    <2> SUFFICES ASSUME NEW k \in 0 .. dpl_size - 1 PROVE items[k + 1] = element[At[k]]
      OBVIOUS
    <2>1. PICK l \in 1 .. dpl_size : l = k + 1 /\ l - 1 = k
      BY <1>1
    <2> QED
      BY <2>1, ItemsSeq
  <1>3. /\ c \in -1 .. dpl_size - 1
        /\ c # -1 => /\ element[At[c]] = e
                     /\ \A j \in 0 .. dpl_size - 1 : element[At[j]] = e => c <= j
        /\ c = -1 <=> Holders(e) = {}
    BY FirstHolder
  <1>4. n = IF Holders(e) = {} THEN NULL ELSE At[c]
    BY DEF dpl_get_reference_of_element
  <1> HIDE DEF n, c
  <1>5. CASE c = -1
    <2>1. Holders(e) = {} /\ n = NULL /\ dpl_get_index_of_reference(n) = c
      BY <1>3, <1>4, <1>5, PlaceAt
    <2>2. \A k \in 0 .. dpl_size - 1 : items[k + 1] # e
      BY <1>2, <2>1 DEF Holders
    <2> QED
      BY <2>1, <2>2 DEF n, c
  <1>6. CASE c # -1
    <2>1. c \in 0 .. dpl_size - 1 /\ n = At[c]
      BY <1>1, <1>3, <1>4, <1>6
    <2>2. dpl_get_index_of_reference(n) = c
      BY <2>1, PlaceAt
    <2>3. dpl_get_element_at_reference(n) = e
      BY <1>3, <1>6, <2>1, <2>2 DEF dpl_get_element_at_reference, InList
    <2>4. ASSUME NEW k \in 0 .. dpl_size - 1, items[k + 1] = e
          PROVE  c \in 0 .. k
      <3>1. c <= k
        BY <1>2, <1>3, <1>6, <2>4
      <3> QED
        BY <1>1, <2>1, <3>1
    <2> QED
      BY <2>2, <2>3, <2>4 DEF n, c
  <1> QED
    BY <1>5, <1>6

(* However the list was used: while it can be, the ways to look something   *)
(* up tell of the same list.                                                *)
THEOREM LookupsTellTheSame ==
  Spec => []LookupsAgree
  <1>1. DInv => LookupsAgree
    <2> SUFFICES ASSUME DInv, Usable PROVE LookupsAgree
      BY DEF LookupsAgree
    <2>1. /\ Shape /\ TypeOK /\ live \subseteq Node
          /\ head = NULL <=> dpl_size = 0
      BY Context
    <2>2. LinksAgree => Linked
      BY LinksAgreeIs
    <2>3. dpl_get_first_reference = dpl_get_reference_at_index(-1)
      BY DEF dpl_get_first_reference, dpl_get_reference_at_index
    <2>4. dpl_get_last_reference = dpl_get_reference_at_index(MaxNodes)
      BY <2>1, LastAgrees
    <2>5. Cardinality({n \in Node : dpl_get_index_of_reference(n) # -1}) = dpl_size
      BY <2>1, FoundCount
    <2>6. ASSUME NEW k \in 0 .. MaxNodes
          PROVE  LET n == dpl_get_reference_at_index(k)
                 IN  /\ dpl_get_element_at_index(k) = dpl_get_element_at_reference(n)
                     /\ dpl_size > 0
                          => dpl_get_index_of_reference(n) = Clamp(k, dpl_size - 1)
      BY <2>1, IndexAgrees
    <2>7. ASSUME NEW n \in Node
          PROVE  LET after == dpl_get_next_reference(n)
                     k == dpl_get_index_of_reference(n)
                 IN  IF n \in {r \in Node : dpl_get_index_of_reference(r) # -1}
                        /\ k < dpl_size - 1
                     THEN /\ dpl_get_index_of_reference(after) = k + 1
                          /\ LinksAgree => dpl_get_previous_reference(after) = n
                     ELSE after = NULL
      BY <2>1, <2>2, NeighboursAgree DEF InList
    <2>8. ASSUME NEW e \in Element
          PROVE  LET n == dpl_get_reference_of_element(e)
                 IN  /\ dpl_get_index_of_reference(n) = dpl_get_index_of_element(e)
                     /\ n # NULL => dpl_get_element_at_reference(n) = e
                     /\ \A k \in 0 .. dpl_size - 1 :
                          items[k + 1] = e => dpl_get_index_of_reference(n) \in 0 .. k
      BY <2>1, HolderAgrees
    <2> QED
      BY ONLY <2>3, <2>4, <2>5, <2>6, <2>7, <2>8, Zenon DEF LookupsAgree
  <1> QED
    BY <1>1, SpecDInv, PTL
==============================================================================
