--------------------------- MODULE ReseedLoopProofs ---------------------------
(***************************************************************************)
(* Proofs about ReseedLoop, for every set of experiments: that the sorted  *)
(* orders of the two selections are what sorting promises, that the        *)
(* preselection represents the queue, that seeds come from the round       *)
(* before, whatever was interrupted and started again, that a summary is   *)
(* of whole rounds, and that the shape and the families the two Python     *)
(* scripts see in a testcase are what the two C programs make of it.       *)
(***************************************************************************)
EXTENDS ReseedLoop, FiniteSetTheorems, WellFoundedInduction, SequenceTheorems, TLAPS

-----------------------------------------------------------------------------
(* Least elements, and the order of tuples.                                *)

\* A set of naturals has a least element.
LEMMA LeastNatural ==
  ASSUME NEW S, S \subseteq Nat, S # {}
  PROVE  \E x \in S : \A y \in S : x <= y
<1>2. PICK x \in S : \A y \in S : <<y, x>> \notin OpToRel(<, Nat)
  BY NatLessThanWellFounded, WFMin
<1>3. \A y \in S : ~(y < x)
  BY <1>2 DEF OpToRel
<1> QED BY <1>3

LEMMA LeastOfInterval ==
  ASSUME NEW S, NEW n \in Int, S \subseteq 1..n, S # {}
  PROVE  \E x \in S : \A y \in S : x <= y
<1>1. S \subseteq Nat
  OBVIOUS
<1> QED BY <1>1, LeastNatural

LEMMA MinOfInterval ==
  ASSUME NEW S, NEW n \in Int, S \subseteq 1..n, S # {}
  PROVE  Min(S) \in S /\ \A y \in S : Min(S) <= y
BY LeastOfInterval DEF Min

Tuples(w) == [1..w -> Int]

\* below is a strict total order of tuples of the same width.
LEMMA BelowTotal ==
  ASSUME NEW w \in Nat, NEW a \in Tuples(w), NEW b \in Tuples(w)
  PROVE  /\ ~below(a, a)
         /\ below(a, b) \/ below(b, a) \/ a = b
<1>1. ~below(a, a)
  BY DEF below, Tuples
<1>2. ASSUME a # b PROVE below(a, b) \/ below(b, a)
  <2> DEFINE D == { i \in 1..w : a[i] # b[i] }
  <2>1. D # {}
    <3>2. ASSUME D = {} PROVE \A i \in 1..w : a[i] = b[i]
      BY <3>2
    <3>3. ASSUME \A i \in 1..w : a[i] = b[i] PROVE a = b
      BY <3>3 DEF Tuples
    <3> QED BY <3>2, <3>3, <1>2
  <2>2. PICK i \in D : \A j \in D : i <= j
    <3>1. D \subseteq 1..w /\ w \in Int
      OBVIOUS
    <3>2. \E i \in D : \A j \in D : i <= j
      <4> HIDE DEF D
      <4> QED BY <3>1, <2>1, LeastOfInterval
    <3> QED BY <3>2
  <2>3. \A j \in 1..(i - 1) : a[j] = b[j]
    BY <2>2
  <2>4. a[i] < b[i] \/ b[i] < a[i]
    BY <2>2 DEF Tuples
  <2> QED BY <2>2, <2>3, <2>4 DEF below, Tuples
<1> QED BY <1>1, <1>2

\* The order of tuples is transitive.
LEMMA BelowTransitive ==
  ASSUME NEW w \in Nat, NEW a \in Tuples(w), NEW b \in Tuples(w), NEW c \in Tuples(w),
         below(a, b), below(b, c)
  PROVE  below(a, c)
<1>1. PICK i \in 1..w : a[i] < b[i] /\ \A j \in 1..(i - 1) : a[j] = b[j]
  BY DEF below, Tuples
<1>2. PICK k \in 1..w : b[k] < c[k] /\ \A j \in 1..(k - 1) : b[j] = c[j]
  BY DEF below, Tuples
<1>3. CASE i < k
  <2>1. a[i] < c[i] /\ \A j \in 1..(i - 1) : a[j] = c[j]
    BY <1>1, <1>2, <1>3
  <2> QED BY <2>1 DEF below, Tuples
<1>4. CASE i = k
  <2>1. a[i] < c[i] /\ \A j \in 1..(i - 1) : a[j] = c[j]
    BY <1>1, <1>2, <1>4 DEF Tuples
  <2> QED BY <2>1 DEF below, Tuples
<1>5. CASE k < i
  <2>1. a[k] < c[k] /\ \A j \in 1..(k - 1) : a[j] = c[j]
    BY <1>1, <1>2, <1>5
  <2> QED BY <2>1 DEF below, Tuples
<1> QED BY <1>3, <1>4, <1>5

-----------------------------------------------------------------------------
(* descending sorts.                                                       *)

\* ahead is a strict total order of the indices.
LEMMA AheadOrder ==
  ASSUME NEW w \in Nat, NEW S, S \subseteq Int, NEW key \in [S -> Tuples(w)],
         NEW i \in S, NEW j \in S, NEW k \in S
  PROVE  /\ ~ahead(key, i, i)
         /\ ahead(key, i, j) \/ ahead(key, j, i) \/ i = j
         /\ ahead(key, i, j) /\ ahead(key, j, k) => ahead(key, i, k)
         /\ ahead(key, i, j) => ~below(key[i], key[j])
<1>1. /\ key[i] \in Tuples(w) /\ key[j] \in Tuples(w) /\ key[k] \in Tuples(w)
      /\ i \in Int /\ j \in Int /\ k \in Int
  OBVIOUS
<1>2. ~below(key[i], key[i])
  BY <1>1, BelowTotal
<1>3. \A x, y \in {key[i], key[j], key[k]} :
        /\ below(x, y) \/ below(y, x) \/ x = y
        /\ \A z \in {key[i], key[j], key[k]} : below(x, y) /\ below(y, z) => below(x, z)
  BY <1>1, BelowTotal, BelowTransitive
<1>4. \A x \in {key[i], key[j], key[k]} : ~below(x, x)
  BY <1>1, BelowTotal
<1>5. \A x, y \in {key[i], key[j], key[k]} : below(x, y) => ~below(y, x)
  BY <1>3, <1>4
<1>6. ~ahead(key, i, i)
  BY <1>1, <1>2 DEF ahead
<1>7. ahead(key, i, j) \/ ahead(key, j, i) \/ i = j
  BY <1>1, <1>3 DEF ahead
<1>8. ahead(key, i, j) => ~below(key[i], key[j])
  BY <1>5 DEF ahead
<1>9. ASSUME ahead(key, i, j), ahead(key, j, k) PROVE ahead(key, i, k)
  <2>1. CASE below(key[j], key[i])
    <3>1. below(key[k], key[j]) \/ key[k] = key[j]
      BY <1>3, <1>9 DEF ahead
    <3> QED BY <3>1, <2>1, <1>3 DEF ahead
  <2>2. CASE key[i] = key[j]
    <3>1. i < j
      BY <1>9, <2>2, <1>4 DEF ahead
    <3>2. CASE below(key[k], key[j])
      BY <3>2, <2>2 DEF ahead
    <3>3. CASE ~below(key[k], key[j]) /\ ~below(key[j], key[k]) /\ j < k
      BY <3>1, <3>3, <2>2, <1>1 DEF ahead
    <3> QED BY <3>2, <3>3, <1>9 DEF ahead
  <2>3. CASE below(key[i], key[j])
    BY <2>3, <1>5, <1>9 DEF ahead
  <2> QED BY <2>1, <2>2, <2>3, <1>3
<1> QED BY <1>6, <1>7, <1>8, <1>9

\* A sort key for every element of S.
Keys(w, S) == [S -> Tuples(w)]

\* The indices ahead of i.
AheadOf(key, i) == { j \in DOMAIN key : ahead(key, j, i) }

\* A sequence of all of S, each element once, none after one with a lower key.
Sorts(sorted, S, key) ==
  /\ Cardinality(S) \in Nat
  /\ sorted \in [1..Cardinality(S) -> S]
  /\ \A i \in S : \E n \in 1..Cardinality(S) : sorted[n] = i
  /\ \A l, m \in 1..Cardinality(S) : l < m =>
       sorted[l] # sorted[m] /\ ~below(key[sorted[l]], key[sorted[m]])

\* descending sorts: every index once, none before one with a greater key.
LEMMA Descending ==
  ASSUME NEW w \in Nat, NEW S, S \subseteq Int, IsFiniteSet(S), NEW key \in Keys(w, S)
  PROVE  Sorts(descending(key), S, key)
<1> DEFINE n == Cardinality(S)
           f == [ i \in S |-> Cardinality(AheadOf(key, i)) + 1 ]
<1>0. key \in [S -> Tuples(w)]
  BY DEF Keys
<1>1. n \in Nat
  BY FS_CardinalityType
<1>2. \A i \in S : /\ IsFiniteSet(AheadOf(key, i)) /\ AheadOf(key, i) \subseteq S
                   /\ Cardinality(AheadOf(key, i)) \in Nat /\ i \notin AheadOf(key, i)
  <2> TAKE i \in S
  <2>1. AheadOf(key, i) \subseteq S /\ i \notin AheadOf(key, i)
    BY <1>0, AheadOrder DEF AheadOf
  <2> QED BY <2>1, FS_Subset, FS_CardinalityType
<1>3. \A i, j \in S : ahead(key, j, i) => f[j] < f[i]
  <2> SUFFICES ASSUME NEW i \in S, NEW j \in S, ahead(key, j, i) PROVE f[j] < f[i]
    OBVIOUS
  <2> DEFINE T == AheadOf(key, j) \union {j}
  <2>1. T \subseteq AheadOf(key, i)
    <3>1. \A k \in S : ahead(key, k, j) => ahead(key, k, i)
      BY <1>0, AheadOrder
    <3> QED BY <3>1, <1>0 DEF AheadOf
  <2>2. Cardinality(T) = Cardinality(AheadOf(key, j)) + 1
    BY <1>2, FS_AddElement
  <2>3. Cardinality(T) <= Cardinality(AheadOf(key, i))
    BY <2>1, <1>2, FS_Subset
  <2> HIDE DEF T
  <2> QED BY <2>2, <2>3, <1>2
<1>4. f \in [S -> 1..n]
  <2> SUFFICES ASSUME NEW i \in S PROVE Cardinality(AheadOf(key, i)) + 1 \in 1..n
    OBVIOUS
  <2>1. AheadOf(key, i) \subseteq S \ {i}
    BY <1>2
  <2>2. IsFiniteSet(S \ {i}) /\ Cardinality(S \ {i}) = n - 1
    BY FS_RemoveElement
  <2>3. Cardinality(AheadOf(key, i)) <= n - 1
    BY <2>1, <2>2, FS_Subset
  <2> HIDE DEF n
  <2> QED BY <2>3, <1>2, <1>1
<1>5. \A i, j \in S : f[i] = f[j] => i = j
  <2> TAKE i, j \in S
  <2>1. ahead(key, i, j) \/ ahead(key, j, i) \/ i = j
    BY <1>0, AheadOrder
  <2>2. f[i] \in Int /\ f[j] \in Int
    BY <1>4
  <2> HIDE DEF f
  <2> QED BY <2>1, <2>2, <1>3
<1>6. f \in Surjection(S, 1..n)
  <2>1. f \in Injection(S, 1..n)
    BY <1>4, <1>5 DEF Injection, IsInjective
  <2>2. IsFiniteSet(1..n) /\ Cardinality(1..n) = n
    BY <1>1, FS_Interval
  <2> HIDE DEF f
  <2> QED BY <2>1, <2>2, FS_Injection
<1>7. \A m \in 1..n : descending(key)[m] \in S /\ f[descending(key)[m]] = m
  <2> TAKE m \in 1..n
  <2>1. PICK i \in S : f[i] = m
    BY <1>6 DEF Surjection
  <2>2. Cardinality({ j \in DOMAIN key : ahead(key, j, i) }) = m - 1
    <3>1. f[i] = Cardinality(AheadOf(key, i)) + 1 /\ Cardinality(AheadOf(key, i)) \in Nat
      BY <1>2
    <3> HIDE DEF f
    <3>2. Cardinality(AheadOf(key, i)) = m - 1
      BY <2>1, <3>1, <1>1
    <3> QED BY <3>2 DEF AheadOf
  <2>3. descending(key)[m]
          = CHOOSE k \in S : Cardinality({ j \in DOMAIN key : ahead(key, j, k) }) = m - 1
    BY <1>0 DEF descending
  <2>4. /\ descending(key)[m] \in S
        /\ Cardinality({ j \in DOMAIN key : ahead(key, j, descending(key)[m]) }) = m - 1
    BY <2>2, <2>3
  <2>5. f[descending(key)[m]] = Cardinality(AheadOf(key, descending(key)[m])) + 1
    BY <2>4
  <2> QED BY <2>4, <2>5, <1>1, <1>0 DEF AheadOf
<1>8. descending(key) \in [1..n -> S]
  BY <1>0, <1>7 DEF descending
<1>9. \A i \in S : descending(key)[f[i]] = i
  BY <1>4, <1>5, <1>7
<1>10. ASSUME NEW l \in 1..n, NEW m \in 1..n, l < m
       PROVE  ahead(key, descending(key)[l], descending(key)[m])
  <2> DEFINE i == descending(key)[l]
             j == descending(key)[m]
  <2>1. i \in S /\ j \in S /\ f[i] = l /\ f[j] = m
    BY <1>7
  <2> HIDE DEF f, i, j
  <2>2. ahead(key, i, j) \/ ahead(key, j, i) \/ i = j
    BY <1>0, <2>1, AheadOrder
  <2>3. ~ahead(key, j, i) /\ i # j
    BY <2>1, <1>3, <1>10, <1>1
  <2> QED BY <2>2, <2>3 DEF i, j
<1> HIDE DEF f
<1>11. \A i \in S, j \in S : ahead(key, i, j) => i # j /\ ~below(key[i], key[j])
  <2> TAKE i \in S, j \in S
  <2>1. ~ahead(key, i, i)
    BY <1>0, AheadOrder
  <2>2. ahead(key, i, j) => ~below(key[i], key[j])
    BY <1>0, AheadOrder
  <2> QED BY <2>1, <2>2
<1>12. \A i \in S : \E m \in 1..n : descending(key)[m] = i
  BY <1>4, <1>9
<1>13. \A l, m \in 1..n : l < m =>
         /\ descending(key)[l] # descending(key)[m]
         /\ ~below(key[descending(key)[l]], key[descending(key)[m]])
  BY <1>8, <1>10, <1>11
<1> QED BY <1>1, <1>8, <1>12, <1>13 DEF Sorts

-----------------------------------------------------------------------------
(* The preselection.                                                       *)

LEMMA FiniteImage ==
  ASSUME NEW S, IsFiniteSet(S), NEW f, DOMAIN f = S
  PROVE  /\ IsFiniteSet({ f[x] : x \in S })
         /\ Cardinality({ f[x] : x \in S }) \in Nat
         /\ Cardinality({ f[x] : x \in S }) <= Cardinality(S)
<1> DEFINE T == { f[x] : x \in S }
           g == [ x \in S |-> f[x] ]
<1>1. g \in Surjection(S, T)
  BY DEF Surjection
<1> HIDE DEF g, T
<1>2. IsFiniteSet(T) /\ Cardinality(T) <= Cardinality(S)
  BY <1>1, FS_Surjection
<1>3. Cardinality(T) \in Nat
  BY <1>2, FS_CardinalityType
<1> QED BY <1>2, <1>3 DEF T

\* A shape is a sequence of operations with their repetitions.
LEMMA ShapeType ==
  ASSUME NEW t \in Testcases
  PROVE  /\ Len(semantic_shape(t)) \in Nat
         /\ DOMAIN semantic_shape(t) = 1..Len(semantic_shape(t))
         /\ size(t) \in Nat
<1>1. t.records \in Seq((0..255) \X (0..255)) /\ t.tail \in 0..3
  BY DEF Testcases
<1>2. Len(t.records) \in Nat
  BY <1>1
<1> DEFINE m == IF Len(t.records) < MAX_OPS THEN Len(t.records) ELSE MAX_OPS
<1>3. m \in Nat
  BY <1>2 DEF MAX_OPS
<1>4. DOMAIN semantic_shape(t) = 1..m
  BY DEF semantic_shape
<1>5. semantic_shape(t) \in Seq({ semantic_shape(t)[i] : i \in 1..m })
  <2>1. semantic_shape(t) = [ i \in 1..m |-> semantic_shape(t)[i] ]
    BY DEF semantic_shape
  <2> HIDE DEF m
  <2> QED BY <2>1, <1>3, IsASeq
<1>6. size(t) \in Nat
  BY <1>1, <1>2 DEF size
<1> QED BY <1>5, <1>6, LenProperties

\* Ranks are four numbers, and can be compared.
LEMMA RankType ==
  ASSUME NEW t \in Testcases
  PROVE  /\ rank(t) \in Tuples(4)
         /\ rank(t)[4] = 0 - size(t)
<1> DEFINE shape == semantic_shape(t)
           n == Len(shape)
           fams == [ i \in DOMAIN shape |-> shape[i][1] \div 4 ]
           prs == [ i \in 1..(n - 1) |-> <<shape[i][1], shape[i + 1][1]>> ]
<1>1. n \in Nat /\ DOMAIN shape = 1..n /\ size(t) \in Nat
  BY ShapeType
<1>2. Cardinality(families(shape)) \in Nat
  <2>1. IsFiniteSet(DOMAIN shape)
    BY <1>1, FS_Interval
  <2>2. DOMAIN fams = DOMAIN shape /\ families(shape) = { fams[i] : i \in DOMAIN shape }
    BY DEF families
  <2> HIDE DEF fams, shape
  <2> QED BY <2>1, <2>2, FiniteImage
<1>3. Cardinality(pairs(shape)) \in Nat
  <2>1. IsFiniteSet(1..(n - 1))
    BY <1>1, FS_Interval
  <2>2. DOMAIN prs = 1..(n - 1) /\ pairs(shape) = { prs[i] : i \in 1..(n - 1) }
    BY DEF pairs
  <2> HIDE DEF prs, shape, n
  <2> QED BY <2>1, <2>2, FiniteImage
<1>4. rank(t) = <<Cardinality(families(shape)), Cardinality(pairs(shape)), n, 0 - size(t)>>
  BY DEF rank
<1> HIDE DEF shape, n
<1> QED BY <1>1, <1>2, <1>3, <1>4 DEF Tuples

\* A shorter testcase of the same shape is not ranked below a longer one.
LEMMA RankOfShorter ==
  ASSUME NEW s \in Testcases, NEW t \in Testcases, NEW k \in Testcases,
         semantic_shape(s) = semantic_shape(t), size(s) <= size(t),
         ~below(rank(k), rank(s))
  PROVE  ~below(rank(k), rank(t))
<1>1. rank(k) \in Tuples(4) /\ rank(s) \in Tuples(4) /\ rank(t) \in Tuples(4)
  BY RankType
<1>2. rank(s)[1] = rank(t)[1] /\ rank(s)[2] = rank(t)[2] /\ rank(s)[3] = rank(t)[3]
  BY DEF rank
<1>3. rank(t)[4] <= rank(s)[4]
  BY RankType, ShapeType
<1> SUFFICES ASSUME below(rank(k), rank(t)) PROVE below(rank(k), rank(s))
  OBVIOUS
<1>4. PICK i \in 1..4 : rank(k)[i] < rank(t)[i] /\ \A j \in 1..(i - 1) : rank(k)[j] = rank(t)[j]
  BY <1>1 DEF below, Tuples
<1>5. rank(k)[i] < rank(s)[i]
  BY <1>1, <1>2, <1>3, <1>4 DEF Tuples
<1>6. \A j \in 1..(i - 1) : rank(k)[j] = rank(s)[j]
  BY <1>2, <1>4
<1> QED BY <1>1, <1>5, <1>6 DEF below, Tuples

\* The representative has the shape and is the shortest of it.
LEMMA Representative ==
  ASSUME NEW queue \in Seq(Testcases), NEW i \in DOMAIN queue
  PROVE  /\ representative(queue, i) \in DOMAIN queue
         /\ semantic_shape(queue[representative(queue, i)]) = semantic_shape(queue[i])
         /\ \A k \in DOMAIN queue : semantic_shape(queue[k]) = semantic_shape(queue[i]) =>
              size(queue[representative(queue, i)]) <= size(queue[k])
<1> DEFINE alike == { j \in DOMAIN queue : semantic_shape(queue[j]) = semantic_shape(queue[i]) }
           sizes == { size(queue[j]) : j \in alike }
           shortest == { j \in alike : \A k \in alike : size(queue[j]) <= size(queue[k]) }
<1>1. DOMAIN queue = 1..Len(queue) /\ Len(queue) \in Nat /\ \A j \in DOMAIN queue : queue[j] \in Testcases
  OBVIOUS
<1>2. \A j \in DOMAIN queue : size(queue[j]) \in Nat
  BY <1>1, ShapeType
<1>3. sizes \subseteq Nat /\ sizes # {}
  BY <1>2
<1>4. PICK s \in sizes : \A y \in sizes : s <= y
  <2> HIDE DEF sizes
  <2> QED BY <1>3, LeastNatural
<1>5. shortest # {} /\ shortest \subseteq 1..Len(queue)
  BY <1>1, <1>4
<1>6. Min(shortest) \in shortest
  <2>1. Len(queue) \in Int
    BY <1>1
  <2> HIDE DEF shortest
  <2> QED BY <1>5, <2>1, MinOfInterval
<1>7. representative(queue, i) = Min(shortest)
  BY DEF representative
<1> QED BY <1>6, <1>7

\* Every shape that can be replayed has its index.
LEMMA ShapesCover ==
  ASSUME NEW queue \in Seq(Testcases), NEW o, NEW j \in DOMAIN queue,
         replayable(semantic_shape(queue[j]), o)
  PROVE  \E i \in shapes(queue, o) : semantic_shape(queue[i]) = semantic_shape(queue[j])
<1> DEFINE alike == { i \in DOMAIN queue : semantic_shape(queue[i]) = semantic_shape(queue[j]) }
<1>1. DOMAIN queue = 1..Len(queue) /\ Len(queue) \in Nat
  OBVIOUS
<1>2. alike # {} /\ alike \subseteq 1..Len(queue)
  BY <1>1
<1>3. PICK i \in alike : \A k \in alike : i <= k
  <2>1. Len(queue) \in Int
    BY <1>1
  <2> HIDE DEF alike
  <2> QED BY <1>2, <2>1, LeastOfInterval
<1>4. \A k \in 1..(i - 1) : semantic_shape(queue[k]) # semantic_shape(queue[i])
  BY <1>1, <1>3
<1> QED BY <1>3, <1>4 DEF shapes

\* The first elements of a sequence.
LEMMA AtMost ==
  ASSUME NEW T, NEW seq \in Seq(T), NEW n \in Nat
  PROVE  /\ at_most(n, seq) \in Seq(T)
         /\ Len(at_most(n, seq)) = (IF n < Len(seq) THEN n ELSE Len(seq))
         /\ \A m \in 1..Len(at_most(n, seq)) : m \in 1..Len(seq) /\ at_most(n, seq)[m] = seq[m]
<1> DEFINE c == IF n < Len(seq) THEN n ELSE Len(seq)
<1>1. c \in 0..Len(seq) /\ Len(seq) \in Nat
  OBVIOUS
<1>2. at_most(n, seq) = SubSeq(seq, 1, c)
  BY DEF at_most
<1> HIDE DEF c
<1>3. /\ SubSeq(seq, 1, c) \in Seq(T) /\ Len(SubSeq(seq, 1, c)) = c
      /\ \A m \in 1..c : SubSeq(seq, 1, c)[m] = seq[m]
  BY <1>1
<1> QED BY <1>1, <1>2, <1>3 DEF c

\* The ranking that preselect cuts: every shape once, by its representative,
\* none after one that is ranked below it.
LEMMA Ranking ==
  ASSUME NEW queue \in Seq(Testcases), NEW o,
         NEW key, key = [ i \in shapes(queue, o) |-> rank(queue[representative(queue, i)]) ]
  PROVE  Sorts(descending(key), shapes(queue, o), key)
<1> DEFINE S == shapes(queue, o)
<1>1. DOMAIN queue = 1..Len(queue) /\ Len(queue) \in Nat
  OBVIOUS
<1>2. S \subseteq 1..Len(queue)
  BY <1>1 DEF shapes
<1>3. IsFiniteSet(S) /\ S \subseteq Int
  <2>1. IsFiniteSet(1..Len(queue)) /\ 1..Len(queue) \subseteq Int
    BY <1>1, FS_Interval
  <2> HIDE DEF S
  <2> QED BY <2>1, <1>2, FS_Subset
<1>4. \A i \in S : queue[representative(queue, i)] \in Testcases
  BY <1>1, <1>2, Representative
<1>5. key \in Keys(4, S)
  BY <1>4, RankType DEF Keys
<1>6. 4 \in Nat
  OBVIOUS
<1> HIDE DEF S
<1>7. Sorts(descending(key), S, key)
  BY <1>3, <1>5, <1>6, Descending
<1> QED BY <1>7 DEF S

\* PreselectionRepresents, as a property of preselect for every queue.
LEMMA PreselectCorrect ==
  ASSUME NEW queue \in Seq(Testcases), NEW o, o.limit \in Nat
  PROVE  LET P == preselect(queue, o)
             fitting == { t \in ToSet(queue) : replayable(semantic_shape(t), o) }
         IN /\ P \in Seq(fitting) /\ Len(P) <= o.limit
            /\ \A i, j \in DOMAIN P : semantic_shape(P[i]) = semantic_shape(P[j]) => i = j
            /\ \A t \in fitting :
                 \/ \E k \in ToSet(P) : semantic_shape(k) = semantic_shape(t) /\ size(k) <= size(t)
                 \/ /\ Len(P) = o.limit
                    /\ \A k \in ToSet(P) : ~below(rank(k), rank(t))
<1> DEFINE S == shapes(queue, o)
           key == [ i \in S |-> rank(queue[representative(queue, i)]) ]
           ranked == descending(key)
           n == Cardinality(S)
           rep(i) == queue[representative(queue, i)]
           full == [ m \in DOMAIN ranked |-> rep(ranked[m]) ]
           P == preselect(queue, o)
           fitting == { t \in ToSet(queue) : replayable(semantic_shape(t), o) }
<1>1. /\ n \in Nat /\ ranked \in [1..n -> S]
      /\ \A i \in S : \E m \in 1..n : ranked[m] = i
      /\ \A l, m \in 1..n : l < m => /\ ranked[l] # ranked[m]
                                     /\ ~below(key[ranked[l]], key[ranked[m]])
  <2>1. key = [ i \in shapes(queue, o) |-> rank(queue[representative(queue, i)]) ]
    OBVIOUS
  <2> HIDE DEF key
  <2>2. Sorts(descending(key), shapes(queue, o), key)
    BY <2>1, Ranking
  <2> QED BY <2>2 DEF Sorts
<1>2. \A i \in DOMAIN queue :
        /\ rep(i) \in ToSet(queue) /\ rep(i) \in Testcases
        /\ semantic_shape(rep(i)) = semantic_shape(queue[i])
        /\ \A k \in DOMAIN queue : semantic_shape(queue[k]) = semantic_shape(queue[i]) =>
             size(rep(i)) <= size(queue[k])
  <2>1. \A i \in DOMAIN queue : queue[i] \in Testcases
    OBVIOUS
  <2> QED BY <2>1, Representative DEF ToSet
<1>3. \A i \in S : i \in DOMAIN queue /\ i \in Int /\ replayable(semantic_shape(queue[i]), o)
  BY DEF shapes
<1>4. \A i \in S : rep(i) \in fitting
  <2> TAKE i \in S
  <2>1. semantic_shape(rep(i)) = semantic_shape(queue[i]) /\ rep(i) \in ToSet(queue)
    BY <1>2, <1>3
  <2>2. replayable(semantic_shape(queue[i]), o)
    BY <1>3
  <2> HIDE DEF rep
  <2> QED BY <2>1, <2>2
<1>5. \A i, j \in S : semantic_shape(rep(i)) = semantic_shape(rep(j)) => i = j
  <2> SUFFICES ASSUME NEW i \in S, NEW j \in S,
                      semantic_shape(queue[i]) = semantic_shape(queue[j])
               PROVE  i = j
    BY <1>2, <1>3
  <2>1. /\ \A k \in 1..(i - 1) : semantic_shape(queue[k]) # semantic_shape(queue[i])
        /\ \A k \in 1..(j - 1) : semantic_shape(queue[k]) # semantic_shape(queue[j])
        /\ i \in 1..Len(queue) /\ j \in 1..Len(queue)
    BY DEF shapes
  <2> QED BY <2>1
<1>6. full \in Seq(fitting) /\ Len(full) = n
      /\ \A m \in 1..n : full[m] = rep(ranked[m])
  <2>1. \A m \in 1..n : rep(ranked[m]) \in fitting
    BY <1>1, <1>4
  <2>2. DOMAIN ranked = 1..n
    BY <1>1
  <2> HIDE DEF rep, ranked, fitting, n
  <2>3. full = [ m \in 1..n |-> rep(ranked[m]) ]
    BY <2>2
  <2> QED BY <2>1, <2>3, <1>1, IsASeq
<1>7. P = at_most(o.limit, full)
  BY DEF preselect
<1> HIDE DEF full, P, fitting, ranked, key, rep, n
<1>8. /\ P \in Seq(fitting) /\ Len(P) = (IF o.limit < n THEN o.limit ELSE n)
      /\ \A m \in 1..Len(P) : m \in 1..n /\ P[m] = rep(ranked[m])
  BY <1>6, <1>7, AtMost
<1>9. Len(P) \in Nat /\ Len(P) <= o.limit /\ DOMAIN P = 1..Len(P)
  BY <1>8, <1>1
<1>10. \A i, j \in DOMAIN P : semantic_shape(P[i]) = semantic_shape(P[j]) => i = j
  <2> SUFFICES ASSUME NEW i \in 1..Len(P), NEW j \in 1..Len(P),
                      semantic_shape(P[i]) = semantic_shape(P[j])
               PROVE  i = j
    BY <1>9
  <2>1. ranked[i] = ranked[j]
    BY <1>1, <1>5, <1>8
  <2> QED BY <2>1, <1>1, <1>8, <1>9
<1>11. ASSUME NEW t \in fitting
       PROVE  \/ \E k \in ToSet(P) : semantic_shape(k) = semantic_shape(t) /\ size(k) <= size(t)
              \/ /\ Len(P) = o.limit
                 /\ \A k \in ToSet(P) : ~below(rank(k), rank(t))
  <2>1. PICK a \in DOMAIN queue : t = queue[a] /\ replayable(semantic_shape(queue[a]), o)
    BY <1>11 DEF fitting, ToSet
  <2>2. t \in Testcases
    BY <2>1
  <2>3. PICK i \in S : semantic_shape(queue[i]) = semantic_shape(t)
    BY <2>1, ShapesCover
  <2>4. /\ semantic_shape(rep(i)) = semantic_shape(t) /\ size(rep(i)) <= size(t)
        /\ rep(i) \in Testcases
    BY <2>1, <2>3, <1>2, <1>3
  <2>5. PICK m \in 1..n : ranked[m] = i
    BY <1>1
  <2>6. CASE m <= Len(P)
    <3>1. P[m] = rep(i) /\ m \in DOMAIN P
      BY <2>5, <2>6, <1>8, <1>9
    <3> QED BY <3>1, <2>4 DEF ToSet
  <2>7. CASE Len(P) < m
    <3>1. Len(P) = o.limit
      BY <2>7, <1>8, <1>1
    <3>2. ASSUME NEW l \in DOMAIN P PROVE ~below(rank(P[l]), rank(t))
      <4>1. l \in 1..n /\ l < m /\ P[l] = rep(ranked[l]) /\ ranked[l] \in S
        BY <1>1, <1>8, <1>9, <2>7
      <4>2. ~below(key[ranked[l]], key[i])
        BY <4>1, <2>5, <1>1
      <4>3. key[ranked[l]] = rank(P[l]) /\ key[i] = rank(rep(i))
        BY <4>1 DEF key, rep
      <4>4. P[l] \in Testcases
        BY <4>1, <1>2, <1>3
      <4> QED BY <4>2, <4>3, <4>4, <2>2, <2>4, RankOfShorter
    <3> QED BY <3>1, <3>2 DEF ToSet
  <2> QED BY <2>6, <2>7, <1>9
<1> QED BY <1>8, <1>9, <1>10, <1>11 DEF P, fitting

-----------------------------------------------------------------------------
(* What is chosen is among the rows.                                       *)

\* n rows whose scores are numbers.
Scored(rows, n) ==
  DOMAIN rows = 1..n /\ \A i \in 1..n : row_score(rows[i]) \in Tuples(3)

\* by_score sorts rows by their scores.
LEMMA ByScore ==
  ASSUME NEW n \in Nat, NEW rows, Scored(rows, n), NEW S, S \subseteq 1..n
  PROVE  /\ IsFiniteSet(S)
         /\ Sorts(by_score(rows, S), S, [ i \in S |-> row_score(rows[i]) ])
<1> DEFINE key == [ i \in S |-> row_score(rows[i]) ]
<1>1. IsFiniteSet(S) /\ S \subseteq Int
  <2>1. IsFiniteSet(1..n) /\ S \in SUBSET (1..n)
    BY FS_Interval
  <2>2. IsFiniteSet(S)
    BY <2>1, FS_Subset
  <2>3. S \subseteq Int
    OBVIOUS
  <2> QED BY <2>2, <2>3
<1>2. key \in Keys(3, S) /\ 3 \in Nat
  BY DEF Keys, Scored
<1>3. by_score(rows, S) = descending(key)
  BY DEF by_score
<1> HIDE DEF key
<1>4. Sorts(descending(key), S, key)
  BY <1>1, <1>2, Descending
<1> QED BY <1>1, <1>3, <1>4 DEF key

LEMMA ByScoreSequence ==
  ASSUME NEW n \in Nat, NEW rows, Scored(rows, n), NEW S, S \subseteq 1..n
  PROVE  /\ by_score(rows, S) \in Seq(S)
         /\ S # {} => best(rows, S) \in S
<1> DEFINE sorted == by_score(rows, S)
<1>1. /\ Cardinality(S) \in Nat /\ sorted \in [1..Cardinality(S) -> S]
      /\ \A i \in S : \E m \in 1..Cardinality(S) : sorted[m] = i
  <2>1. Sorts(sorted, S, [ i \in S |-> row_score(rows[i]) ])
    BY ByScore
  <2> HIDE DEF sorted
  <2> QED BY <2>1 DEF Sorts
<1> HIDE DEF sorted
<1>2. sorted \in Seq(S)
  BY <1>1
<1>3. ASSUME NEW i \in S PROVE sorted[1] \in S
  <2>1. 1 \in 1..Cardinality(S)
    BY <1>1
  <2> QED BY <2>1, <1>1
<1> QED BY <1>2, <1>3 DEF best, sorted

\* Every strategy chooses rows that are there.
LEMMA ChooseAmongRows ==
  ASSUME NEW n \in Nat, NEW rows, Scored(rows, n), NEW queue, NEW o, o.top_k \in Nat
  PROVE  choose(rows, queue, o) \in Seq(1..n)
<1> DEFINE able == eligible(rows, o)
           bucket(i) == { j \in able : family_signature(queue[j]) = family_signature(queue[i]) }
           firsts == { i \in able : i = Min(bucket(i)) }
           key == [ i \in firsts |-> row_score(rows[best(rows, bucket(i))]) ]
           order == descending(key)
           bests == [ m \in DOMAIN order |-> best(rows, bucket(order[m])) ]
           remaining == by_score(rows, able \ ToSet(bests))
<1>1. able \subseteq 1..n
  BY DEF eligible, Scored
<1>2. \A i \in able : bucket(i) \subseteq 1..n /\ i \in bucket(i)
  BY <1>1
<1>3. \A i \in able : best(rows, bucket(i)) \in 1..n
  <2> TAKE i \in able
  <2>1. bucket(i) \subseteq 1..n /\ bucket(i) # {}
    BY <1>2
  <2> HIDE DEF bucket
  <2> QED BY <2>1, ByScoreSequence
<1>4. firsts \subseteq 1..n
  BY <1>1
<1>5. key \in Keys(3, firsts) /\ 3 \in Nat
  BY <1>3 DEF Keys, Scored
<1>6. IsFiniteSet(firsts) /\ firsts \subseteq Int
  <2>1. IsFiniteSet(1..n)
    BY FS_Interval
  <2> HIDE DEF firsts
  <2>2. IsFiniteSet(firsts)
    BY <2>1, <1>4, FS_Subset
  <2>3. firsts \subseteq Int
    BY <1>4
  <2> QED BY <2>2, <2>3
<1>7. Cardinality(firsts) \in Nat /\ order \in [1..Cardinality(firsts) -> firsts]
  <2> HIDE DEF key, firsts
  <2>1. Sorts(descending(key), firsts, key)
    BY <1>5, <1>6, Descending
  <2> QED BY <2>1 DEF Sorts
<1>8. bests \in Seq(1..n)
  <2>1. \A m \in 1..Cardinality(firsts) : order[m] \in able
    BY <1>7
  <2>2. DOMAIN order = 1..Cardinality(firsts)
    BY <1>7
  <2> HIDE DEF order, able, bucket, firsts
  <2>3. bests = [ m \in 1..Cardinality(firsts) |-> best(rows, bucket(order[m])) ]
    BY <2>2
  <2> QED BY <2>1, <2>3, <1>3, <1>7, IsASeq
<1>9. remaining \in Seq(1..n)
  <2>1. able \ ToSet(bests) \subseteq 1..n
    BY <1>1
  <2>2. remaining \in Seq(able \ ToSet(bests))
    BY <2>1, ByScoreSequence
  <2> HIDE DEF remaining, bests, able
  <2> QED BY <2>1, <2>2
<1>10. by_score(rows, able) \in Seq(1..n)
  <2> DEFINE sorted == by_score(rows, able)
  <2>1. sorted \in Seq(able)
    BY <1>1, ByScoreSequence
  <2> HIDE DEF able, sorted
  <2>2. sorted \in Seq(1..n)
    <3>1. \A i \in 1..Len(sorted) : sorted[i] \in 1..n
      <4>1. \A i \in 1..Len(sorted) : sorted[i] \in able
        BY <2>1
      <4> QED BY <4>1, <1>1, Zenon
    <3>2. Len(sorted) \in Nat /\ sorted = [ i \in 1..Len(sorted) |-> sorted[i] ]
      BY <2>1
    <3> QED BY <3>1, <3>2, IsASeq
  <2> QED BY <2>2 DEF sorted
<1>11. choose_diverse(rows, queue, o)
         = IF Len(bests) >= o.top_k
             THEN at_most(IF o.top_k = 0 THEN 1 ELSE o.top_k, bests)
             ELSE bests \o at_most(o.top_k - Len(bests), remaining)
  BY DEF choose_diverse
<1> HIDE DEF bests, remaining, able
<1>12. Len(bests) \in Nat
  BY <1>8
<1>13. choose_diverse(rows, queue, o) \in Seq(1..n)
  <2>1. CASE Len(bests) >= o.top_k
    <3> DEFINE few == IF o.top_k = 0 THEN 1 ELSE o.top_k
    <3>1. few \in Nat
      OBVIOUS
    <3>2. choose_diverse(rows, queue, o) = at_most(few, bests)
      BY <2>1, <1>11
    <3> HIDE DEF few
    <3> QED BY <3>1, <3>2, <1>8, AtMost
  <2>2. CASE ~(Len(bests) >= o.top_k)
    <3>1. o.top_k - Len(bests) \in Nat
      BY <2>2, <1>12
    <3>2. at_most(o.top_k - Len(bests), remaining) \in Seq(1..n)
      BY <3>1, <1>9, AtMost
    <3>3. bests \o at_most(o.top_k - Len(bests), remaining) \in Seq(1..n)
      BY <3>2, <1>8, ConcatProperties
    <3> QED BY <3>3, <2>2, <1>11
  <2> QED BY <2>1, <2>2
<1>14. at_most(o.top_k, by_score(rows, able)) \in Seq(1..n)
  BY <1>10, AtMost
<1> QED BY <1>13, <1>14 DEF choose, able

\* ToSet of a sequence without repetition has as many elements as it is long.
LEMMA InjectiveImage ==
  ASSUME NEW n \in Nat, NEW f, DOMAIN f = 1..n,
         \A l, m \in 1..n : f[l] = f[m] => l = m
  PROVE  /\ IsFiniteSet({ f[m] : m \in 1..n })
         /\ Cardinality({ f[m] : m \in 1..n }) = n
         /\ Cardinality(ToSet(f)) = n
<1> DEFINE T == { f[m] : m \in 1..n }
           g == [ m \in 1..n |-> f[m] ]
<1>1. g \in [1..n -> T] /\ \A t \in T : \E m \in 1..n : g[m] = t
  OBVIOUS
<1>2. \A l, m \in 1..n : g[l] = g[m] => l = m
  OBVIOUS
<1>3. g \in Bijection(1..n, T)
  <2> HIDE DEF g, T
  <2> QED BY <1>1, <1>2 DEF Bijection, Injection, Surjection, IsInjective
<1>4. ExistsBijection(1..n, T)
  BY <1>3 DEF ExistsBijection
<1>5. IsFiniteSet(1..n) /\ Cardinality(1..n) = n
  BY FS_Interval
<1> HIDE DEF T, g
<1>6. IsFiniteSet(T) /\ Cardinality(T) = n
  BY <1>4, <1>5, FS_Bijection
<1>7. T = ToSet(f)
  BY DEF ToSet, T
<1> QED BY <1>6, <1>7 DEF T

LEMMA NotBelowTransitive ==
  ASSUME NEW w \in Nat, NEW a \in Tuples(w), NEW b \in Tuples(w), NEW c \in Tuples(w),
         ~below(a, b), ~below(b, c)
  PROVE  ~below(a, c)
<1> SUFFICES ASSUME below(a, c) PROVE FALSE
  OBVIOUS
<1>1. below(b, a) \/ a = b
  BY BelowTotal
<1>2. below(b, c)
  BY <1>1, BelowTransitive
<1> QED BY <1>2

\* The best row of a bucket is of it, and no row of it is better.
LEMMA BestOfBucket ==
  ASSUME NEW n \in Nat, NEW rows, Scored(rows, n), NEW S, S \subseteq 1..n, S # {}
  PROVE  /\ best(rows, S) \in S
         /\ \A i \in S : ~below(row_score(rows[best(rows, S)]), row_score(rows[i]))
<1> DEFINE sorted == by_score(rows, S)
           key == [ i \in S |-> row_score(rows[i]) ]
<1>1. Sorts(sorted, S, key)
  BY ByScore
<1>2. best(rows, S) = sorted[1]
  BY DEF best
<1>3. \A i \in S : key[i] = row_score(rows[i]) /\ key[i] \in Tuples(3)
  BY DEF Scored
<1> HIDE DEF sorted, key
<1>4. /\ Cardinality(S) \in Nat /\ sorted \in [1..Cardinality(S) -> S]
      /\ \A i \in S : \E m \in 1..Cardinality(S) : sorted[m] = i
      /\ \A l, m \in 1..Cardinality(S) : l < m => ~below(key[sorted[l]], key[sorted[m]])
  BY <1>1 DEF Sorts
<1>5. 1 \in 1..Cardinality(S) /\ sorted[1] \in S
  <2>1. PICK i : i \in S
    OBVIOUS
  <2>2. PICK m \in 1..Cardinality(S) : sorted[m] = i
    BY <2>1, <1>4
  <2>3. 1 \in 1..Cardinality(S)
    BY <2>2, <1>4
  <2> QED BY <2>3, <1>4
<1>6. ASSUME NEW i \in S PROVE ~below(key[sorted[1]], key[i])
  <2>1. PICK m \in 1..Cardinality(S) : sorted[m] = i
    BY <1>4
  <2>2. CASE m = 1
    <3>1. 3 \in Nat
      OBVIOUS
    <3> QED BY <2>1, <2>2, <3>1, <1>3, BelowTotal
  <2>3. CASE 1 < m
    BY <2>1, <2>3, <1>4, <1>5
  <2> QED BY <2>2, <2>3, <1>4
<1> QED BY <1>2, <1>3, <1>5, <1>6

\* One row of each family among those of able: its best, and the families with
\* the better ones first.
Leads(leaders, able, rows, queue) ==
  /\ leaders \in Seq(able)
  /\ \A i \in able : \E m \in DOMAIN leaders :
       family_signature(queue[leaders[m]]) = family_signature(queue[i])
  /\ \A l, m \in DOMAIN leaders :
       family_signature(queue[leaders[l]]) = family_signature(queue[leaders[m]]) => l = m
  /\ \A m \in DOMAIN leaders, i \in able :
       family_signature(queue[i]) = family_signature(queue[leaders[m]]) =>
         ~below(row_score(rows[leaders[m]]), row_score(rows[i]))
  /\ \A l, m \in DOMAIN leaders :
       l < m => ~below(row_score(rows[leaders[l]]), row_score(rows[leaders[m]]))

\* Leaders first, then the best of the others.
Chooses(chosen, leaders, able, rows, top_k) ==
  chosen = IF Len(leaders) >= top_k THEN at_most(IF top_k = 0 THEN 1 ELSE top_k, leaders)
           ELSE leaders \o at_most(top_k - Len(leaders), by_score(rows, able \ ToSet(leaders)))

\* What choose_diverse chooses.
LEMMA DiverseLeads ==
  ASSUME NEW n \in Nat, NEW rows, Scored(rows, n), NEW queue, NEW o, o.top_k \in Nat
  PROVE  \E leaders \in Seq(eligible(rows, o)) :
           /\ Leads(leaders, eligible(rows, o), rows, queue)
           /\ Chooses(choose_diverse(rows, queue, o), leaders, eligible(rows, o), rows, o.top_k)
<1> DEFINE able == eligible(rows, o)
           family(i) == family_signature(queue[i])
           bucket(i) == { j \in able : family(j) = family(i) }
           firsts == { i \in able : i = Min(bucket(i)) }
           key == [ i \in firsts |-> row_score(rows[best(rows, bucket(i))]) ]
           order == descending(key)
           k == Cardinality(firsts)
           bests == [ m \in DOMAIN order |-> best(rows, bucket(order[m])) ]
<1>1. able \subseteq 1..n
  BY DEF eligible, Scored
<1>2. \A i \in able : bucket(i) \subseteq 1..n /\ bucket(i) # {}
  BY <1>1
<1>3. \A i \in able : /\ best(rows, bucket(i)) \in bucket(i)
                      /\ \A j \in bucket(i) :
                           ~below(row_score(rows[best(rows, bucket(i))]), row_score(rows[j]))
  <2> TAKE i \in able
  <2>1. bucket(i) \subseteq 1..n /\ bucket(i) # {}
    BY <1>2
  <2> HIDE DEF bucket
  <2> QED BY <2>1, BestOfBucket
<1>4. \A i \in able : best(rows, bucket(i)) \in able /\ family(best(rows, bucket(i))) = family(i)
  BY <1>3
<1>5. Sorts(order, firsts, key)
  <2>1. key \in Keys(3, firsts) /\ 3 \in Nat
    BY <1>1, <1>4 DEF Keys, Scored
  <2>2. IsFiniteSet(1..n) /\ 1..n \subseteq Int
    BY FS_Interval
  <2>4. firsts \subseteq able
    OBVIOUS
  <2> HIDE DEF key, firsts, able
  <2>5. firsts \subseteq 1..n
    BY <2>4, <1>1
  <2>3. IsFiniteSet(firsts)
    BY <2>2, <2>5, FS_Subset
  <2> QED BY <2>1, <2>2, <2>3, <2>5, Descending
<1>6. /\ k \in Nat /\ order \in [1..k -> firsts]
      /\ \A i \in firsts : \E m \in 1..k : order[m] = i
      /\ \A l, m \in 1..k : l < m =>
           order[l] # order[m] /\ ~below(key[order[l]], key[order[m]])
  <2> HIDE DEF key, firsts, order
  <2> QED BY <1>5 DEF Sorts
\* A first is determined by its family.
<1>7. \A i, j \in firsts : family(i) = family(j) => i = j
  <2> SUFFICES ASSUME NEW i \in firsts, NEW j \in firsts, family(i) = family(j) PROVE i = j
    OBVIOUS
  <2>1. bucket(i) = bucket(j)
    OBVIOUS
  <2>2. i = Min(bucket(i)) /\ j = Min(bucket(j))
    OBVIOUS
  <2> HIDE DEF bucket
  <2> QED BY <2>1, <2>2
<1>8. \A i \in able : \E j \in firsts : family(j) = family(i)
  <2> TAKE i \in able
  <2> DEFINE j == Min(bucket(i))
  <2>1. j \in bucket(i)
    <3>1. bucket(i) \subseteq 1..n /\ bucket(i) # {} /\ n \in Int
      BY <1>2
    <3> HIDE DEF bucket
    <3> QED BY <3>1, MinOfInterval
  <2>2. bucket(j) = bucket(i) /\ family(j) = family(i) /\ j \in able
    <3> HIDE DEF j
    <3> QED BY <2>1
  <2>3. j = Min(bucket(j))
    <3> HIDE DEF bucket
    <3> QED BY <2>2
  <2> HIDE DEF j
  <2> QED BY <2>2, <2>3
<1>9. \A i \in firsts : i \in able /\ key[i] = row_score(rows[best(rows, bucket(i))])
  OBVIOUS
<1>10. \A m \in 1..k : order[m] \in firsts /\ order[m] \in able
  BY <1>6, <1>9
<1>11. DOMAIN bests = 1..k /\ \A m \in 1..k : bests[m] = best(rows, bucket(order[m]))
  BY <1>6
<1>12. choose_diverse(rows, queue, o)
         = IF Len(bests) >= o.top_k
             THEN at_most(IF o.top_k = 0 THEN 1 ELSE o.top_k, bests)
             ELSE bests \o at_most(o.top_k - Len(bests), by_score(rows, able \ ToSet(bests)))
  BY DEF choose_diverse
<1>13. bests = [ m \in 1..k |-> bests[m] ]
  BY <1>11
<1> HIDE DEF bests, order, key, firsts, k
<1>14. \A m \in 1..k : /\ bests[m] \in able /\ family(bests[m]) = family(order[m])
                       /\ row_score(rows[bests[m]]) = key[order[m]]
  <2> TAKE m \in 1..k
  <2>1. order[m] \in able /\ bests[m] = best(rows, bucket(order[m]))
    BY <1>10, <1>11
  <2>2. bests[m] \in able /\ family(bests[m]) = family(order[m])
    BY <2>1, <1>4
  <2>3. row_score(rows[bests[m]]) = key[order[m]]
    BY <2>1, <1>9, <1>10
  <2> QED BY <2>2, <2>3
<1>15. bests \in Seq(able)
  <2>1. \A m \in 1..k : bests[m] \in able
    BY <1>14
  <2> HIDE DEF able, family, bucket
  <2> QED BY <2>1, <1>6, <1>13, IsASeq
<1>16. \A i \in able : \E m \in 1..k : family(bests[m]) = family(i)
  BY <1>6, <1>8, <1>14
<1>17. \A l, m \in 1..k : family(bests[l]) = family(bests[m]) => l = m
  <2> SUFFICES ASSUME NEW l \in 1..k, NEW m \in 1..k, family(bests[l]) = family(bests[m])
               PROVE  l = m
    OBVIOUS
  <2>1. order[l] = order[m]
    BY <1>7, <1>10, <1>14
  <2> QED BY <2>1, <1>6
<1>18. \A m \in 1..k, i \in able : family(i) = family(bests[m]) =>
         ~below(row_score(rows[bests[m]]), row_score(rows[i]))
  <2> SUFFICES ASSUME NEW m \in 1..k, NEW i \in able, family(i) = family(bests[m])
               PROVE  ~below(row_score(rows[bests[m]]), row_score(rows[i]))
    OBVIOUS
  <2>1. i \in bucket(order[m])
    BY <1>14
  <2> QED BY <2>1, <1>3, <1>10, <1>11
<1>19. \A l, m \in 1..k : l < m =>
         ~below(row_score(rows[bests[l]]), row_score(rows[bests[m]]))
  BY <1>6, <1>14
<1>20. Leads(bests, able, rows, queue)
  BY <1>11, <1>15, <1>16, <1>17, <1>18, <1>19 DEF Leads
<1>21. Chooses(choose_diverse(rows, queue, o), bests, able, rows, o.top_k)
  BY <1>12 DEF Chooses
<1> QED BY <1>15, <1>20, <1>21

LEMMA ElementsOfSeq ==
  ASSUME NEW T, NEW s \in Seq(T)
  PROVE  /\ Len(s) \in Nat /\ DOMAIN s = 1..Len(s) /\ ToSet(s) \subseteq T
         /\ \A x \in ToSet(s) : \E m \in 1..Len(s) : s[m] = x
         /\ \A m \in 1..Len(s) : s[m] \in ToSet(s)
BY DEF ToSet

\* Inputs of different families only, none of them left out for a worse one.
FirstOfEach(chosen, able, rows, queue, top_k) ==
  /\ ToSet(chosen) \subseteq able /\ Len(chosen) = top_k
  /\ Cardinality(ToSet(chosen)) = top_k
  /\ Cardinality({ family_signature(queue[i]) : i \in ToSet(chosen) }) = top_k
  /\ \A i \in ToSet(chosen), j \in able \ ToSet(chosen) :
       (\/ family_signature(queue[i]) = family_signature(queue[j])
        \/ family_signature(queue[j]) \notin
             { family_signature(queue[x]) : x \in ToSet(chosen) }) =>
         ~below(row_score(rows[i]), row_score(rows[j]))

\* When there is a family for every seed that may be chosen, each comes from
\* another one.
LEMMA FamiliesFirst ==
  ASSUME NEW n \in Nat, NEW rows, Scored(rows, n), NEW queue, NEW able, able \subseteq 1..n,
         NEW leaders \in Seq(able), Leads(leaders, able, rows, queue),
         NEW top_k \in Nat \ {0}, Len(leaders) >= top_k
  PROVE  FirstOfEach(at_most(top_k, leaders), able, rows, queue, top_k)
<1> SUFFICES ASSUME NEW chosen, chosen = at_most(top_k, leaders)
             PROVE  FirstOfEach(chosen, able, rows, queue, top_k)
  OBVIOUS
<1> DEFINE family(i) == family_signature(queue[i])
           score_of(i) == row_score(rows[i])
           c == Len(leaders)
           fams == [ m \in 1..top_k |-> family(leaders[m]) ]
<1>1. /\ c \in Nat /\ DOMAIN leaders = 1..c
      /\ \A m \in 1..c : leaders[m] \in able
      /\ \A i \in able : \E m \in 1..c : family(leaders[m]) = family(i)
      /\ \A l, m \in 1..c : family(leaders[l]) = family(leaders[m]) => l = m
      /\ \A m \in 1..c, i \in able : family(i) = family(leaders[m]) =>
           ~below(score_of(leaders[m]), score_of(i))
      /\ \A l, m \in 1..c : l < m => ~below(score_of(leaders[l]), score_of(leaders[m]))
  BY DEF Leads
<1>2. chosen \in Seq(able) /\ Len(chosen) = top_k
      /\ \A m \in 1..top_k : m \in 1..c /\ chosen[m] = leaders[m]
  BY <1>1, AtMost
<1>3. /\ DOMAIN chosen = 1..top_k /\ ToSet(chosen) \subseteq able
      /\ ToSet(chosen) = { chosen[m] : m \in 1..top_k }
  BY <1>2, ElementsOfSeq DEF ToSet
<1>4. \A i \in able : score_of(i) \in Tuples(3)
  BY DEF Scored
<1> HIDE DEF family, score_of, c
<1>5. Cardinality(ToSet(chosen)) = top_k
  <2>1. \A l, m \in 1..top_k : chosen[l] = chosen[m] => l = m
    BY <1>1, <1>2
  <2>2. top_k \in Nat
    OBVIOUS
  <2> QED BY <2>1, <2>2, <1>3, InjectiveImage
<1>6. Cardinality({ family(i) : i \in ToSet(chosen) }) = top_k
  <2>1. \A l, m \in 1..top_k : fams[l] = fams[m] => l = m
    BY <1>1, <1>2
  <2>2. { family(i) : i \in ToSet(chosen) } = { fams[m] : m \in 1..top_k }
    BY <1>2, <1>3
  <2>3. DOMAIN fams = 1..top_k
    OBVIOUS
  <2> HIDE DEF fams
  <2>4. Cardinality({ fams[m] : m \in 1..top_k }) = top_k
    BY <2>1, <2>3, InjectiveImage
  <2> QED BY <2>2, <2>4
<1>7. ASSUME NEW i \in ToSet(chosen), NEW j \in able \ ToSet(chosen),
             family(i) = family(j) \/ family(j) \notin { family(x) : x \in ToSet(chosen) }
      PROVE  ~below(score_of(i), score_of(j))
  <2>1. PICK m \in 1..top_k : i = leaders[m] /\ m \in 1..c
    BY <1>2, <1>3
  <2>2. CASE family(i) = family(j)
    BY <2>1, <2>2, <1>1
  <2>3. CASE family(j) \notin { family(x) : x \in ToSet(chosen) }
    <3>1. PICK l \in 1..c : family(leaders[l]) = family(j)
      BY <1>1
    <3>2. ~(l \in 1..top_k)
      BY <3>1, <2>3, <1>2, <1>3
    <3>3. m < l
      BY <3>2, <1>1
    <3>4. ~below(score_of(leaders[m]), score_of(leaders[l]))
      BY <3>3, <2>1, <1>1
    <3>5. ~below(score_of(leaders[l]), score_of(j))
      BY <3>1, <1>1
    <3>6. /\ score_of(leaders[m]) \in Tuples(3) /\ score_of(leaders[l]) \in Tuples(3)
          /\ score_of(j) \in Tuples(3) /\ 3 \in Nat
      BY <2>1, <1>1, <1>4
    <3> QED BY <2>1, <3>4, <3>5, <3>6, NotBelowTransitive
  <2> QED BY <1>7, <2>2, <2>3
<1> QED BY <1>2, <1>3, <1>5, <1>6, <1>7 DEF family, score_of, FirstOfEach

\* The leaders and the best of the others, as many as there is room for.
FillsRoom(chosen, leaders, able, rows, top_k) ==
  /\ ToSet(leaders) \subseteq ToSet(chosen) /\ ToSet(chosen) \subseteq able
  /\ Len(chosen) = (IF top_k < Cardinality(able) THEN top_k ELSE Cardinality(able))
  /\ Cardinality(ToSet(chosen)) = Len(chosen)
  /\ \A i \in ToSet(chosen) \ ToSet(leaders), j \in able \ ToSet(chosen) :
       ~below(row_score(rows[i]), row_score(rows[j]))

\* When there is more room than families, the best of the others fill it.
LEMMA RoomFilled ==
  ASSUME NEW n \in Nat, NEW rows, Scored(rows, n), NEW queue, NEW able, able \subseteq 1..n,
         NEW leaders \in Seq(able), Leads(leaders, able, rows, queue),
         NEW top_k \in Nat, Len(leaders) < top_k
  PROVE  FillsRoom(leaders \o at_most(top_k - Len(leaders), by_score(rows, able \ ToSet(leaders))),
                   leaders, able, rows, top_k)
<1> SUFFICES ASSUME NEW chosen,
                    chosen = leaders \o at_most(top_k - Len(leaders),
                                                by_score(rows, able \ ToSet(leaders)))
             PROVE  FillsRoom(chosen, leaders, able, rows, top_k)
  OBVIOUS
<1> DEFINE c == Len(leaders)
           L == ToSet(leaders)
           R == able \ L
           k == Cardinality(R)
           sorted == by_score(rows, R)
           some == at_most(top_k - c, sorted)
           key == [ i \in R |-> row_score(rows[i]) ]
<1>1. c \in Nat /\ DOMAIN leaders = 1..c /\ L \subseteq able /\ L = { leaders[m] : m \in 1..c }
      /\ \A m \in 1..c : leaders[m] \in L
  BY ElementsOfSeq DEF ToSet
<1>2. \A l, m \in 1..c : leaders[l] = leaders[m] => l = m
  BY <1>1 DEF Leads
<1>3. IsFiniteSet(L) /\ Cardinality(L) = c
  <2> HIDE DEF c, L
  <2>1. /\ IsFiniteSet({ leaders[m] : m \in 1..c })
        /\ Cardinality({ leaders[m] : m \in 1..c }) = c
    BY <1>1, <1>2, InjectiveImage
  <2> QED BY <2>1, <1>1
<1>4. IsFiniteSet(able) /\ Cardinality(able) \in Nat
  <2>1. IsFiniteSet(1..n)
    BY FS_Interval
  <2> QED BY <2>1, FS_Subset, FS_CardinalityType
<1>5. R \subseteq able /\ R \subseteq 1..n /\ L \union R = able /\ L \intersect R = {}
  BY <1>1
<1>6. IsFiniteSet(R) /\ k \in Nat
  <2> HIDE DEF R
  <2> QED BY <1>4, <1>5, FS_Subset, FS_CardinalityType
<1>7. Cardinality(able) = c + k
  <2> HIDE DEF L, R, c
  <2>1. Cardinality(L \union R) = Cardinality(L) + Cardinality(R) - Cardinality(L \intersect R)
    BY <1>3, <1>6, FS_Union
  <2>2. Cardinality(L \intersect R) = 0
    BY <1>5, FS_EmptySet
  <2>3. Cardinality(able) = Cardinality(L) + Cardinality(R) - Cardinality(L \intersect R)
    BY <2>1, <1>5
  <2> QED BY <2>2, <2>3, <1>1, <1>3, <1>6
<1>8. Sorts(sorted, R, key)
  <2> HIDE DEF R
  <2> QED BY <1>5, ByScore
<1>9. chosen = leaders \o some
  OBVIOUS
<1>10. \A i \in R : key[i] = row_score(rows[i])
  OBVIOUS
<1> HIDE DEF c, L, R, sorted, some, key
<1>11. /\ sorted \in [1..k -> R]
       /\ \A i \in R : \E m \in 1..k : sorted[m] = i
       /\ \A l, m \in 1..k : l < m => sorted[l] # sorted[m] /\ ~below(key[sorted[l]], key[sorted[m]])
  BY <1>8 DEF Sorts
<1> HIDE DEF k
<1>12. sorted \in Seq(R) /\ Len(sorted) = k
  BY <1>6, <1>11
<1> DEFINE room == IF top_k - c < k THEN top_k - c ELSE k
<1>13. /\ some \in Seq(R) /\ Len(some) = room /\ top_k - c \in Nat
       /\ room \in Nat /\ room <= k
       /\ \A m \in 1..room : m \in 1..k /\ some[m] = sorted[m]
  <2>1. top_k - c \in Nat
    BY <1>1 DEF c
  <2>2. /\ some \in Seq(R) /\ Len(some) = (IF top_k - c < Len(sorted) THEN top_k - c ELSE Len(sorted))
        /\ \A m \in 1..Len(some) : m \in 1..Len(sorted) /\ some[m] = sorted[m]
    <3> DEFINE q == top_k - c
    <3>1. q \in Nat /\ some = at_most(q, sorted)
      BY <2>1 DEF some
    <3> HIDE DEF q
    <3>2. /\ some \in Seq(R) /\ Len(some) = (IF q < Len(sorted) THEN q ELSE Len(sorted))
          /\ \A m \in 1..Len(some) : m \in 1..Len(sorted) /\ some[m] = sorted[m]
      BY <3>1, <1>12, AtMost
    <3> QED BY <3>2 DEF q
  <2>3. Len(some) = room
    BY <2>2, <1>12
  <2>4. room \in Nat /\ room <= k
    BY <2>1, <1>6
  <2> HIDE DEF room
  <2> QED BY <2>1, <2>2, <2>3, <2>4, <1>12
<1>14. room = top_k - c \/ room = k
  OBVIOUS
<1>15. (IF top_k < Cardinality(able) THEN top_k ELSE Cardinality(able)) = c + room
  BY <1>1, <1>6, <1>7, <1>13
<1> HIDE DEF room
<1>16. /\ DOMAIN chosen = 1..(c + room) /\ Len(chosen) = c + room
       /\ \A m \in 1..(c + room) : chosen[m] = IF m <= c THEN leaders[m] ELSE some[m - c]
  <2>1. leaders \in Seq(able) /\ some \in Seq(able)
    BY <1>5, <1>13
  <2>2. leaders \o some \in Seq(able)
    BY <2>1, ConcatProperties
  <2>3. Len(leaders \o some) = c + room
    BY <2>1, <1>13, ConcatProperties DEF c
  <2>4. \A m \in 1..(c + room) : (leaders \o some)[m] = IF m <= c THEN leaders[m] ELSE some[m - c]
    BY <2>1, <1>13, ConcatProperties DEF c
  <2>5. DOMAIN (leaders \o some) = 1..(c + room)
    BY <2>2, <2>3, LenProperties
  <2> QED BY <2>3, <2>4, <2>5, <1>9
<1>17. \A m \in 1..c : m \in 1..(c + room) /\ chosen[m] = leaders[m]
  BY <1>1, <1>13, <1>16
<1>18. \A m \in 1..room : c + m \in 1..(c + room) /\ chosen[c + m] = sorted[m] /\ sorted[m] \in R
  <2> TAKE m \in 1..room
  <2>1. c + m \in 1..(c + room) /\ ~(c + m <= c) /\ (c + m) - c = m
    BY <1>1, <1>13
  <2>2. chosen[c + m] = some[m]
    BY <2>1, <1>16
  <2>3. some[m] = sorted[m] /\ m \in 1..k
    BY <1>13
  <2> QED BY <2>1, <2>2, <2>3, <1>11
<1>19. \A m \in 1..(c + room) : m \in 1..c \/ \E l \in 1..room : m = c + l
  <2> TAKE m \in 1..(c + room)
  <2>1. CASE m <= c
    BY <2>1
  <2>2. CASE c < m
    <3>1. m - c \in 1..room /\ m = c + (m - c)
      BY <2>2, <1>1, <1>13
    <3> QED BY <3>1
  <2> QED BY <2>1, <2>2, <1>1
<1>20. ToSet(chosen) = { chosen[m] : m \in 1..(c + room) }
  BY <1>16 DEF ToSet
<1>21. L \subseteq ToSet(chosen)
  BY <1>1, <1>17, <1>20
<1>22. \A i \in ToSet(chosen) : i \in L \/ \E m \in 1..room : i = sorted[m]
  <2> TAKE i \in ToSet(chosen)
  <2>1. PICK x \in 1..(c + room) : i = chosen[x]
    BY <1>20
  <2>2. CASE x \in 1..c
    BY <2>1, <2>2, <1>1, <1>17
  <2>3. CASE \E l \in 1..room : x = c + l
    BY <2>1, <2>3, <1>18
  <2> QED BY <2>2, <2>3, <1>19
<1>23. ToSet(chosen) \subseteq able
  <2> SUFFICES ASSUME NEW i \in ToSet(chosen) PROVE i \in able
    OBVIOUS
  <2>1. CASE i \in L
    BY <2>1, <1>5
  <2>2. CASE \E m \in 1..room : i = sorted[m]
    BY <2>2, <1>5, <1>18
  <2> QED BY <2>1, <2>2, <1>22
<1>24. Cardinality(ToSet(chosen)) = c + room
  <2>1. ASSUME NEW x \in 1..(c + room), NEW y \in 1..(c + room), chosen[x] = chosen[y]
        PROVE  x = y
    <3>1. CASE x \in 1..c /\ y \in 1..c
      BY <2>1, <3>1, <1>2, <1>17
    <3>2. CASE x \in 1..c /\ \E l \in 1..room : y = c + l
      BY <2>1, <3>2, <1>1, <1>5, <1>17, <1>18
    <3>3. CASE y \in 1..c /\ \E l \in 1..room : x = c + l
      BY <2>1, <3>3, <1>1, <1>5, <1>17, <1>18
    <3>4. CASE (\E l \in 1..room : x = c + l) /\ (\E l \in 1..room : y = c + l)
      <4>1. PICK l \in 1..room : x = c + l
        BY <3>4
      <4>2. PICK m \in 1..room : y = c + m
        BY <3>4
      <4>3. sorted[l] = sorted[m]
        BY <2>1, <4>1, <4>2, <1>18
      <4>4. l = m
        BY <4>3, <1>11, <1>13
      <4> QED BY <4>1, <4>2, <4>4
    <3> QED BY <3>1, <3>2, <3>3, <3>4, <1>19
  <2>2. c + room \in Nat
    BY <1>1, <1>13
  <2> QED BY <2>1, <2>2, <1>16, InjectiveImage
<1>25. ASSUME NEW i \in ToSet(chosen) \ L, NEW j \in able \ ToSet(chosen)
       PROVE  ~below(row_score(rows[i]), row_score(rows[j]))
  <2>1. PICK l \in 1..room : i = sorted[l]
    BY <1>22
  <2>2. j \in R
    BY <1>5, <1>21
  <2>3. PICK m \in 1..k : j = sorted[m]
    BY <2>2, <1>11
  <2>4. ~(m \in 1..room)
    BY <2>3, <1>18, <1>20
  <2>5. l \in 1..k /\ l < m
    BY <2>4, <1>6, <1>13
  <2>6. ~below(key[i], key[j])
    BY <2>1, <2>3, <2>5, <1>11
  <2>7. i \in R
    BY <2>1, <1>18
  <2> QED BY <2>2, <2>6, <2>7, <1>10
<1> QED BY <1>15, <1>16, <1>21, <1>23, <1>24, <1>25 DEF L, FillsRoom

CountsFamilies(able, leaders, queue) ==
  /\ Cardinality({ family_signature(queue[i]) : i \in able }) = Len(leaders)
  /\ Cardinality(able) \in Nat /\ Len(leaders) \in Nat /\ Len(leaders) <= Cardinality(able)

\* There are as many families as leaders, and no more leaders than rows.
LEMMA LeadersCount ==
  ASSUME NEW n \in Nat, NEW rows, NEW queue, NEW able, able \subseteq 1..n,
         NEW leaders \in Seq(able), Leads(leaders, able, rows, queue)
  PROVE  CountsFamilies(able, leaders, queue)
<1> DEFINE family(i) == family_signature(queue[i])
           c == Len(leaders)
           fams == [ m \in 1..c |-> family(leaders[m]) ]
<1>1. c \in Nat /\ DOMAIN leaders = 1..c /\ ToSet(leaders) \subseteq able
      /\ \A m \in 1..c : leaders[m] \in able
  BY ElementsOfSeq DEF ToSet
<1>2. /\ \A l, m \in 1..c : family(leaders[l]) = family(leaders[m]) => l = m
      /\ \A i \in able : \E m \in 1..c : family(leaders[m]) = family(i)
  BY <1>1 DEF Leads
<1> HIDE DEF family, c
<1>3. Cardinality(ToSet(leaders)) = c
  BY <1>1, <1>2, InjectiveImage
<1>4. IsFiniteSet(able) /\ Cardinality(able) \in Nat
  <2>1. IsFiniteSet(1..n)
    BY FS_Interval
  <2> QED BY <2>1, FS_Subset, FS_CardinalityType
<1>5. c <= Cardinality(able)
  BY <1>1, <1>3, <1>4, FS_Subset
<1>6. Cardinality({ family(i) : i \in able }) = c
  <2>1. DOMAIN fams = 1..c
    OBVIOUS
  <2>2. \A l, m \in 1..c : fams[l] = fams[m] => l = m
    BY <1>2
  <2>3. { family(i) : i \in able } = { fams[m] : m \in 1..c }
    <3>1. ASSUME NEW i \in able PROVE family(i) \in { fams[m] : m \in 1..c }
      <4>1. PICK m \in 1..c : family(leaders[m]) = family(i)
        BY <1>2
      <4> QED BY <4>1
    <3>2. ASSUME NEW m \in 1..c PROVE fams[m] \in { family(i) : i \in able }
      BY <1>1
    <3> HIDE DEF fams
    <3> QED BY <3>1, <3>2
  <2>4. c \in Nat
    BY <1>1
  <2> HIDE DEF fams
  <2>5. Cardinality({ fams[m] : m \in 1..c }) = c
    BY <2>1, <2>2, <2>4, InjectiveImage
  <2> QED BY <2>3, <2>5
<1> QED BY <1>1, <1>4, <1>5, <1>6 DEF family, c, CountsFamilies

\* FamiliesKept, of a list of chosen rows.
KeepsFamilies(order, able, rows, queue, top_k) ==
  LET picked == ToSet(order)
      family(i) == family_signature(queue[i])
      score_of(i) == row_score(rows[i])
      room == IF top_k < Cardinality(able) THEN top_k ELSE Cardinality(able)
      kinds == { family(i) : i \in able }
  IN /\ picked \subseteq able /\ Len(order) = Cardinality(picked) /\ Len(order) = room
     /\ Cardinality({ family(i) : i \in picked })
          = (IF room < Cardinality(kinds) THEN room ELSE Cardinality(kinds))
     /\ \A i \in picked, j \in able \ picked :
          (family(i) = family(j) \/ family(j) \notin { family(k) : k \in picked }) =>
            ~below(score_of(i), score_of(j))

\* The two cases of choose_diverse.
LEMMA LeadersKeepFamilies ==
  ASSUME NEW n \in Nat, NEW rows, Scored(rows, n), NEW queue, NEW able, able \subseteq 1..n,
         NEW leaders \in Seq(able), Leads(leaders, able, rows, queue),
         NEW top_k \in Nat \ {0}, Len(leaders) >= top_k,
         NEW order, FirstOfEach(order, able, rows, queue, top_k)
  PROVE  KeepsFamilies(order, able, rows, queue, top_k)
<1> DEFINE kinds == { family_signature(queue[i]) : i \in able }
           c == Len(leaders)
           k == Cardinality(able)
           room == IF top_k < k THEN top_k ELSE k
<1>1. Cardinality(kinds) = c /\ k \in Nat /\ c <= k /\ c \in Nat
  <2>1. CountsFamilies(able, leaders, queue)
    BY LeadersCount
  <2> QED BY <2>1 DEF CountsFamilies
<1>2. room = top_k /\ (IF room < Cardinality(kinds) THEN room ELSE Cardinality(kinds)) = top_k
  <2> HIDE DEF kinds, c, k
  <2>1. c >= top_k
    BY DEF c
  <2> QED BY <1>1, <2>1
<1> HIDE DEF kinds, c, k, room
<1> QED BY <1>2 DEF FirstOfEach, KeepsFamilies, kinds, k, room

\* With room for all, every family is there, by its leader.
LEMMA RoomKeepsFamilies ==
  ASSUME NEW n \in Nat, NEW rows, Scored(rows, n), NEW queue, NEW able, able \subseteq 1..n,
         NEW leaders \in Seq(able), Leads(leaders, able, rows, queue),
         NEW top_k \in Nat \ {0}, Len(leaders) < top_k,
         NEW order, FillsRoom(order, leaders, able, rows, top_k)
  PROVE  KeepsFamilies(order, able, rows, queue, top_k)
<1> DEFINE family(i) == family_signature(queue[i])
           score_of(i) == row_score(rows[i])
           kinds == { family(i) : i \in able }
           picked == ToSet(order)
           L == ToSet(leaders)
           c == Len(leaders)
           k == Cardinality(able)
           room == IF top_k < k THEN top_k ELSE k
<1>1. Cardinality(kinds) = c /\ k \in Nat /\ c <= k /\ c \in Nat
  <2>1. CountsFamilies(able, leaders, queue)
    BY LeadersCount
  <2> QED BY <2>1 DEF CountsFamilies
<1>2. /\ L \subseteq picked /\ picked \subseteq able
      /\ Len(order) = room /\ Cardinality(picked) = Len(order)
      /\ \A i \in picked \ L, j \in able \ picked : ~below(score_of(i), score_of(j))
  BY DEF FillsRoom
<1>3. /\ \A i \in able : \E l \in L : family(l) = family(i)
      /\ \A l \in L, i \in able : family(i) = family(l) => ~below(score_of(l), score_of(i))
  BY DEF Leads, ToSet
<1> HIDE DEF family, score_of, L, c, k, picked
<1>4. { family(i) : i \in picked } = kinds
  BY <1>2, <1>3
<1>5. (IF room < Cardinality(kinds) THEN room ELSE Cardinality(kinds)) = Cardinality(kinds)
  <2>1. c < top_k
    BY DEF c
  <2> HIDE DEF kinds
  <2> QED BY <1>1, <2>1
<1>6. ASSUME NEW i \in picked, NEW j \in able \ picked,
             family(i) = family(j) \/ family(j) \notin { family(x) : x \in picked }
      PROVE  ~below(score_of(i), score_of(j))
  <2>1. family(i) = family(j)
    BY <1>4, <1>6
  <2>2. CASE i \in L
    BY <2>1, <2>2, <1>3
  <2>3. CASE i \notin L
    BY <2>3, <1>2
  <2> QED BY <2>2, <2>3
<1> HIDE DEF kinds, room
<1> QED BY <1>2, <1>4, <1>5, <1>6 DEF KeepsFamilies, family, score_of, kinds, picked, k, room

\* FamiliesKept, as a property of choose_diverse for every list of rows.
LEMMA DiverseKeepsFamilies ==
  ASSUME NEW n \in Nat, NEW rows, Scored(rows, n), NEW queue, NEW o, o.top_k \in Nat \ {0}
  PROVE  KeepsFamilies(choose_diverse(rows, queue, o), eligible(rows, o), rows, queue, o.top_k)
<1> DEFINE able == eligible(rows, o)
           chosen == choose_diverse(rows, queue, o)
           top_k == o.top_k
           filled(leaders) ==
             leaders \o at_most(top_k - Len(leaders), by_score(rows, able \ ToSet(leaders)))
<1>1. \E leaders \in Seq(able) :
        /\ Leads(leaders, able, rows, queue)
        /\ chosen = IF Len(leaders) >= top_k
                      THEN at_most(IF top_k = 0 THEN 1 ELSE top_k, leaders)
                      ELSE filled(leaders)
  <2>1. top_k \in Nat
    OBVIOUS
  <2>2. \E leaders \in Seq(eligible(rows, o)) :
          /\ Leads(leaders, eligible(rows, o), rows, queue)
          /\ Chooses(choose_diverse(rows, queue, o), leaders, eligible(rows, o), rows, o.top_k)
    BY <2>1, DiverseLeads
  <2> QED BY <2>2 DEF Chooses
<1>2. able \subseteq 1..n /\ top_k \in Nat /\ top_k # 0
  BY DEF eligible, Scored
<1> HIDE DEF able, chosen, top_k, filled
<1>3. PICK leaders \in Seq(able) :
        /\ Leads(leaders, able, rows, queue)
        /\ chosen = IF Len(leaders) >= top_k
                      THEN at_most(IF top_k = 0 THEN 1 ELSE top_k, leaders)
                      ELSE filled(leaders)
  BY <1>1
<1>4. CASE Len(leaders) >= top_k
  <2>1. chosen = at_most(top_k, leaders)
    BY <1>2, <1>3, <1>4
  <2>2. FirstOfEach(chosen, able, rows, queue, top_k)
    BY <1>2, <1>3, <1>4, <2>1, FamiliesFirst
  <2>3. KeepsFamilies(chosen, able, rows, queue, top_k)
    BY <1>2, <1>3, <1>4, <2>2, LeadersKeepFamilies
  <2> QED BY <2>3 DEF able, chosen, top_k
<1>5. CASE Len(leaders) < top_k
  <2>1. Len(leaders) \in Nat
    OBVIOUS
  <2>2. chosen = filled(leaders)
    BY <1>2, <1>3, <1>5, <2>1
  <2>3. FillsRoom(chosen, leaders, able, rows, top_k)
    <3>1. FillsRoom(filled(leaders), leaders, able, rows, top_k)
      BY <1>2, <1>3, <1>5, RoomFilled DEF filled
    <3> QED BY <3>1, <2>2
  <2>4. KeepsFamilies(chosen, able, rows, queue, top_k)
    BY <1>2, <1>3, <1>5, <2>3, RoomKeepsFamilies
  <2> QED BY <2>4 DEF able, chosen, top_k
<1>6. Len(leaders) \in Nat
  OBVIOUS
<1> QED BY <1>2, <1>4, <1>5, <1>6

-----------------------------------------------------------------------------
(* The rows of the replays.                                                *)

LEMMA SummaryFinite ==
  ASSUME NEW trace \in Seq(Events)
  PROVE  /\ IsFiniteSet(summarize(trace).events)
         /\ IsFiniteSet(summarize(trace).event_pairs)
         /\ \A s \in Subsystems : IsFiniteSet(summarize(trace).subsystem_functions[s])
<1> DEFINE n == Len(trace)
           next == [ i \in 1..(n - 1) |-> <<trace[i], trace[i + 1]>> ]
<1>1. n \in Nat /\ DOMAIN trace = 1..n
  OBVIOUS
<1>2. IsFiniteSet(1..n) /\ IsFiniteSet(1..(n - 1))
  BY <1>1, FS_Interval
<1>3. IsFiniteSet(ToSet(trace))
  BY <1>1, <1>2, FiniteImage DEF ToSet
<1>4. IsFiniteSet({ next[i] : i \in 1..(n - 1) })
  <2>1. DOMAIN next = 1..(n - 1)
    OBVIOUS
  <2> HIDE DEF next, n
  <2> QED BY <2>1, <1>2, FiniteImage
<1>5. summarize(trace).event_pairs = { next[i] : i \in 1..(n - 1) }
  BY DEF summarize
<1>6. \A s \in Subsystems : summarize(trace).subsystem_functions[s] \in SUBSET ToSet(trace)
  BY DEF summarize
<1>7. \A s \in Subsystems : IsFiniteSet(summarize(trace).subsystem_functions[s])
  BY <1>3, <1>6, FS_Subset
<1>8. summarize(trace).events = ToSet(trace)
  BY DEF summarize
<1> QED BY <1>3, <1>4, <1>5, <1>7, <1>8

LEMMA RemainderCounts ==
  ASSUME NEW S, NEW T, IsFiniteSet(S)
  PROVE  Cardinality(S \ T) \in Nat
<1>1. S \ T \in SUBSET S
  OBVIOUS
<1> QED BY <1>1, FS_Subset, FS_CardinalityType

\* The scores of a row are numbers: what it counts is finite.
LEMMA RowScored ==
  ASSUME NEW trace \in Seq(Events), NEW seen
  PROVE  row_score(row(summarize(trace), seen)) \in Tuples(3)
<1> DEFINE shown == summarize(trace)
           new == [ s \in Subsystems |-> shown.subsystem_functions[s] \ seen.events ]
<1>1. /\ Cardinality(shown.events \ seen.events) \in Nat
      /\ Cardinality(shown.event_pairs \ seen.pairs) \in Nat
      /\ \A s \in Subsystems : Cardinality(new[s]) \in Nat
  <2>1. IsFiniteSet(shown.events) /\ IsFiniteSet(shown.event_pairs)
    BY SummaryFinite
  <2>2. \A s \in Subsystems : IsFiniteSet(shown.subsystem_functions[s])
    BY SummaryFinite
  <2> HIDE DEF shown
  <2>3. Cardinality(shown.events \ seen.events) \in Nat
    BY <2>1, RemainderCounts
  <2>4. Cardinality(shown.event_pairs \ seen.pairs) \in Nat
    BY <2>1, RemainderCounts
  <2>5. \A s \in Subsystems : Cardinality(new[s]) \in Nat
    <3> TAKE s \in Subsystems
    <3>1. Cardinality(shown.subsystem_functions[s] \ seen.events) \in Nat
      BY <2>2, RemainderCounts
    <3> QED BY <3>1
  <2> QED BY <2>3, <2>4, <2>5
<1>2. subsystem_points(new) \in Int
  <2> HIDE DEF new
  <2> DEFINE count(s) == Cardinality(new[s])
  <2>1. count("cgroup") \in Nat /\ count("vfs") \in Nat
        /\ count("socket_netlink") \in Nat /\ count("proc_sysfs") \in Nat
    BY <1>1 DEF Subsystems
  <2>2. subsystem_points(new) = 25 * count("cgroup") + 20 * count("vfs")
                                + 20 * count("socket_netlink") + 15 * count("proc_sysfs")
    BY DEF subsystem_points, Points
  <2> HIDE DEF count
  <2> QED BY <2>1, <2>2
<1>3. score(shown, seen) \in Int
  <2>1. score(shown, seen)
          = 10 * Cardinality(shown.events \ seen.events) + subsystem_points(new)
            + 5 * Cardinality(shown.event_pairs \ seen.pairs)
    BY DEF score
  <2> HIDE DEF new, shown
  <2> QED BY <2>1, <1>1, <1>2
<1>4. row_score(row(shown, seen))
        = <<score(shown, seen), Cardinality(shown.events \ seen.events),
            Cardinality(shown.event_pairs \ seen.pairs)>>
  BY DEF row_score, row
<1> HIDE DEF shown
<1>5. row_score(row(shown, seen)) \in Tuples(3)
  BY <1>1, <1>3, <1>4 DEF Tuples
<1> QED BY <1>5 DEF shown

\* So every row of a CSV can be ranked.
LEMMA RowsScored ==
  ASSUME NEW n \in Nat, NEW traces \in [1..n -> Seq(Events)]
  PROVE  Scored(rows_of(traces), n)
<1>1. \A i \in 1..n : rows_of(traces)[i] = row(summarize(traces[i]), seen_before(traces, i))
  BY DEF rows_of
<1>2. \A i \in 1..n : row_score(row(summarize(traces[i]), seen_before(traces, i))) \in Tuples(3)
  BY RowScored
<1> QED BY <1>1, <1>2 DEF Scored, rows_of

-----------------------------------------------------------------------------
(* The loop.                                                               *)

Steps == {"fuzz", "preselect", "analyze", "select", "done", "summarized", "stopped"}

TypeInv ==
  /\ experiment \in Experiments /\ round \in RoundsOf(experiment) /\ step \in Steps
  /\ seeds \subseteq Testcases /\ IsFiniteSet(seeds)
  /\ fuzzed \in [RoundsOf(experiment) -> SUBSET Testcases]
  /\ \A r \in RoundsOf(experiment) : IsFiniteSet(fuzzed[r])
  /\ seeds_next \in [RoundsOf(experiment) -> SUBSET Testcases]
  /\ DOMAIN csv = RoundsOf(experiment)

\* At every step of a round: what the scripts work on is of this round's queue,
\* and the rows to select from are those of the preselection, one each.
RoundInv ==
  /\ step \in {"preselect", "analyze"} => afl \in Seq(fuzzed[round])
  /\ step = "analyze" => preselected = preselect(afl, opts)
  /\ step \in {"analyze", "select"} => preselected \in Seq(fuzzed[round])
  /\ step = "select" => Scored(csv[round], Len(preselected))

LoopInv == TypeInv /\ RoundInv /\ SeedsOfTheRoundBefore

\* What the assumptions say of the experiment of a behaviour.
LEMMA RoundsAreNumbers ==
  ASSUME TypeInv
  PROVE  /\ experiment.rounds \in Nat \ {0} /\ 1 \in RoundsOf(experiment)
         /\ RoundsOf(experiment) = 1..experiment.rounds
         /\ opts.limit \in Nat /\ opts.top_k \in Nat
BY ExperimentsAssumption DEF TypeInv, RoundsOf, opts

\* A queue lists the testcases of its directory.
LEMMA SequenceOfSet ==
  ASSUME NEW S, IsFiniteSet(S)
  PROVE  SetToSeq(S) \in Seq(S) /\ Reverse(SetToSeq(S)) \in Seq(S)
<1> DEFINE n == Cardinality(S)
<1>1. n \in Nat /\ ExistsBijection(1..n, S)
  BY FS_CardinalityType
<1>2. \E f \in [1..n -> S] : IsInjective(f)
  <2>1. PICK f : f \in Bijection(1..n, S)
    BY <1>1 DEF ExistsBijection
  <2> QED BY <2>1 DEF Bijection, Injection, IsInjective
<1>3. SetToSeq(S) \in [1..n -> S]
  BY <1>2 DEF SetToSeq
<1> HIDE DEF n
<1>4. SetToSeq(S) \in Seq(S)
  BY <1>1, <1>3
<1> DEFINE s == SetToSeq(S)
<1>5. Reverse(s) \in Seq(S)
  <2>1. s \in Seq(S)
    BY <1>4
  <2> HIDE DEF s
  <2>2. Reverse(s) = [ i \in 1..Len(s) |-> s[(Len(s) - i) + 1] ] /\ Len(s) \in Nat
    BY <2>1 DEF Reverse
  <2>3. \A i \in 1..Len(s) : s[(Len(s) - i) + 1] \in S
    BY <2>1
  <2> QED BY <2>2, <2>3, IsASeq
<1> QED BY <1>4, <1>5

LEMMA LoopInit == Init => LoopInv
<1> SUFFICES ASSUME Init PROVE LoopInv
  OBVIOUS
<1>1. experiment \in Experiments /\ experiment.rounds \in Nat \ {0}
  BY ExperimentsAssumption DEF Init
<1>2. 1 \in RoundsOf(experiment)
  BY <1>1 DEF RoundsOf
<1>3. TypeInv
  BY <1>1, <1>2, ExperimentsAssumption, FS_EmptySet DEF Init, TypeInv, Steps
<1>4. RoundInv
  BY DEF Init, RoundInv
<1>5. SeedsOfTheRoundBefore
  BY DEF Init, SeedsOfTheRoundBefore
<1> QED BY <1>3, <1>4, <1>5 DEF LoopInv

\* The steps of a round that leave the directories of seeds alone.
LEMMA FuzzKeeps == LoopInv /\ Fuzz => LoopInv'
<1> SUFFICES ASSUME LoopInv, Fuzz PROVE LoopInv'
  OBVIOUS
<1> USE DEF LoopInv
<1>1. PICK found \in SUBSET experiment.inputs :
        /\ afl' \in { SetToSeq(seeds \union found), Reverse(SetToSeq(seeds \union found)) }
        /\ fuzzed' = [fuzzed EXCEPT ![round] = @ \union seeds \union found]
  BY DEF Fuzz
<1> DEFINE queued == seeds \union found
<1>2. found \subseteq Testcases /\ IsFiniteSet(found)
  <2>1. experiment.inputs \subseteq Testcases /\ IsFiniteSet(experiment.inputs)
    BY ExperimentsAssumption DEF TypeInv
  <2> QED BY <2>1, FS_Subset
<1>3. queued \subseteq Testcases /\ IsFiniteSet(queued)
  BY <1>2, FS_Union DEF TypeInv
<1>4. afl' \in Seq(queued)
  <2> HIDE DEF queued
  <2> QED BY <1>1, <1>3, SequenceOfSet DEF queued
<1>5. fuzzed' = [fuzzed EXCEPT ![round] = fuzzed[round] \union queued]
  BY <1>1
<1> HIDE DEF queued
<1>6. IsFiniteSet(fuzzed[round] \union queued)
  BY <1>3, FS_Union DEF TypeInv
<1>7. UNCHANGED <<experiment, round, seeds, csv, seeds_next>> /\ step' = "preselect" /\ step = "fuzz"
  BY DEF Fuzz
<1>8. TypeInv'
  <2>1. fuzzed' \in [RoundsOf(experiment) -> SUBSET Testcases]
    BY <1>3, <1>5 DEF TypeInv
  <2>2. \A r \in RoundsOf(experiment) : IsFiniteSet(fuzzed'[r])
    BY <1>5, <1>6 DEF TypeInv
  <2> QED BY <2>1, <2>2, <1>7 DEF TypeInv, Steps, RoundsOf
<1>9. RoundInv'
  <2>1. fuzzed'[round] = fuzzed[round] \union queued
    BY <1>5 DEF TypeInv
  <2>2. afl' \in Seq(fuzzed'[round])
    BY <2>1, <1>4
  <2> QED BY <2>2, <1>7 DEF RoundInv
<1>10. SeedsOfTheRoundBefore'
  <2>1. \A r \in RoundsOf(experiment) : fuzzed[r] \subseteq fuzzed'[r]
    BY <1>5 DEF TypeInv
  <2> QED BY <2>1, <1>7 DEF SeedsOfTheRoundBefore, RoundsOf
<1> QED BY <1>8, <1>9, <1>10

LEMMA FuzzFailsKeeps == LoopInv /\ FuzzFails => LoopInv'
<1> SUFFICES ASSUME LoopInv, FuzzFails PROVE LoopInv'
  OBVIOUS
<1> USE DEF LoopInv
<1>1. UNCHANGED <<experiment, round, seeds, csv, seeds_next, fuzzed>> /\ step = "fuzz"
      /\ step' \in {"stopped", "preselect"}
  BY DEF FuzzFails, disk
<1>2. step' = "preselect" => afl' \in Seq(fuzzed[round])
  <2>1. SetToSeq(fuzzed[round]) \in Seq(fuzzed[round])
    BY SequenceOfSet DEF TypeInv
  <2>2. <<>> \in Seq(fuzzed[round])
    OBVIOUS
  <2> QED BY <2>1, <2>2 DEF FuzzFails
<1>3. TypeInv'
  BY <1>1 DEF TypeInv, Steps, RoundsOf
<1>4. RoundInv'
  BY <1>1, <1>2 DEF RoundInv
<1>5. SeedsOfTheRoundBefore'
  BY <1>1 DEF SeedsOfTheRoundBefore, RoundsOf
<1> QED BY <1>3, <1>4, <1>5

LEMMA PreselectKeeps == LoopInv /\ Preselect => LoopInv'
<1> SUFFICES ASSUME LoopInv, Preselect PROVE LoopInv'
  OBVIOUS
<1> USE DEF LoopInv
<1>1. /\ UNCHANGED <<experiment, round, seeds, afl, csv, seeds_next, fuzzed>>
      /\ step = "preselect" /\ step' = "analyze" /\ preselected' = preselect(afl, opts)
  BY DEF Preselect, disk, opts
<1>2. afl \in Seq(fuzzed[round]) /\ fuzzed[round] \subseteq Testcases
  BY <1>1 DEF RoundInv, TypeInv
<1>3. preselect(afl, opts) \in Seq(fuzzed[round])
  <2>1. afl \in Seq(Testcases)
    BY <1>2
  <2>2. preselect(afl, opts) \in Seq({ t \in ToSet(afl) : replayable(semantic_shape(t), opts) })
    BY <2>1, RoundsAreNumbers, PreselectCorrect
  <2>3. { t \in ToSet(afl) : replayable(semantic_shape(t), opts) } \subseteq fuzzed[round]
    BY <1>2 DEF ToSet
  <2> QED BY <2>2, <2>3
<1>4. TypeInv'
  BY <1>1 DEF TypeInv, Steps, RoundsOf
<1>5. RoundInv'
  BY <1>1, <1>2, <1>3 DEF RoundInv, opts
<1>6. SeedsOfTheRoundBefore'
  BY <1>1 DEF SeedsOfTheRoundBefore, RoundsOf
<1> QED BY <1>4, <1>5, <1>6

LEMMA AnalyzeKeeps == LoopInv /\ Analyze => LoopInv'
<1> SUFFICES ASSUME LoopInv, Analyze PROVE LoopInv'
  OBVIOUS
<1> USE DEF LoopInv
<1>1. /\ UNCHANGED <<experiment, round, seeds, preselected, seeds_next, fuzzed>>
      /\ step = "analyze" /\ step' \in {"select", "stopped"}
  BY DEF Analyze
<1>2. preselected \in Seq(fuzzed[round])
  BY <1>1 DEF RoundInv
<1>3. ASSUME step' = "select" PROVE Scored(csv'[round], Len(preselected))
  <2>1. PICK traces \in [DOMAIN preselected -> experiment.traces] :
          csv' = [csv EXCEPT ![round] = rows_of(traces)]
    BY <1>3 DEF Analyze
  <2>2. csv'[round] = rows_of(traces)
    BY <2>1 DEF TypeInv
  <2>3. experiment.traces \subseteq Seq(Events)
    BY ExperimentsAssumption DEF TypeInv
  <2>4. DOMAIN preselected = 1..Len(preselected) /\ Len(preselected) \in Nat
    BY <1>2
  <2>5. traces \in [1..Len(preselected) -> Seq(Events)]
    BY <2>3, <2>4
  <2> QED BY <2>2, <2>4, <2>5, RowsScored
<1>4. DOMAIN csv' = DOMAIN csv
  BY DEF Analyze
<1>5. TypeInv'
  BY <1>1, <1>4 DEF TypeInv, Steps, RoundsOf
<1>6. RoundInv'
  BY <1>1, <1>2, <1>3 DEF RoundInv
<1>7. SeedsOfTheRoundBefore'
  BY <1>1 DEF SeedsOfTheRoundBefore, RoundsOf
<1> QED BY <1>5, <1>6, <1>7

\* What is copied is of this round's queue.
LEMMA ChosenQueued ==
  ASSUME LoopInv, step = "select"
  PROVE  Chosen \subseteq fuzzed[round]
<1> USE DEF LoopInv
<1>1. preselected \in Seq(fuzzed[round]) /\ Scored(csv[round], Len(preselected))
  BY DEF RoundInv
<1>2. Len(preselected) \in Nat /\ \A i \in 1..Len(preselected) : preselected[i] \in fuzzed[round]
  BY <1>1
<1> DEFINE order == choose(csv[round], preselected, opts)
<1>3. order \in Seq(1..Len(preselected))
  BY <1>1, <1>2, RoundsAreNumbers, ChooseAmongRows
<1>4. Chosen = { preselected[order[n]] : n \in DOMAIN order }
  BY DEF Chosen, opts
<1> HIDE DEF order
<1>5. \A n \in DOMAIN order : order[n] \in 1..Len(preselected)
  BY <1>3
<1> QED BY <1>2, <1>4, <1>5

\* Seeds that were queued in a round may be added to those selected in it.
LEMMA AddingSeeds ==
  ASSUME LoopInv, NEW copied, copied \subseteq fuzzed[round], fuzzed' = fuzzed,
         UNCHANGED experiment,
         seeds_next' = [seeds_next EXCEPT ![round] = @ \union copied]
  PROVE  /\ seeds_next' \in [RoundsOf(experiment) -> SUBSET Testcases]
         /\ \A r \in RoundsOf(experiment) : seeds_next'[r] \subseteq fuzzed'[r]
         /\ \A r \in RoundsOf(experiment) : IsFiniteSet(seeds_next'[r])
<1> USE DEF LoopInv
<1>1. fuzzed[round] \subseteq Testcases /\ round \in RoundsOf(experiment)
  BY DEF TypeInv
<1>2. seeds_next' \in [RoundsOf(experiment) -> SUBSET Testcases]
  BY <1>1 DEF TypeInv
<1>3. \A r \in RoundsOf(experiment) : seeds_next'[r] \subseteq fuzzed[r]
  BY <1>1 DEF TypeInv, SeedsOfTheRoundBefore
<1>4. \A r \in RoundsOf(experiment) : IsFiniteSet(seeds_next'[r])
  BY <1>3, FS_Subset DEF TypeInv
<1> QED BY <1>2, <1>3, <1>4

LEMMA SelectKeeps == LoopInv /\ Select => LoopInv'
<1> SUFFICES ASSUME LoopInv, Select PROVE LoopInv'
  OBVIOUS
<1>1. /\ UNCHANGED <<experiment, csv, fuzzed>> /\ step = "select"
      /\ seeds' = seeds_next'[round]
      /\ seeds_next' = [seeds_next EXCEPT ![round] = @ \union Chosen]
      /\ \/ step' = "done" /\ round' = round
         \/ step' = "fuzz" /\ round' = round + 1 /\ round # experiment.rounds
  BY DEF Select, next_seeds
<1>2. /\ seeds_next' \in [RoundsOf(experiment) -> SUBSET Testcases]
      /\ \A r \in RoundsOf(experiment) : seeds_next'[r] \subseteq fuzzed'[r]
      /\ \A r \in RoundsOf(experiment) : IsFiniteSet(seeds_next'[r])
  BY <1>1, ChosenQueued, AddingSeeds
<1> USE DEF LoopInv
<1>3. round' \in RoundsOf(experiment) /\ round \in RoundsOf(experiment) /\ round \in Nat \ {0}
  <2>1. round \in 1..experiment.rounds /\ experiment.rounds \in Nat
    BY RoundsAreNumbers DEF TypeInv, RoundsOf
  <2>2. round' \in 1..experiment.rounds
    BY <2>1, <1>1
  <2> QED BY <2>1, <2>2 DEF RoundsOf
<1>4. TypeInv'
  BY <1>1, <1>2, <1>3 DEF TypeInv, Steps, RoundsOf
<1>5. RoundInv'
  BY <1>1 DEF RoundInv
<1>6. SeedsOfTheRoundBefore'
  <2>1. CASE step' = "done" /\ round' = round
    BY <2>1, <1>1, <1>2 DEF SeedsOfTheRoundBefore, RoundsOf
  <2>2. CASE step' = "fuzz" /\ round' = round + 1
    <3>1. round' # 1 /\ round' - 1 = round
      BY <2>2, <1>3
    <3>2. seeds' = seeds_next'[round' - 1]
      BY <3>1, <1>1
    <3>3. \A r \in RoundsOf(experiment') : seeds_next'[r] \subseteq fuzzed'[r]
      BY <1>1, <1>2
    <3>4. step' \notin {"done", "summarized"}
      BY <2>2
    <3> HIDE <1>1, <1>2
    <3> QED BY <3>1, <3>2, <3>3, <3>4 DEF SeedsOfTheRoundBefore
  <2> QED BY <2>1, <2>2, <1>1
<1> QED BY <1>4, <1>5, <1>6

LEMMA SummarizeKeeps == LoopInv /\ Summarize => LoopInv'
<1> SUFFICES ASSUME LoopInv, Summarize PROVE LoopInv'
  OBVIOUS
<1> USE DEF LoopInv
<1>1. UNCHANGED <<experiment, round, seeds, csv, seeds_next, fuzzed>>
      /\ step = "done" /\ step' = "summarized"
  BY DEF Summarize, summarized, disk
<1>2. TypeInv'
  BY <1>1 DEF TypeInv, Steps, RoundsOf
<1>3. RoundInv'
  BY <1>1 DEF RoundInv
<1>4. SeedsOfTheRoundBefore'
  BY <1>1 DEF SeedsOfTheRoundBefore, RoundsOf
<1> QED BY <1>2, <1>3, <1>4

LEMMA StartAgainKeeps == LoopInv /\ StartAgain => LoopInv'
<1> SUFFICES ASSUME LoopInv, StartAgain PROVE LoopInv'
  OBVIOUS
<1>1. /\ UNCHANGED <<experiment, csv, fuzzed>>
      /\ round' = 1 /\ step' = "fuzz" /\ seeds' = InitialSeeds
  BY DEF StartAgain
<1>2. /\ seeds_next' \in [RoundsOf(experiment) -> SUBSET Testcases]
      /\ \A r \in RoundsOf(experiment) : seeds_next'[r] \subseteq fuzzed'[r]
  <2>1. CASE UNCHANGED seeds_next
    BY <2>1, <1>1 DEF LoopInv, TypeInv, SeedsOfTheRoundBefore
  <2>2. CASE /\ step = "select"
             /\ \E copied \in SUBSET Chosen :
                  seeds_next' = [seeds_next EXCEPT ![round] = @ \union copied]
    <3>1. PICK copied \in SUBSET Chosen :
            seeds_next' = [seeds_next EXCEPT ![round] = @ \union copied]
      BY <2>2
    <3>2. copied \subseteq fuzzed[round]
      BY <2>2, ChosenQueued
    <3> QED BY <3>1, <3>2, <1>1, AddingSeeds
  <2> QED BY <2>1, <2>2 DEF StartAgain
<1> USE DEF LoopInv
<1>3. TypeInv'
  BY <1>1, <1>2, RoundsAreNumbers, ExperimentsAssumption DEF TypeInv, Steps, RoundsOf
<1>4. RoundInv'
  BY <1>1 DEF RoundInv
<1>5. SeedsOfTheRoundBefore'
  BY <1>1, <1>2 DEF SeedsOfTheRoundBefore, RoundsOf
<1> QED BY <1>3, <1>4, <1>5

LEMMA LoopInvariant == Spec => []LoopInv
<1>1. LoopInv /\ [Next]_vars => LoopInv'
  <2> SUFFICES ASSUME LoopInv, [Next]_vars PROVE LoopInv'
    OBVIOUS
  <2>1. CASE UNCHANGED vars
    <3>1. UNCHANGED <<experiment, round, step, seeds, afl, preselected, csv, seeds_next, fuzzed>>
      BY <2>1 DEF vars, disk
    <3> QED BY <3>1 DEF LoopInv, TypeInv, RoundInv, SeedsOfTheRoundBefore, RoundsOf, opts
  <2> QED BY <2>1, FuzzKeeps, FuzzFailsKeeps, PreselectKeeps, AnalyzeKeeps, SelectKeeps,
             SummarizeKeeps, StartAgainKeeps DEF Next
<1> QED BY <1>1, LoopInit, PTL DEF Spec

-----------------------------------------------------------------------------
(* Sums.                                                                   *)

\* g is a running sum of numbers.
Sums(g, numbers) ==
  g = [ n \in 0..Len(numbers) |-> IF n = 0 THEN 0 ELSE g[n - 1] + numbers[n] ]

\* There is one running sum at most, so that total is the last of it.
LEMMA TotalOf ==
  ASSUME NEW numbers, Len(numbers) \in Nat, NEW g, Sums(g, numbers)
  PROVE  total(numbers) = g[Len(numbers)]
<1> DEFINE N == Len(numbers)
           sum == CHOOSE f : f = [ n \in 0..N |-> IF n = 0 THEN 0 ELSE f[n - 1] + numbers[n] ]
<1>1. \E f : f = [ n \in 0..N |-> IF n = 0 THEN 0 ELSE f[n - 1] + numbers[n] ]
  BY DEF Sums
<1>2. sum = [ n \in 0..N |-> IF n = 0 THEN 0 ELSE sum[n - 1] + numbers[n] ]
  BY <1>1
<1>3. total(numbers) = sum[N]
  BY DEF total
<1> HIDE DEF sum
<1>4. ASSUME NEW m \in 0..N, sum[m] # g[m] PROVE FALSE
  <2> DEFINE wrong == { n \in 0..N : sum[n] # g[n] }
  <2>1. wrong \subseteq Nat /\ wrong # {}
    BY <1>4
  <2>2. PICK n \in wrong : \A k \in wrong : n <= k
    <3> HIDE DEF wrong
    <3> QED BY <2>1, LeastNatural
  <2>3. CASE n = 0
    <3>1. sum[0] = 0 /\ g[0] = 0
      BY <1>2 DEF Sums
    <3> QED BY <2>2, <2>3, <3>1
  <2>4. CASE n # 0
    <3>1. n \in 0..N /\ n - 1 \in 0..N /\ n - 1 \notin wrong
      BY <2>2, <2>4
    <3>2. sum[n] = sum[n - 1] + numbers[n]
      BY <1>2, <2>4, <3>1
    <3>3. g[n] = g[n - 1] + numbers[n]
      BY <2>4, <3>1 DEF Sums
    <3>4. sum[n - 1] = g[n - 1]
      BY <3>1
    <3> QED BY <2>2, <3>2, <3>3, <3>4
  <2> QED BY <2>3, <2>4
<1> QED BY <1>3, <1>4

\* A running sum of the first n of some numbers.
SumsFirst(g, n, numbers) ==
  /\ g \in [0..n -> Nat] /\ g[0] = 0
  /\ \A m \in 1..n : g[m] = g[m - 1] + numbers[m]

\* Naturals have a running sum of naturals: no least number of them has none.
LEMMA RunningSum ==
  ASSUME NEW numbers \in Seq(Nat)
  PROVE  \E g \in [0..Len(numbers) -> Nat] : Sums(g, numbers)
<1> DEFINE N == Len(numbers)
           without == { n \in 0..N : ~\E g : SumsFirst(g, n, numbers) }
<1>1. N \in Nat /\ \A n \in 1..N : numbers[n] \in Nat
  OBVIOUS
<1>2. without = {}
  <2> SUFFICES ASSUME without # {} PROVE FALSE
    OBVIOUS
  <2>1. without \subseteq Nat
    OBVIOUS
  <2>2. PICK n \in without : \A k \in without : n <= k
    <3> HIDE DEF without
    <3> QED BY <2>1, LeastNatural
  <2>3. CASE n = 0
    <3>1. SumsFirst([ m \in 0..0 |-> 0 ], 0, numbers)
      BY DEF SumsFirst
    <3> QED BY <2>2, <2>3, <3>1
  <2>4. CASE n # 0
    <3>1. n - 1 \in 0..N /\ n - 1 \notin without /\ n \in 1..N
      BY <2>2, <2>4, <1>1
    <3>2. PICK g : SumsFirst(g, n - 1, numbers)
      BY <3>1
    <3> DEFINE h == [ m \in 0..n |-> IF m = n THEN g[n - 1] + numbers[n] ELSE g[m] ]
    <3>3. g \in [0..(n - 1) -> Nat] /\ n \in Nat \ {0}
      BY <3>1, <3>2, <1>1 DEF SumsFirst
    <3>4. g[n - 1] + numbers[n] \in Nat
      <4>1. g[n - 1] \in Nat /\ numbers[n] \in Nat
        BY <3>1, <3>3, <1>1
      <4> QED BY <4>1
    <3>5. \A m \in 0..n : m # n => m \in 0..(n - 1)
      BY <3>3
    <3>6. h \in [0..n -> Nat]
      BY <3>3, <3>4, <3>5
    <3>7. h[0] = 0
      BY <3>2, <3>3 DEF SumsFirst
    <3>8. ASSUME NEW m \in 1..n PROVE h[m] = h[m - 1] + numbers[m]
      <4>1. CASE m = n
        <5>1. h[m] = g[n - 1] + numbers[n] /\ h[m - 1] = g[n - 1]
          BY <4>1, <3>3
        <5> QED BY <5>1, <4>1
      <4>2. CASE m # n
        <5>1. m \in 1..(n - 1) /\ m - 1 \in 0..n /\ m - 1 # n /\ m \in 0..n
          BY <4>2, <3>3
        <5>2. h[m] = g[m] /\ h[m - 1] = g[m - 1]
          BY <5>1, <4>2
        <5>3. g[m] = g[m - 1] + numbers[m]
          BY <5>1, <3>2 DEF SumsFirst
        <5> QED BY <5>2, <5>3
      <4> QED BY <4>1, <4>2
    <3> HIDE DEF h
    <3>9. SumsFirst(h, n, numbers)
      BY <3>6, <3>7, <3>8 DEF SumsFirst
    <3> QED BY <2>2, <3>9
  <2> QED BY <2>3, <2>4
<1>3. PICK g : SumsFirst(g, N, numbers)
  BY <1>1, <1>2
<1>4. g \in [0..N -> Nat]
  BY <1>3 DEF SumsFirst
<1>5. \A n \in 0..N : g[n] = IF n = 0 THEN 0 ELSE g[n - 1] + numbers[n]
  BY <1>3 DEF SumsFirst
<1>6. Sums(g, numbers)
  <2>1. g = [ n \in 0..N |-> g[n] ]
    BY <1>4
  <2> HIDE DEF N
  <2> QED BY <2>1, <1>5 DEF Sums, N
<1> QED BY <1>4, <1>6

LEMMA TotalNatural ==
  ASSUME NEW numbers \in Seq(Nat)
  PROVE  total(numbers) \in Nat
<1>1. Len(numbers) \in Nat
  OBVIOUS
<1>2. PICK g \in [0..Len(numbers) -> Nat] : Sums(g, numbers)
  BY RunningSum
<1>3. total(numbers) = g[Len(numbers)]
  BY <1>1, <1>2, TotalOf
<1> QED BY <1>1, <1>3

-----------------------------------------------------------------------------
(* The best round.                                                         *)

\* Sets of seen events and pairs, of which only finitely many are seen.
FiniteSeen(seen) ==
  /\ IsFiniteSet(seen.events) /\ IsFiniteSet(seen.pairs)
  /\ \A s \in Subsystems : IsFiniteSet(seen.subsystems[s])

LEMMA RowsType ==
  ASSUME NEW trace \in Seq(Events), NEW seen, FiniteSeen(seen)
  PROVE  row(summarize(trace), seen) \in Rows
<1> DEFINE shown == summarize(trace)
           now == seen_with(seen, shown)
           new == [ s \in Subsystems |-> shown.subsystem_functions[s] \ seen.events ]
           held == [ s \in Subsystems |-> Cardinality(now.subsystems[s]) ]
<1>1. /\ IsFiniteSet(shown.events) /\ IsFiniteSet(shown.event_pairs)
      /\ \A s \in Subsystems : IsFiniteSet(shown.subsystem_functions[s])
  BY SummaryFinite
<1>2. /\ now.events = seen.events \union shown.events
      /\ now.pairs = seen.pairs \union shown.event_pairs
      /\ \A s \in Subsystems :
           now.subsystems[s] = seen.subsystems[s] \union shown.subsystem_functions[s]
  BY DEF seen_with
<1> HIDE DEF shown, now
<1>3. Cardinality(now.events) \in Nat
  <2>1. IsFiniteSet(seen.events \union shown.events)
    BY <1>1, FS_Union DEF FiniteSeen
  <2> QED BY <2>1, <1>2, FS_CardinalityType
<1>4. Cardinality(now.pairs) \in Nat
  <2>1. IsFiniteSet(seen.pairs \union shown.event_pairs)
    BY <1>1, FS_Union DEF FiniteSeen
  <2> QED BY <2>1, <1>2, FS_CardinalityType
<1>5. ASSUME NEW s \in Subsystems
      PROVE  Cardinality(now.subsystems[s]) \in Nat /\ Cardinality(new[s]) \in Nat
  <2>1. IsFiniteSet(seen.subsystems[s] \union shown.subsystem_functions[s])
    BY <1>1, FS_Union DEF FiniteSeen
  <2>2. Cardinality(now.subsystems[s]) \in Nat
    BY <2>1, <1>2, FS_CardinalityType
  <2>3. Cardinality(shown.subsystem_functions[s] \ seen.events) \in Nat
    BY <1>1, RemainderCounts
  <2> QED BY <2>2, <2>3
<1>6. Cardinality(shown.events \ seen.events) \in Nat
      /\ Cardinality(shown.event_pairs \ seen.pairs) \in Nat
  BY <1>1, RemainderCounts
<1>7. subsystem_points(new) \in Nat
  <2> DEFINE count(s) == Cardinality(new[s])
  <2>1. count("cgroup") \in Nat /\ count("vfs") \in Nat
        /\ count("socket_netlink") \in Nat /\ count("proc_sysfs") \in Nat
    BY <1>5 DEF Subsystems
  <2> HIDE DEF new
  <2>2. subsystem_points(new) = 25 * count("cgroup") + 20 * count("vfs")
                                + 20 * count("socket_netlink") + 15 * count("proc_sysfs")
    BY DEF subsystem_points, Points
  <2> HIDE DEF count
  <2>3. \A a, b, c, d \in Nat : 25 * a + 20 * b + 20 * c + 15 * d \in Nat
    OBVIOUS
  <2> QED BY <2>1, <2>2, <2>3
<1>8. score(shown, seen) \in Nat
  <2>1. score(shown, seen)
          = 10 * Cardinality(shown.events \ seen.events) + subsystem_points(new)
            + 5 * Cardinality(shown.event_pairs \ seen.pairs)
    BY DEF score
  <2> HIDE DEF new
  <2> QED BY <2>1, <1>6, <1>7
<1>9. held \in [Subsystems -> Nat]
  BY <1>5
<1>10. row(shown, seen) =
         [ score |-> score(shown, seen),
           new_events |-> Cardinality(shown.events \ seen.events),
           new_event_pairs |-> Cardinality(shown.event_pairs \ seen.pairs),
           total_seen_events |-> Cardinality(now.events),
           total_seen_event_pairs |-> Cardinality(now.pairs),
           total_seen |-> held ]
  BY DEF row, now
<1> HIDE DEF held
<1>11. row(shown, seen) \in Rows
  BY <1>3, <1>4, <1>6, <1>8, <1>9, <1>10 DEF Rows
<1> QED BY <1>11 DEF shown

\* What finitely many replays have shown is finite.
LEMMA SeenBeforeFinite ==
  ASSUME NEW n \in Nat, NEW traces \in [1..n -> Seq(Events)], NEW i \in 1..n
  PROVE  FiniteSeen(seen_before(traces, i))
<1> DEFINE shown == [ j \in 1..(i - 1) |-> summarize(traces[j]) ]
           earlier == { shown[j] : j \in 1..(i - 1) }
<1>1. IsFiniteSet(1..(i - 1)) /\ \A j \in 1..(i - 1) : traces[j] \in Seq(Events)
  BY FS_Interval
<1>2. \A j \in 1..(i - 1) :
        /\ IsFiniteSet(shown[j].events) /\ IsFiniteSet(shown[j].event_pairs)
        /\ \A s \in Subsystems : IsFiniteSet(shown[j].subsystem_functions[s])
  BY <1>1, SummaryFinite
<1>3. DOMAIN shown = 1..(i - 1)
  OBVIOUS
<1>4. { summarize(traces[j]) : j \in 1..(i - 1) } = earlier
  OBVIOUS
<1> HIDE DEF shown
<1>5. IsFiniteSet(UNION { s.events : s \in earlier })
  <2> DEFINE f == [ j \in 1..(i - 1) |-> shown[j].events ]
             T == { f[j] : j \in 1..(i - 1) }
  <2>1. { s.events : s \in earlier } = T
    OBVIOUS
  <2>2. DOMAIN f = 1..(i - 1)
    OBVIOUS
  <2>3. \A S \in T : IsFiniteSet(S)
    BY <1>2
  <2>4. IsFiniteSet(T)
    <3> HIDE DEF f
    <3>1. IsFiniteSet({ f[j] : j \in 1..(i - 1) })
      BY <1>1, <2>2, FiniteImage
    <3> QED BY <3>1
  <2> HIDE DEF T
  <2>5. IsFiniteSet(UNION T)
    BY <2>3, <2>4, FS_UNION
  <2> QED BY <2>1, <2>5
<1>6. IsFiniteSet(UNION { s.event_pairs : s \in earlier })
  <2> DEFINE f == [ j \in 1..(i - 1) |-> shown[j].event_pairs ]
             T == { f[j] : j \in 1..(i - 1) }
  <2>1. { s.event_pairs : s \in earlier } = T
    OBVIOUS
  <2>2. DOMAIN f = 1..(i - 1)
    OBVIOUS
  <2>3. \A S \in T : IsFiniteSet(S)
    BY <1>2
  <2>4. IsFiniteSet(T)
    <3> HIDE DEF f
    <3>1. IsFiniteSet({ f[j] : j \in 1..(i - 1) })
      BY <1>1, <2>2, FiniteImage
    <3> QED BY <3>1
  <2> HIDE DEF T
  <2>5. IsFiniteSet(UNION T)
    BY <2>3, <2>4, FS_UNION
  <2> QED BY <2>1, <2>5
<1>7. ASSUME NEW k \in Subsystems
      PROVE  IsFiniteSet(UNION { s.subsystem_functions[k] : s \in earlier })
  <2> DEFINE f == [ j \in 1..(i - 1) |-> shown[j].subsystem_functions[k] ]
             T == { f[j] : j \in 1..(i - 1) }
  <2>1. { s.subsystem_functions[k] : s \in earlier } = T
    OBVIOUS
  <2>2. DOMAIN f = 1..(i - 1)
    OBVIOUS
  <2>3. \A S \in T : IsFiniteSet(S)
    BY <1>2
  <2>4. IsFiniteSet(T)
    <3> HIDE DEF f
    <3>1. IsFiniteSet({ f[j] : j \in 1..(i - 1) })
      BY <1>1, <2>2, FiniteImage
    <3> QED BY <3>1
  <2> HIDE DEF T
  <2>5. IsFiniteSet(UNION T)
    BY <2>3, <2>4, FS_UNION
  <2> QED BY <2>1, <2>5
<1> HIDE DEF earlier
<1>8. /\ seen_before(traces, i).events = UNION { s.events : s \in earlier }
      /\ seen_before(traces, i).pairs = UNION { s.event_pairs : s \in earlier }
      /\ \A k \in Subsystems : seen_before(traces, i).subsystems[k]
                                 = UNION { s.subsystem_functions[k] : s \in earlier }
  BY <1>4 DEF seen_before
<1> QED BY <1>5, <1>6, <1>7, <1>8 DEF FiniteSeen

LEMMA CsvType ==
  ASSUME NEW n \in Nat, NEW traces \in [1..n -> Seq(Events)]
  PROVE  rows_of(traces) \in Seq(Rows)
<1>1. ASSUME NEW i \in 1..n PROVE row(summarize(traces[i]), seen_before(traces, i)) \in Rows
  <2>1. traces[i] \in Seq(Events) /\ FiniteSeen(seen_before(traces, i))
    BY SeenBeforeFinite
  <2> QED BY <2>1, RowsType
<1>2. rows_of(traces) = [ i \in 1..n |-> row(summarize(traces[i]), seen_before(traces, i)) ]
  BY DEF rows_of
<1> QED BY <1>1, <1>2, IsASeq

key_of(rows) == score_key(queue_row(rows))

\* A CSV that has rows can be ranked.
LEMMA KeyOfRows ==
  ASSUME NEW rows \in Seq(Rows), rows # << >>
  PROVE  key_of(rows) \in Tuples(3)
<1> DEFINE numbers == [ i \in DOMAIN rows |-> rows[i].score ]
<1>1. Len(rows) \in Nat \ {0} /\ DOMAIN rows = 1..Len(rows)
  BY EmptySeq
<1>2. rows[Len(rows)] \in Rows
  BY <1>1
<1>3. Last(rows).total_seen_events \in Nat /\ Last(rows).total_seen_event_pairs \in Nat
  BY <1>2 DEF Last, Rows
<1>4. numbers \in Seq(Nat)
  <2>1. ASSUME NEW i \in 1..Len(rows) PROVE rows[i].score \in Nat
    <3>1. rows[i] \in Rows
      OBVIOUS
    <3> QED BY <3>1 DEF Rows
  <2> QED BY <2>1, <1>1, IsASeq
<1> HIDE DEF numbers
<1>5. total(numbers) \in Nat
  BY <1>4, TotalNatural
<1>6. key_of(rows)
        = <<Last(rows).total_seen_events, Last(rows).total_seen_event_pairs, total(numbers)>>
  BY DEF key_of, score_key, queue_row, numbers
<1> QED BY <1>3, <1>5, <1>6 DEF Tuples

\* best_round is a round that no other one is above, the first such.
LEMMA BestRound ==
  ASSUME NEW n \in Nat \ {0}, NEW csvs \in [1..n -> Seq(Rows)], \A r \in 1..n : csvs[r] # << >>
  PROVE  /\ best_round(csvs) \in 1..n
         /\ \A r \in 1..n :
              /\ ~below(key_of(csvs[best_round(csvs)]), key_of(csvs[r]))
              /\ r < best_round(csvs) => below(key_of(csvs[r]), key_of(csvs[best_round(csvs)]))
<1> DEFINE key == [ r \in 1..n |-> key_of(csvs[r]) ]
           B == { r \in 1..n : \A q \in 1..n : ~below(key[r], key[q]) }
           first == descending(key)[1]
<1>1. key \in Keys(3, 1..n)
  BY KeyOfRows DEF Keys
<1>2. \A r \in 1..n : key[r] = key_of(csvs[r])
  OBVIOUS
<1>3. best_round(csvs) = Min(B)
  BY DEF best_round, key_of
<1> HIDE DEF key
<1>4. 1..n \subseteq Int /\ IsFiniteSet(1..n) /\ Cardinality(1..n) = n
  BY FS_Interval
<1>5. Sorts(descending(key), 1..n, key)
  BY <1>1, <1>4, Descending
<1>6. \A r \in 1..n : key[r] \in Tuples(3)
  BY <1>1 DEF Keys
<1>7. first \in B
  <2>1. first \in 1..n
    <3>1. descending(key) \in [1..Cardinality(1..n) -> 1..n]
      BY <1>5 DEF Sorts
    <3>2. 1 \in 1..Cardinality(1..n)
      BY <1>4
    <3> QED BY <3>1, <3>2
  <2>2. ASSUME NEW q \in 1..n PROVE ~below(key[first], key[q])
    <3>1. PICK m \in 1..n : descending(key)[m] = q
      BY <1>4, <1>5 DEF Sorts
    <3>2. CASE m = 1
      <4>1. ~below(key[q], key[q])
        BY <1>6, BelowTotal
      <4> QED BY <3>1, <3>2, <4>1
    <3>3. CASE m # 1
      <4>1. 1 \in 1..n /\ 1 < m
        BY <3>3
      <4> QED BY <4>1, <3>1, <1>4, <1>5 DEF Sorts
    <3> QED BY <3>2, <3>3
  <2> QED BY <2>1, <2>2
<1>8. B \subseteq 1..n /\ B # {}
  BY <1>7
<1> DEFINE b == Min(B)
<1>9. b \in B /\ \A r \in B : b <= r
  <2>1. n \in Int
    OBVIOUS
  <2> HIDE DEF B
  <2> QED BY <1>8, <2>1, MinOfInterval
<1>10. b \in 1..n /\ \A r \in 1..n : ~below(key[b], key[r])
  <2> HIDE DEF b
  <2> QED BY <1>9
<1> HIDE DEF b
<1>11. \A r \in 1..n : r < b => r \notin B
  <2> HIDE DEF B
  <2> QED BY <1>9, <1>10
<1>12. \A r \in 1..n : r < b => \E q \in 1..n : below(key[r], key[q])
  BY <1>11
<1> HIDE DEF B
<1>13. ASSUME NEW r \in 1..n, r < b PROVE below(key[r], key[b])
  <2>1. PICK q \in 1..n : below(key[r], key[q])
    BY <1>12, <1>13
  <2>2. /\ key[r] \in Tuples(3) /\ key[q] \in Tuples(3) /\ key[b] \in Tuples(3)
        /\ ~below(key[b], key[q])
    BY <1>6, <1>10
  <2>3. below(key[q], key[b]) \/ key[q] = key[b]
    BY <2>2, BelowTotal
  <2> QED BY <2>1, <2>2, <2>3, BelowTransitive
<1>14. best_round(csvs) = b
  BY <1>3 DEF b
<1> QED BY <1>2, <1>10, <1>13, <1>14

\* Every CSV is of replays; a round that is over has one; and the summary is of
\* rounds that all have rows.
CsvInv ==
  /\ csv \in [RoundsOf(experiment) -> Seq(Rows) \union {NoCsv}]
  /\ \A r \in RoundsOf(experiment) :
       r < round \/ (r = round /\ step = "select") \/ step \in {"done", "summarized"}
         => csv[r] # NoCsv
  /\ step = "summarized" =>
       /\ summary.best = best_round(csv)
       /\ \A r \in RoundsOf(experiment) : csv[r] # << >>

LEMMA CsvStep == LoopInv /\ CsvInv /\ [Next]_vars => CsvInv'
<1> SUFFICES ASSUME LoopInv, CsvInv, [Next]_vars PROVE CsvInv'
  OBVIOUS
<1>1. /\ round \in RoundsOf(experiment) /\ experiment.rounds \in Nat \ {0}
      /\ RoundsOf(experiment) = 1..experiment.rounds /\ round \in Nat
  BY RoundsAreNumbers DEF LoopInv, TypeInv
<1>2. CASE Fuzz \/ FuzzFails \/ Preselect
  <2>1. /\ UNCHANGED <<experiment, round, csv>> /\ step \notin {"select", "done", "summarized"}
        /\ step' \notin {"select", "done", "summarized"}
    BY <1>2 DEF Fuzz, FuzzFails, Preselect, disk
  <2> QED BY <2>1 DEF CsvInv, RoundsOf
<1>3. CASE Analyze
  <2>1. /\ UNCHANGED <<experiment, round>> /\ step = "analyze" /\ step' \in {"select", "stopped"}
        /\ (step' = "select" \/ UNCHANGED csv)
    BY <1>3 DEF Analyze
  <2>2. CASE step' = "select"
    <3>1. PICK traces \in [DOMAIN preselected -> experiment.traces] :
            csv' = [csv EXCEPT ![round] = rows_of(traces)]
      BY <1>3, <2>2 DEF Analyze
    <3>2. experiment.traces \subseteq Seq(Events)
      BY ExperimentsAssumption DEF LoopInv, TypeInv
    <3>3. DOMAIN preselected = 1..Len(preselected) /\ Len(preselected) \in Nat
      BY <2>1 DEF LoopInv, RoundInv
    <3>4. traces \in [1..Len(preselected) -> Seq(Events)]
      BY <3>2, <3>3
    <3>5. rows_of(traces) \in Seq(Rows)
      BY <3>3, <3>4, CsvType
    <3>6. rows_of(traces) # NoCsv
      BY <3>5, ExperimentsAssumption
    <3> HIDE <3>4
    <3>7. csv' \in [RoundsOf(experiment) -> Seq(Rows) \union {NoCsv}]
      BY <3>1, <3>5 DEF CsvInv
    <3>8. \A r \in RoundsOf(experiment) : csv'[r] = IF r = round THEN rows_of(traces) ELSE csv[r]
      BY <3>1 DEF CsvInv
    <3>9. \A r \in RoundsOf(experiment) : r <= round => csv'[r] # NoCsv
      BY <3>6, <3>8, <1>1 DEF CsvInv
    <3> QED BY <2>1, <2>2, <3>7, <3>9, <1>1 DEF CsvInv, RoundsOf
  <2>3. CASE step' = "stopped" /\ UNCHANGED csv
    BY <2>1, <2>3 DEF CsvInv, RoundsOf
  <2> QED BY <2>1, <2>2, <2>3
<1>4. CASE Select
  <2>1. /\ UNCHANGED <<experiment, csv>> /\ step = "select"
        /\ \/ step' = "done" /\ round' = round /\ round = experiment.rounds
           \/ step' = "fuzz" /\ round' = round + 1
    BY <1>4 DEF Select
  <2>2. \A r \in RoundsOf(experiment) : r <= round => csv[r] # NoCsv
    BY <2>1, <1>1 DEF CsvInv
  <2>3. CASE step' = "done" /\ round' = round /\ round = experiment.rounds
    BY <2>1, <2>2, <2>3, <1>1 DEF CsvInv, RoundsOf
  <2>4. CASE step' = "fuzz" /\ round' = round + 1
    <3>1. \A r \in RoundsOf(experiment) : r < round' => r <= round
      BY <2>4, <1>1
    <3> QED BY <2>1, <2>2, <2>4, <3>1 DEF CsvInv, RoundsOf
  <2> QED BY <2>1, <2>3, <2>4
<1>5. CASE Summarize
  <2>1. /\ UNCHANGED <<experiment, round, csv>> /\ step = "done" /\ step' = "summarized"
        /\ \A r \in RoundsOf(experiment) : csv[r] # << >>
        /\ summary'.best = best_round(csv)
    BY <1>5 DEF Summarize, summarized, disk
  <2> QED BY <2>1 DEF CsvInv, RoundsOf
<1>6. CASE StartAgain
  <2>1. UNCHANGED <<experiment, csv>> /\ round' = 1 /\ step' = "fuzz"
    BY <1>6 DEF StartAgain
  <2>2. \A r \in RoundsOf(experiment) : ~(r < 1)
    BY <1>1
  <2> QED BY <2>1, <2>2 DEF CsvInv, RoundsOf
<1>7. CASE UNCHANGED vars
  <2>1. UNCHANGED <<experiment, round, step, csv, summary>>
    BY <1>7 DEF vars, disk
  <2> QED BY <2>1 DEF CsvInv, RoundsOf
<1> QED BY <1>2, <1>3, <1>4, <1>5, <1>6, <1>7 DEF Next

-----------------------------------------------------------------------------
(* What the C programs make of a testcase depends on its shape only.       *)

Width(t) == IF Len(t.records) < 64 THEN Len(t.records) ELSE 64

LEMMA SameDecoding ==
  ASSUME NEW t \in Testcases
  PROVE  /\ Width(t) \in Nat
         /\ DOMAIN semantic_shape(t) = 1..Width(t) /\ Len(semantic_shape(t)) = Width(t)
         /\ DOMAIN Targets!decode_ops(t) = 1..Width(t) /\ Len(Targets!decode_ops(t)) = Width(t)
         /\ \A i \in 1..Width(t) :
              /\ semantic_shape(t)[i][1] \in 0..26 /\ semantic_shape(t)[i][2] \in 1..3
              /\ Targets!operation(Targets!decode_ops(t)[i]) = semantic_shape(t)[i][1]
              /\ Targets!repeats(Targets!decode_ops(t)[i]) = semantic_shape(t)[i][2]
<1> DEFINE W == Width(t)
           ops == [ i \in 1..W |-> [operation |-> t.records[i][1], repeat |-> t.records[i][2]] ]
           shape == [ i \in 1..W |-> << t.records[i][1] % 27, (t.records[i][2] % 3) + 1 >> ]
<1>1. t.records \in Seq((0..255) \X (0..255)) /\ Len(t.records) \in Nat
  BY DEF Testcases
<1>2. W \in Nat /\ W <= Len(t.records)
  BY <1>1 DEF Width
<1>3. semantic_shape(t) = shape
  BY DEF semantic_shape, OP_MAX, MAX_OPS, MAX_REPEAT, Width
<1>4. Targets!decode_ops(t) = ops
  BY DEF Targets!decode_ops, Targets!SYSTEMCTL_MAX_OPS, Width
<1> HIDE DEF W
<1>5. Len(shape) = W
  <2>1. shape \in Seq({ shape[i] : i \in 1..W })
    <3>1. shape = [ i \in 1..W |-> shape[i] ]
      OBVIOUS
    <3> HIDE DEF shape
    <3> QED BY <3>1, <1>2, IsASeq
  <2>2. DOMAIN shape = 1..W
    OBVIOUS
  <2> HIDE DEF shape
  <2> QED BY <2>1, <2>2, <1>2, LenProperties
<1>6. Len(ops) = W
  <2>1. ops \in Seq({ ops[i] : i \in 1..W })
    <3>1. ops = [ i \in 1..W |-> ops[i] ]
      OBVIOUS
    <3> HIDE DEF ops
    <3> QED BY <3>1, <1>2, IsASeq
  <2>2. DOMAIN ops = 1..W
    OBVIOUS
  <2> HIDE DEF ops
  <2> QED BY <2>1, <2>2, <1>2, LenProperties
<1>7. ASSUME NEW i \in 1..W
      PROVE  /\ shape[i][1] \in 0..26 /\ shape[i][2] \in 1..3
             /\ Targets!operation(ops[i]) = shape[i][1]
             /\ Targets!repeats(ops[i]) = shape[i][2]
  <2>1. t.records[i] \in (0..255) \X (0..255)
    BY <1>1, <1>2
  <2>2. t.records[i][1] \in 0..255 /\ t.records[i][2] \in 0..255
    BY <2>1
  <2>3. t.records[i][1] % 27 \in 0..26 /\ (t.records[i][2] % 3) + 1 \in 1..3
    <3>1. PICK a \in 0..255 : a = t.records[i][1]
      BY <2>2
    <3>2. PICK b \in 0..255 : b = t.records[i][2]
      BY <2>2
    <3>3. a % 27 \in 0..26
      OBVIOUS
    <3>4. (b % 3) + 1 \in 1..3
      OBVIOUS
    <3> QED BY <3>1, <3>2, <3>3, <3>4
  <2>4. shape[i][1] = t.records[i][1] % 27 /\ shape[i][2] = (t.records[i][2] % 3) + 1
    OBVIOUS
  <2>5. Targets!operation(ops[i]) = t.records[i][1] % 27
    BY DEF Targets!operation, Targets!SAFE_COMMAND_COUNT
  <2>6. Targets!repeats(ops[i]) = (t.records[i][2] % 3) + 1
    BY DEF Targets!repeats, Targets!MAX_REPEAT
  <2> HIDE DEF shape, ops
  <2> QED BY <2>3, <2>4, <2>5, <2>6
<1>8. DOMAIN shape = 1..W /\ DOMAIN ops = 1..W
  OBVIOUS
<1> HIDE DEF shape, ops
<1> QED BY <1>2, <1>3, <1>4, <1>5, <1>6, <1>7, <1>8 DEF W

\* The runs of a shape's operations, one after the other.
RunsOf(shape) == [ i \in DOMAIN shape |-> [ r \in 1..shape[i][2] |-> shape[i][1] ] ]

LEMMA CommandsOfShape ==
  ASSUME NEW t \in Testcases
  PROVE  Targets!commands(t) = Targets!FlattenSeq(RunsOf(semantic_shape(t)))
<1> DEFINE ops == Targets!decode_ops(t)
           shape == semantic_shape(t)
           runs == [ i \in DOMAIN ops |->
                       [ r \in 1..Targets!repeats(ops[i]) |-> Targets!operation(ops[i]) ] ]
<1>1. /\ DOMAIN ops = DOMAIN shape
      /\ \A i \in DOMAIN shape : /\ Targets!operation(ops[i]) = shape[i][1]
                                 /\ Targets!repeats(ops[i]) = shape[i][2]
  BY SameDecoding
<1>2. Targets!commands(t) = Targets!FlattenSeq(runs)
  BY DEF Targets!commands
<1> HIDE DEF ops, shape
<1>3. \A i \in DOMAIN shape :
        [ r \in 1..Targets!repeats(ops[i]) |-> Targets!operation(ops[i]) ]
          = [ r \in 1..shape[i][2] |-> shape[i][1] ]
  BY <1>1
<1>4. runs = RunsOf(shape)
  BY <1>1, <1>3 DEF RunsOf
<1> QED BY <1>2, <1>4 DEF shape

\* The operation at a place of a shape; before the first there is none.
OperationAt(shape, i) == IF i = 0 THEN 27 ELSE shape[i][1]

CoverageOf(shape) ==
  [ count |-> Targets!observe_count(Len(shape)),
    ops |-> { OperationAt(shape, i) : i \in DOMAIN shape },
    repeats |-> { shape[i][2] : i \in DOMAIN shape },
    families |-> { Targets!OP_FAMILIES[OperationAt(shape, i)] : i \in DOMAIN shape },
    pairs |-> UNION { Targets!observe_pair(OperationAt(shape, i - 1), OperationAt(shape, i)) :
                        i \in DOMAIN shape } ]

LEMMA CoverageOfShape ==
  ASSUME NEW t \in Testcases
  PROVE  Targets!generator_coverage(t) = CoverageOf(semantic_shape(t))
<1> DEFINE ops == Targets!decode_ops(t)
           shape == semantic_shape(t)
           op(i) == IF i = 0 THEN 27 ELSE Targets!operation(ops[i])
<1>1. /\ DOMAIN ops = DOMAIN shape /\ Len(ops) = Len(shape)
      /\ Width(t) \in Nat /\ DOMAIN shape = 1..Width(t)
      /\ \A i \in DOMAIN shape : /\ Targets!operation(ops[i]) = shape[i][1]
                                 /\ Targets!repeats(ops[i]) = shape[i][2]
  BY SameDecoding
<1>2. Targets!generator_coverage(t) =
        [ count |-> Targets!observe_count(Len(ops)),
          ops |-> { op(i) : i \in DOMAIN ops },
          repeats |-> { Targets!repeats(ops[i]) : i \in DOMAIN ops },
          families |-> { Targets!OP_FAMILIES[op(i)] : i \in DOMAIN ops },
          pairs |-> UNION { Targets!observe_pair(op(i - 1), op(i)) : i \in DOMAIN ops } ]
  BY DEF Targets!generator_coverage, Targets!SAFE_COMMAND_COUNT
<1> HIDE DEF ops, shape
<1>3. \A i \in DOMAIN shape : op(i) = OperationAt(shape, i)
                              /\ op(i - 1) = OperationAt(shape, i - 1)
  <2> TAKE i \in DOMAIN shape
  <2>1. i \in 1..Width(t) /\ (i - 1 = 0 \/ i - 1 \in 1..Width(t))
    BY <1>1
  <2> QED BY <2>1, <1>1 DEF OperationAt
<1> HIDE DEF op
<1>4. { op(i) : i \in DOMAIN ops } = { OperationAt(shape, i) : i \in DOMAIN shape }
  BY <1>1, <1>3
<1>5. { Targets!repeats(ops[i]) : i \in DOMAIN ops } = { shape[i][2] : i \in DOMAIN shape }
  BY <1>1
<1>6. { Targets!OP_FAMILIES[op(i)] : i \in DOMAIN ops }
        = { Targets!OP_FAMILIES[OperationAt(shape, i)] : i \in DOMAIN shape }
  BY <1>1, <1>3
<1>7. { Targets!observe_pair(op(i - 1), op(i)) : i \in DOMAIN ops }
        = { Targets!observe_pair(OperationAt(shape, i - 1), OperationAt(shape, i)) :
              i \in DOMAIN shape }
  BY <1>1, <1>3
<1>8. Targets!generator_coverage(t) = CoverageOf(shape)
  BY <1>1, <1>2, <1>4, <1>5, <1>6, <1>7 DEF CoverageOf
<1> QED BY <1>8 DEF shape

-----------------------------------------------------------------------------
(* The number of commands.                                                 *)

\* f joins the first n of the sequences seqs.
JoinsFirst(f, n, seqs, S) ==
  /\ f \in [1..n -> Seq(S)] /\ f[1] = seqs[1]
  /\ \A m \in 2..n : f[m] = f[m - 1] \o seqs[m]

\* No least number of sequences has no joined sequence.
LEMMA Joined ==
  ASSUME NEW S, NEW N \in Nat \ {0}, NEW seqs \in [1..N -> Seq(S)]
  PROVE  \E f : JoinsFirst(f, N, seqs, S)
<1> DEFINE without == { n \in 1..N : ~\E f : JoinsFirst(f, n, seqs, S) }
<1>1. without = {}
  <2> SUFFICES ASSUME without # {} PROVE FALSE
    OBVIOUS
  <2>1. without \subseteq Nat
    OBVIOUS
  <2>2. PICK n \in without : \A k \in without : n <= k
    <3> HIDE DEF without
    <3> QED BY <2>1, LeastNatural
  <2>3. CASE n = 1
    <3>1. JoinsFirst([ m \in 1..1 |-> seqs[1] ], 1, seqs, S)
      BY DEF JoinsFirst
    <3> QED BY <2>2, <2>3, <3>1
  <2>4. CASE n # 1
    <3>0. n \in 1..N
      BY <2>2
    <3>1. n - 1 \in 1..N /\ n - 1 \notin without /\ n \in 1..N
      <4> HIDE DEF without
      <4> QED BY <3>0, <2>2, <2>4
    <3>2. PICK f : JoinsFirst(f, n - 1, seqs, S)
      BY <3>1
    <3> DEFINE h == [ m \in 1..n |-> IF m = n THEN f[n - 1] \o seqs[n] ELSE f[m] ]
    <3>3. f \in [1..(n - 1) -> Seq(S)] /\ n \in Nat /\ n - 1 \in 1..(n - 1) /\ n > 1
      BY <3>1, <3>2 DEF JoinsFirst
    <3>4. f[n - 1] \o seqs[n] \in Seq(S)
      <4>1. f[n - 1] \in Seq(S) /\ seqs[n] \in Seq(S)
        BY <3>1, <3>3
      <4> QED BY <4>1, ConcatProperties
    <3>5. \A m \in 1..n : m # n => m \in 1..(n - 1)
      BY <3>3
    <3>6. h \in [1..n -> Seq(S)]
      BY <3>3, <3>4, <3>5
    <3>7. h[1] = seqs[1]
      <4>1. 1 \in 1..n /\ 1 # n
        BY <3>3
      <4>2. h[1] = f[1]
        BY <4>1
      <4> QED BY <4>2, <3>2 DEF JoinsFirst
    <3>8. ASSUME NEW m \in 2..n PROVE h[m] = h[m - 1] \o seqs[m]
      <4>1. CASE m = n
        <5>1. m - 1 \in 1..n /\ m - 1 # n /\ m \in 1..n
          BY <4>1, <3>3
        <5>2. h[m] = f[n - 1] \o seqs[n] /\ h[m - 1] = f[m - 1]
          BY <5>1, <4>1
        <5> HIDE DEF h
        <5> QED BY <5>2, <4>1
      <4>2. CASE m # n
        <5>1. m \in 2..(n - 1) /\ m - 1 \in 1..n /\ m - 1 # n /\ m \in 1..n
          BY <4>2, <3>3
        <5>2. h[m] = f[m] /\ h[m - 1] = f[m - 1]
          BY <5>1, <4>2
        <5>3. f[m] = f[m - 1] \o seqs[m]
          BY <5>1, <3>2 DEF JoinsFirst
        <5> HIDE DEF h
        <5> QED BY <5>2, <5>3
      <4> QED BY <4>1, <4>2
    <3> HIDE DEF h
    <3>9. JoinsFirst(h, n, seqs, S)
      BY <3>6, <3>7, <3>8 DEF JoinsFirst
    <3> QED BY <2>2, <3>9
  <2> QED BY <2>3, <2>4
<1>2. N \in 1..N
  OBVIOUS
<1> QED BY <1>1, <1>2

\* There is one way of joining, so that FlattenSeq is it.
LEMMA FlattenOf ==
  ASSUME NEW S, NEW N \in Nat \ {0}, NEW seqs \in [1..N -> Seq(S)], Len(seqs) = N,
         NEW f, JoinsFirst(f, N, seqs, S)
  PROVE  Targets!FlattenSeq(seqs) = f[N]
<1> DEFINE flatten == CHOOSE g : g = [ i \in 1..N |-> IF i = 1 THEN seqs[i] ELSE g[i - 1] \o seqs[i] ]
<1>1. f = [ i \in 1..N |-> IF i = 1 THEN seqs[i] ELSE f[i - 1] \o seqs[i] ]
  <2>1. f = [ i \in 1..N |-> f[i] ]
    BY DEF JoinsFirst
  <2>2. \A i \in 1..N : f[i] = IF i = 1 THEN seqs[i] ELSE f[i - 1] \o seqs[i]
    <3> TAKE i \in 1..N
    <3>1. i = 1 \/ i \in 2..N
      OBVIOUS
    <3> QED BY <3>1 DEF JoinsFirst
  <2> QED BY <2>1, <2>2
<1>2. \E g : g = [ i \in 1..N |-> IF i = 1 THEN seqs[i] ELSE g[i - 1] \o seqs[i] ]
  BY <1>1
<1>3. flatten = [ i \in 1..N |-> IF i = 1 THEN seqs[i] ELSE flatten[i - 1] \o seqs[i] ]
  BY <1>2
<1>4. Targets!FlattenSeq(seqs) = flatten[N]
  BY DEF Targets!FlattenSeq
<1> HIDE DEF flatten
<1>5. ASSUME NEW m \in 1..N, flatten[m] # f[m] PROVE FALSE
  <2> DEFINE wrong == { n \in 1..N : flatten[n] # f[n] }
  <2>1. wrong \subseteq Nat /\ wrong # {}
    <3>1. m \in wrong
      BY <1>5
    <3>2. wrong \subseteq 1..N
      OBVIOUS
    <3> HIDE DEF wrong
    <3> QED BY <3>1, <3>2
  <2>2. PICK n \in wrong : \A k \in wrong : n <= k
    <3> HIDE DEF wrong
    <3> QED BY <2>1, LeastNatural
  <2>3. n \in 1..N /\ flatten[n] # f[n]
    BY <2>2
  <2>4. CASE n = 1
    <3>1. flatten[1] = seqs[1] /\ f[1] = seqs[1]
      BY <1>3 DEF JoinsFirst
    <3> QED BY <2>3, <2>4, <3>1
  <2>5. CASE n # 1
    <3>1. n - 1 \in 1..N /\ n - 1 \notin wrong
      BY <2>2, <2>3, <2>5
    <3>2. flatten[n - 1] = f[n - 1]
      BY <3>1
    <3>3. flatten[n] = flatten[n - 1] \o seqs[n]
      BY <1>3, <2>3, <2>5
    <3>4. f[n] = f[n - 1] \o seqs[n]
      BY <1>1, <2>3, <2>5
    <3> QED BY <2>3, <3>2, <3>3, <3>4
  <2> QED BY <2>4, <2>5
<1> QED BY <1>4, <1>5

\* As many commands are run as the shape counts.
LEMMA CommandsCounted ==
  ASSUME NEW t \in Testcases
  PROVE  Len(Targets!commands(t)) = expanded_commands(semantic_shape(t))
<1> DEFINE shape == semantic_shape(t)
           N == Width(t)
           seqs == RunsOf(shape)
           numbers == [ i \in DOMAIN shape |-> shape[i][2] ]
<1>1. /\ N \in Nat /\ DOMAIN shape = 1..N
      /\ \A i \in 1..N : shape[i][1] \in 0..26 /\ shape[i][2] \in 1..3
  BY SameDecoding
<1>2. Targets!commands(t) = Targets!FlattenSeq(seqs)
  BY CommandsOfShape
<1>3. expanded_commands(shape) = total(numbers)
  BY DEF expanded_commands
<1> HIDE DEF shape, N
<1>4. ASSUME NEW i \in 1..N
      PROVE  seqs[i] \in Seq(0..26) /\ Len(seqs[i]) = numbers[i] /\ numbers[i] \in Nat
  <2>0. i \in DOMAIN shape
    BY <1>1
  <2>1. seqs[i] = [ r \in 1..shape[i][2] |-> shape[i][1] ]
    BY <2>0 DEF RunsOf
  <2>2. numbers[i] = shape[i][2] /\ shape[i][2] \in Nat /\ shape[i][1] \in 0..26
    <3>1. numbers[i] = shape[i][2]
      BY <2>0
    <3>2. shape[i][2] \in 1..3 /\ shape[i][1] \in 0..26
      BY <1>1
    <3> HIDE DEF numbers
    <3> QED BY <3>1, <3>2
  <2> HIDE DEF seqs, numbers
  <2>3. seqs[i] \in Seq(0..26)
    <3>1. PICK c \in Nat : c = shape[i][2]
      BY <2>2
    <3>2. seqs[i] \in [1..c -> 0..26]
      BY <2>1, <2>2, <3>1
    <3> QED BY <3>2
  <2>4. DOMAIN seqs[i] = 1..shape[i][2]
    BY <2>1
  <2>5. Len(seqs[i]) = shape[i][2]
    BY <2>2, <2>3, <2>4, LenProperties
  <2> QED BY <2>2, <2>3, <2>5
<1>5. seqs = [ i \in 1..N |-> seqs[i] ] /\ numbers = [ i \in 1..N |-> numbers[i] ]
  BY <1>1 DEF RunsOf
<1> HIDE DEF seqs, numbers
<1> DEFINE Ops == 0..26
<1>6. seqs \in Seq(Seq(Ops)) /\ seqs \in [1..N -> Seq(Ops)] /\ numbers \in Seq(Nat)
  <2>1. seqs \in [1..N -> Seq(Ops)]
    BY <1>4, <1>5
  <2>2. numbers \in [1..N -> Nat]
    BY <1>4, <1>5
  <2> HIDE DEF Ops
  <2>3. N \in Nat
    BY <1>1
  <2>4. seqs \in Seq(Seq(Ops))
    BY <2>1, <2>3
  <2>5. numbers \in Seq(Nat)
    BY <2>2, <2>3
  <2> QED BY <2>1, <2>4, <2>5
<1>7. Len(seqs) = N /\ Len(numbers) = N
  <2>1. DOMAIN seqs = 1..N /\ DOMAIN numbers = 1..N
    BY <1>5
  <2> QED BY <2>1, <1>1, <1>6, LenProperties
<1>8. CASE N = 0
  <2>1. Targets!FlattenSeq(seqs) = seqs
    BY <1>7, <1>8 DEF Targets!FlattenSeq
  <2> DEFINE g == [ n \in 0..0 |-> 0 ]
  <2>2. Sums(g, numbers)
    BY <1>7, <1>8 DEF Sums
  <2>3. g[0] = 0
    OBVIOUS
  <2> HIDE DEF g
  <2>4. total(numbers) = g[0]
    BY <2>2, <1>7, <1>8, TotalOf
  <2> QED BY <2>1, <2>3, <2>4, <1>2, <1>3, <1>7, <1>8 DEF shape
<1>9. CASE N # 0
  <2>1. N \in Nat \ {0}
    BY <1>1, <1>9
  <2> HIDE DEF Ops
  <2>2. PICK f : JoinsFirst(f, N, seqs, Ops)
    BY <2>1, <1>6, Joined
  <2>3. Targets!FlattenSeq(seqs) = f[N]
    BY <2>1, <2>2, <1>6, <1>7, FlattenOf
  <2> DEFINE g == [ n \in 0..N |-> IF n = 0 THEN 0 ELSE Len(f[n]) ]
  <2>4. f \in [1..N -> Seq(Ops)] /\ f[1] = seqs[1]
        /\ \A m \in 2..N : f[m] = f[m - 1] \o seqs[m]
    BY <2>2 DEF JoinsFirst
  <2>5. ASSUME NEW n \in 0..N
        PROVE  g[n] = IF n = 0 THEN 0 ELSE g[n - 1] + numbers[n]
    <3>1. CASE n = 0
      BY <3>1
    <3>2. CASE n = 1
      <4>1. g[1] = Len(f[1]) /\ g[0] = 0 /\ 1 \in 1..N
        BY <2>1
      <4>2. Len(f[1]) = numbers[1] /\ numbers[1] \in Nat
        BY <4>1, <2>4, <1>4
      <4> HIDE DEF g
      <4> QED BY <3>2, <4>1, <4>2
    <3>3. CASE n \in 2..N
      <4>1. n \in 1..N /\ n - 1 \in 1..N /\ n - 1 \in 0..N /\ n # 0 /\ n - 1 # 0
        BY <3>3, <2>1
      <4>2. g[n] = Len(f[n]) /\ g[n - 1] = Len(f[n - 1])
        BY <4>1
      <4>3. f[n] = f[n - 1] \o seqs[n] /\ f[n - 1] \in Seq(Ops) /\ seqs[n] \in Seq(Ops)
        BY <4>1, <3>3, <2>4, <1>6
      <4>4. Len(f[n]) = Len(f[n - 1]) + Len(seqs[n])
        BY <4>3, ConcatProperties
      <4>5. Len(seqs[n]) = numbers[n]
        BY <4>1, <1>4
      <4> HIDE DEF g
      <4> QED BY <4>1, <4>2, <4>4, <4>5
    <3> QED BY <3>1, <3>2, <3>3, <2>1
  <2>6. g = [ n \in 0..N |-> g[n] ]
    OBVIOUS
  <2>7. g[N] = Len(f[N])
    BY <2>1
  <2> HIDE DEF g
  <2>8. Sums(g, numbers)
    BY <2>5, <2>6, <1>7 DEF Sums
  <2>9. total(numbers) = g[N]
    BY <2>1, <2>8, <1>7, TotalOf
  <2> QED BY <2>3, <2>7, <2>9, <1>2, <1>3 DEF shape
<1> QED BY <1>8, <1>9

-----------------------------------------------------------------------------
(* The signature of a testcase.                                            *)

\* order lists K from its least element to its greatest.
Increasing(order, K) ==
  /\ Cardinality(K) \in Nat
  /\ order \in [1..Cardinality(K) -> K]
  /\ \A i \in K : \E n \in 1..Cardinality(K) : order[n] = i
  /\ \A l, m \in 1..Cardinality(K) : l < m => order[l] < order[m]

\* What at returns follows the order.
Reads(order, K) == \A s : at(K, s) = [ n \in 1..Cardinality(K) |-> s[order[n]] ]

\* at reads a sequence at its positions from the first to the last.
LEMMA At ==
  ASSUME NEW m \in Nat, NEW K, K \subseteq 1..m
  PROVE  \E order : Increasing(order, K) /\ Reads(order, K)
<1> DEFINE key == [ i \in K |-> << 0 - i >> ]
           order == descending(key)
<1>1. IsFiniteSet(K)
  <2>1. 1 \in Int /\ m \in Int
    OBVIOUS
  <2>2. IsFiniteSet(1..m)
    BY <2>1, FS_Interval
  <2> QED BY <2>2, FS_Subset
<1>2. \A i \in K : i \in Int
  OBVIOUS
<1>3. key \in Keys(1, K)
  <2>1. \A i \in K : << 0 - i >> \in [1..1 -> Int]
    BY <1>2
  <2> QED BY <2>1 DEF Keys, Tuples
<1>4. ASSUME NEW i \in K, NEW j \in K
      PROVE  (below(key[i], key[j]) <=> j < i) /\ (ahead(key, i, j) <=> i < j)
  <2>1. key[i] = << 0 - i >> /\ key[j] = << 0 - j >> /\ i \in Int /\ j \in Int
    BY <1>2
  <2>2. \A a, b \in Int : below(<< 0 - a >>, << 0 - b >>) <=> b < a
    <3> TAKE a, b \in Int
    <3>1. PICK x : x = << 0 - a >>
      OBVIOUS
    <3>2. PICK y : y = << 0 - b >>
      OBVIOUS
    <3>3. DOMAIN x = {1} /\ x[1] = 0 - a
      BY <3>1
    <3>4. y[1] = 0 - b
      BY <3>2
    <3>5. below(x, y) <=> x[1] < y[1]
      BY <3>3, <3>4 DEF below
    <3>6. x[1] < y[1] <=> b < a
      BY <3>3, <3>4
    <3> QED BY <3>1, <3>2, <3>5, <3>6
  <2>3. (below(key[i], key[j]) <=> j < i) /\ (below(key[j], key[i]) <=> i < j)
    BY <2>1, <2>2
  <2> HIDE DEF key
  <2> QED BY <2>1, <2>3 DEF ahead
<1>5. DOMAIN key = K
  OBVIOUS
<1> HIDE DEF key
<1>6. Sorts(order, K, key)
  <2>1. K \subseteq Int
    BY <1>2
  <2>2. 1 \in Nat
    OBVIOUS
  <2> QED BY <2>1, <2>2, <1>1, <1>3, Descending
<1>7. Increasing(order, K)
  <2>1. /\ Cardinality(K) \in Nat /\ order \in [1..Cardinality(K) -> K]
        /\ \A i \in K : \E n \in 1..Cardinality(K) : order[n] = i
    BY <1>6 DEF Sorts
  <2>2. ASSUME NEW l \in 1..Cardinality(K), NEW n \in 1..Cardinality(K), l < n
        PROVE  order[l] < order[n]
    <3>1. order[l] # order[n] /\ ~below(key[order[l]], key[order[n]])
      BY <1>6, <2>2 DEF Sorts
    <3>2. order[l] \in K /\ order[n] \in K
      BY <2>1
    <3> HIDE DEF order
    <3>3. PICK i \in K : i = order[l]
      BY <3>2
    <3>4. PICK j \in K : j = order[n]
      BY <3>2
    <3>5. i # j /\ ~(j < i)
      BY <3>1, <3>3, <3>4, <1>4
    <3>6. i \in Int /\ j \in Int
      BY <1>2
    <3>7. i < j
      BY <3>5, <3>6
    <3> QED BY <3>3, <3>4, <3>7
  <2> HIDE DEF order
  <2> QED BY <2>1, <2>2 DEF Increasing
<1>8. ASSUME NEW n \in 1..Cardinality(K)
      PROVE  order[n] = CHOOSE i \in K : Cardinality({ j \in K : j < i }) = n - 1
  <2>1. order[n] = CHOOSE i \in K : Cardinality({ j \in K : ahead(key, j, i) }) = n - 1
    BY <1>5 DEF descending
  <2>2. \A i \in K : { j \in K : ahead(key, j, i) } = { j \in K : j < i }
    BY <1>4
  <2> HIDE DEF order
  <2> QED BY <2>1, <2>2
<1> HIDE DEF order
<1> DEFINE ith(n) == CHOOSE i \in K : Cardinality({ j \in K : j < i }) = n - 1
<1>9. ASSUME NEW s
      PROVE  at(K, s) = [ n \in 1..Cardinality(K) |-> s[order[n]] ]
  <2>1. at(K, s) = [ n \in 1..Cardinality(K) |-> s[ith(n)] ]
    BY DEF at
  <2>2. \A n \in 1..Cardinality(K) : ith(n) = order[n]
    BY <1>8
  <2> HIDE DEF ith
  <2> QED BY <2>1, <2>2
<1>10. Reads(order, K)
  BY <1>9 DEF Reads
<1> QED BY <1>7, <1>10

\* The first of every group of equals in a row.
Starts(all) == { i \in DOMAIN all : i = 1 \/ all[i] # all[i - 1] }

\* Everything in a sequence is at the start of a group.
LEMMA StartsReach ==
  ASSUME NEW m \in Nat, NEW all, DOMAIN all = 1..m, NEW i \in 1..m
  PROVE  \E k \in Starts(all) : all[k] = all[i]
<1> DEFINE alike == { j \in 1..m : all[j] = all[i] }
<1>1. alike \subseteq Nat /\ alike # {}
  OBVIOUS
<1>2. PICK k \in alike : \A j \in alike : k <= j
  <2> HIDE DEF alike
  <2> QED BY <1>1, LeastNatural
<1>3. k \in 1..m /\ all[k] = all[i]
  BY <1>2
<1>4. ASSUME k # 1 PROVE all[k] # all[k - 1]
  <2>1. k - 1 \in 1..m /\ k - 1 \notin alike
    <3> HIDE DEF alike
    <3> QED BY <1>2, <1>3, <1>4
  <2> QED BY <2>1, <1>3
<1> QED BY <1>3, <1>4 DEF Starts

\* Between a start and the next one everything equals the start.
LEMMA StartsHold ==
  ASSUME NEW m \in Nat, NEW all, DOMAIN all = 1..m,
         NEW k \in 1..m, NEW l \in 1..m, k < l,
         \A j \in Starts(all) : ~(k < j /\ j < l)
  PROVE  all[l - 1] = all[k]
<1> SUFFICES ASSUME all[l - 1] # all[k] PROVE FALSE
  OBVIOUS
<1> DEFINE other == { j \in k..(l - 1) : all[j] # all[k] }
<1>1. other \subseteq Nat /\ l - 1 \in other
  OBVIOUS
<1>2. PICK j \in other : \A i \in other : j <= i
  <2>1. other # {}
    BY <1>1
  <2> HIDE DEF other
  <2> QED BY <1>1, <2>1, LeastNatural
<1>3. j \in k..(l - 1) /\ all[j] # all[k]
  BY <1>2
<1>4. j # k
  BY <1>3
<1>5. j - 1 \in k..(l - 1) /\ j \in 1..m /\ k < j /\ j < l
  BY <1>3, <1>4
<1>6. j - 1 \notin other
  <2> HIDE DEF other
  <2> QED BY <1>2, <1>5
<1>7. all[j - 1] = all[k]
  BY <1>5, <1>6
<1>8. j \in Starts(all)
  BY <1>3, <1>5, <1>7 DEF Starts
<1> QED BY <1>5, <1>8

\* The families of select_corpus.py are those of the generator.
LEMMA SameFamilies ==
  ASSUME NEW op \in 0..26
  PROVE  OP_FAMILIES[op + 1] = Targets!OP_FAMILIES[op]
<1> DEFINE from == [ meta |-> {0, 8} \union (12..15), query |-> (5..7) \union (9..11),
                     lifecycle |-> (1..4) \union (18..20), failure |-> {16}, fs |-> {17},
                     timer |-> {21, 22}, socket |-> {23, 24}, path |-> {25, 26} ]
<1>1. Targets!OP_FAMILIES[op] = CHOOSE f \in DOMAIN from : op \in from[f]
  BY DEF Targets!OP_FAMILIES, Targets!SAFE_COMMAND_COUNT
<1>2. DOMAIN from
        = {"meta", "query", "lifecycle", "failure", "fs", "timer", "socket", "path"}
  OBVIOUS
<1>3. /\ from["meta"] = {0, 8} \union (12..15) /\ from["query"] = (5..7) \union (9..11)
      /\ from["lifecycle"] = (1..4) \union (18..20) /\ from["failure"] = {16}
      /\ from["fs"] = {17} /\ from["timer"] = {21, 22} /\ from["socket"] = {23, 24}
      /\ from["path"] = {25, 26}
  OBVIOUS
<1> HIDE DEF from
<1>4. OP_FAMILIES[op + 1] \in DOMAIN from /\ op \in from[OP_FAMILIES[op + 1]]
  BY <1>2, <1>3 DEF OP_FAMILIES
<1>5. \A f \in DOMAIN from : op \in from[f] => f = OP_FAMILIES[op + 1]
  BY <1>2, <1>3 DEF OP_FAMILIES
<1> QED BY <1>1, <1>4, <1>5

LEMMA SignatureCorrect ==
  ASSUME NEW t \in Testcases
  PROVE  LET signature == family_signature(t)
             observed == Targets!generator_coverage(t).families
         IN /\ ToSet(signature) \subseteq observed
            /\ Len(signature) < 8 => ToSet(signature) = observed
            /\ \A i \in 2..Len(signature) : signature[i - 1] # signature[i]
<1> DEFINE shape == semantic_shape(t)
           N == Width(t)
           all == [ i \in DOMAIN shape |-> OP_FAMILIES[shape[i][1] + 1] ]
           K == Starts(all)
           c == Cardinality(K)
           signature == family_signature(t)
           observed == Targets!generator_coverage(t).families
<1>1. /\ N \in Nat /\ DOMAIN shape = 1..N
      /\ \A i \in 1..N : shape[i][1] \in 0..26
  BY SameDecoding
<1>0. \A i \in 1..N : i # 0
  <2> HIDE DEF N
  <2>1. N \in Nat
    BY <1>1
  <2> QED BY <2>1
<1>2. signature = at_most(8, at(K, all))
  BY DEF family_signature, Starts
<1>3. observed = { all[i] : i \in 1..N }
  <2>1. observed = { Targets!OP_FAMILIES[OperationAt(shape, i)] : i \in DOMAIN shape }
    BY CoverageOfShape DEF CoverageOf
  <2> HIDE DEF shape, observed, N
  <2>2. ASSUME NEW i \in 1..N PROVE all[i] = Targets!OP_FAMILIES[OperationAt(shape, i)]
    <3>0. i \in DOMAIN shape /\ shape[i][1] \in 0..26
      BY <1>1
    <3>1. i # 0 /\ i \in DOMAIN shape /\ shape[i][1] \in 0..26
      BY <3>0, <1>0
    <3>2. OperationAt(shape, i) = shape[i][1]
      BY <3>1 DEF OperationAt
    <3>3. all[i] = OP_FAMILIES[shape[i][1] + 1]
      BY <3>1
    <3> HIDE DEF all
    <3> QED BY <3>1, <3>2, <3>3, SameFamilies
  <2> HIDE DEF all
  <2> QED BY <2>1, <2>2, <1>1
<1>4. DOMAIN all = 1..N
  BY <1>1
<1> HIDE DEF shape, N, all, signature, observed
<1>5. K \subseteq 1..N
  BY <1>4 DEF Starts
<1>6. PICK order : Increasing(order, K) /\ Reads(order, K)
  <2>1. N \in Nat
    BY <1>1
  <2> HIDE DEF K, c
  <2> QED BY <2>1, <1>5, At
<1>7. /\ c \in Nat /\ order \in [1..c -> K]
      /\ \A i \in K : \E n \in 1..c : order[n] = i
      /\ \A l, m \in 1..c : l < m => order[l] < order[m]
  BY <1>6 DEF Increasing
<1> DEFINE full == at(K, all)
<1>8. full = [ n \in 1..c |-> all[order[n]] ]
  BY <1>6 DEF Reads
<1> HIDE DEF K, c, full
<1>9. ASSUME NEW n \in 1..c
      PROVE  order[n] \in K /\ order[n] \in 1..N /\ full[n] = all[order[n]] /\ full[n] \in observed
  <2>1. order[n] \in K /\ order[n] \in 1..N
    BY <1>5, <1>7
  <2>2. full[n] = all[order[n]]
    BY <1>8
  <2> QED BY <2>1, <2>2, <1>3
<1>10. full \in Seq(observed) /\ Len(full) = c
  <2>1. full \in [1..c -> observed]
    BY <1>8, <1>9
  <2>2. full \in Seq(observed)
    BY <2>1, <1>7
  <2>3. DOMAIN full = 1..c
    BY <2>1
  <2> QED BY <2>2, <2>3, <1>7, LenProperties
<1>11. /\ signature \in Seq(observed) /\ Len(signature) = (IF 8 < c THEN 8 ELSE c)
       /\ \A n \in 1..Len(signature) : n \in 1..c /\ signature[n] = full[n]
  <2>1. 8 \in Nat
    OBVIOUS
  <2> QED BY <2>1, <1>2, <1>10, AtMost DEF full
<1>12. Len(signature) \in Nat /\ DOMAIN signature = 1..Len(signature)
  <2>1. signature \in Seq(observed)
    BY <1>11
  <2> QED BY <2>1, LenProperties
<1>13. ToSet(signature) \subseteq observed
  BY <1>11, <1>12 DEF ToSet
<1>14. ASSUME Len(signature) < 8 PROVE observed \subseteq ToSet(signature)
  <2>1. Len(signature) = c
    BY <1>7, <1>11, <1>14
  <2>2. ASSUME NEW i \in 1..N PROVE all[i] \in ToSet(signature)
    <3>1. PICK k \in K : all[k] = all[i]
      BY <1>1, <1>4, <2>2, StartsReach DEF K
    <3>2. PICK n \in 1..c : order[n] = k
      BY <1>7
    <3>3. n \in DOMAIN signature /\ signature[n] = all[i]
      BY <2>1, <3>1, <3>2, <1>9, <1>11, <1>12
    <3> QED BY <3>3 DEF ToSet
  <2> QED BY <2>2, <1>3
<1>15. ASSUME NEW n \in 2..Len(signature) PROVE signature[n - 1] # signature[n]
  <2>1. /\ n \in 1..Len(signature) /\ n - 1 \in 1..Len(signature) /\ n \in 1..c /\ n - 1 \in 1..c
        /\ n - 1 < n
    <3>1. n \in 1..Len(signature) /\ n - 1 \in 1..Len(signature) /\ n - 1 < n
      BY <1>12, <1>15
    <3> QED BY <3>1, <1>11
  <2> DEFINE k == order[n - 1]
             l == order[n]
  <2>2. k \in 1..N /\ l \in 1..N /\ l \in K /\ k < l
    BY <2>1, <1>7, <1>9
  <2>3. signature[n - 1] = all[k] /\ signature[n] = all[l]
    BY <2>1, <1>9, <1>11
  <2>4. ASSUME NEW j \in K, k < j, j < l PROVE FALSE
    <3>1. PICK q \in 1..c : order[q] = j
      BY <1>7
    <3>2. q < n - 1 \/ q = n - 1 \/ q = n \/ n < q
      BY <2>1, <1>7, <3>1
    <3>3. j \in 1..N
      BY <1>5
    <3>4. CASE q < n - 1
      <4>1. j < k
        BY <3>1, <3>4, <2>1, <1>7
      <4> HIDE DEF k, l
      <4> QED BY <4>1, <2>2, <2>4, <3>3
    <3>5. CASE n < q
      <4>1. l < j
        BY <3>1, <3>5, <2>1, <1>7
      <4> HIDE DEF k, l
      <4> QED BY <4>1, <2>2, <2>4, <3>3
    <3>6. CASE q = n - 1 \/ q = n
      <4>1. j = k \/ j = l
        BY <3>1, <3>6
      <4> HIDE DEF k, l
      <4> QED BY <4>1, <2>2, <2>4, <3>3
    <3> QED BY <3>2, <3>4, <3>5, <3>6
  <2> HIDE DEF k, l
  <2>5. all[l - 1] = all[k]
    <3>1. \A j \in Starts(all) : ~(k < j /\ j < l)
      BY <2>4 DEF K
    <3>2. N \in Nat /\ k \in 1..N /\ l \in 1..N /\ k < l
      BY <2>2, <1>1
    <3> QED BY <3>1, <3>2, <1>4, StartsHold
  <2>6. l # 1 /\ all[l] # all[l - 1]
    <3>1. l # 1
      BY <2>2
    <3> QED BY <3>1, <2>2 DEF K, Starts
  <2> QED BY <2>3, <2>5, <2>6
<1> QED BY <1>13, <1>14, <1>15 DEF signature, observed

-----------------------------------------------------------------------------
(* The theorems.                                                           *)

\* run_reseed_loop.sh:23-34: however often the loop fails, is interrupted and is
\* started again on its results, the seeds of a round were queued by the
\* fuzzer in the round before it.
THEOREM SeedsFromTheRoundBefore == Spec => []SeedsOfTheRoundBefore
<1>1. LoopInv => SeedsOfTheRoundBefore
  BY DEF LoopInv
<1> QED BY <1>1, LoopInvariant, PTL

\* preselect_queue.py:57-72: whatever the queue and the options, the preselection
\* is of the queue and within the limit, has no shape twice, and leaves a
\* testcase without a representative only when the limit is used up by
\* testcases ranked no lower.
THEOREM PreselectionCorrect == Spec => []PreselectionRepresents
<1>1. LoopInv => PreselectionRepresents
  <2> SUFFICES ASSUME LoopInv, step = "analyze" PROVE PreselectionRepresents
    BY DEF PreselectionRepresents
  <2> DEFINE fitting == { t \in ToSet(afl) : replayable(semantic_shape(t), opts) }
  <2>1. afl \in Seq(fuzzed[round]) /\ fuzzed[round] \subseteq Testcases
        /\ preselected = preselect(afl, opts)
    BY DEF LoopInv, TypeInv, RoundInv
  <2>2. afl \in Seq(Testcases) /\ opts.limit \in Nat
    BY <2>1, RoundsAreNumbers DEF LoopInv
  <2>3. /\ preselected \in Seq(fitting) /\ Len(preselected) <= opts.limit
        /\ \A i, j \in DOMAIN preselected :
             semantic_shape(preselected[i]) = semantic_shape(preselected[j]) => i = j
        /\ \A t \in fitting :
             \/ \E k \in ToSet(preselected) :
                  semantic_shape(k) = semantic_shape(t) /\ size(k) <= size(t)
             \/ /\ Len(preselected) = opts.limit
                /\ \A k \in ToSet(preselected) : ~below(rank(k), rank(t))
    BY <2>1, <2>2, PreselectCorrect
  <2>4. ToSet(preselected) \subseteq fitting
    <3> HIDE DEF fitting
    <3> QED BY <2>3 DEF ToSet
  <2> QED BY <2>3, <2>4 DEF PreselectionRepresents
<1> QED BY <1>1, LoopInvariant, PTL

\* select_corpus.py:52-81: in every round, whatever the scores, the selection has
\* as many families as there is room for, each by its best input, leaves
\* none out for a worse one, uses up its room and chooses nothing twice.
THEOREM FamiliesCovered == Spec => []FamiliesKept
<1>1. LoopInv => FamiliesKept
  <2> SUFFICES ASSUME LoopInv, step = "select", opts.strategy = "diverse", opts.top_k > 0
               PROVE  FamiliesKept
    BY DEF FamiliesKept
  <2>1. preselected \in Seq(fuzzed[round]) /\ Scored(csv[round], Len(preselected))
    BY DEF LoopInv, RoundInv
  <2>2. Len(preselected) \in Nat
    BY <2>1
  <2>3. opts.top_k \in Nat \ {0}
    BY RoundsAreNumbers DEF LoopInv
  <2>4. KeepsFamilies(choose_diverse(csv[round], preselected, opts), eligible(csv[round], opts),
                      csv[round], preselected, opts.top_k)
    BY <2>1, <2>2, <2>3, DiverseKeepsFamilies
  <2> QED BY <2>4 DEF FamiliesKept, KeepsFamilies
<1> QED BY <1>1, LoopInvariant, PTL

\* summarize_experiments.py:59-60, 79-83: however many rounds there are and however
\* often the loop is started again on its results, a summary is of rounds that
\* all replayed something, and shows the first of the best of them.
THEOREM SummaryCorrect == Spec => []SummaryOfWholeRounds
<1>1. Init => CsvInv
  <2> SUFFICES ASSUME Init PROVE CsvInv
    OBVIOUS
  <2>1. round = 1 /\ step = "fuzz" /\ csv = [r \in RoundsOf(experiment) |-> NoCsv]
    BY DEF Init
  <2>2. \A r \in RoundsOf(experiment) : ~(r < 1)
    BY DEF RoundsOf
  <2> QED BY <2>1, <2>2 DEF CsvInv
<1>2. LoopInv /\ CsvInv => SummaryOfWholeRounds
  <2> SUFFICES ASSUME LoopInv, CsvInv, step = "summarized",
                      NEW r \in RoundsOf(experiment)
               PROVE  /\ csv[r] # NoCsv /\ Len(csv[r]) > 0
                      /\ ~below(key_of(csv[summary.best]), key_of(csv[r]))
                      /\ r < summary.best => below(key_of(csv[r]), key_of(csv[summary.best]))
    BY DEF SummaryOfWholeRounds, key_of
  <2> DEFINE n == experiment.rounds
  <2>1. n \in Nat \ {0} /\ RoundsOf(experiment) = 1..n
    BY RoundsAreNumbers DEF LoopInv
  <2>2. \A q \in 1..n : csv[q] # NoCsv /\ csv[q] # << >>
    BY <2>1 DEF CsvInv
  <2>3. csv \in [1..n -> Seq(Rows)]
    BY <2>1, <2>2 DEF CsvInv
  <2>4. Len(csv[r]) > 0
    <3>1. csv[r] \in Seq(Rows) /\ csv[r] # << >>
      BY <2>1, <2>2, <2>3
    <3> QED BY <3>1, EmptySeq
  <2>5. summary.best = best_round(csv)
    BY DEF CsvInv
  <2>6. /\ ~below(key_of(csv[best_round(csv)]), key_of(csv[r]))
        /\ r < best_round(csv) => below(key_of(csv[r]), key_of(csv[best_round(csv)]))
    <3> HIDE DEF n
    <3> QED BY <2>1, <2>2, <2>3, BestRound
  <2> QED BY <2>1, <2>2, <2>4, <2>5, <2>6
<1> QED BY <1>1, <1>2, CsvStep, LoopInvariant, PTL DEF Spec

\* preselect_queue.py:26-34, 51, 56: for every queue, testcases of one shape run
\* the same commands under ftrace and cover the same in the generator, and as
\* many commands are run as are counted against the limit.
THEOREM ShapesStandForRuns == Spec => []ShapeStandsForRun
<1>1. LoopInv => ShapeStandsForRun
  <2> SUFFICES ASSUME LoopInv, step = "analyze", NEW t \in ToSet(afl)
               PROVE  /\ Len(Targets!commands(t)) = expanded_commands(semantic_shape(t))
                      /\ \A k \in ToSet(preselected) : semantic_shape(k) = semantic_shape(t) =>
                           /\ Targets!commands(k) = Targets!commands(t)
                           /\ Targets!generator_coverage(k) = Targets!generator_coverage(t)
    BY DEF ShapeStandsForRun
  <2>1. /\ afl \in Seq(fuzzed[round]) /\ preselected \in Seq(fuzzed[round])
        /\ fuzzed[round] \subseteq Testcases
    BY DEF LoopInv, TypeInv, RoundInv
  <2>2. t \in Testcases /\ \A k \in ToSet(preselected) : k \in Testcases
    BY <2>1 DEF ToSet
  <2>3. ASSUME NEW k \in ToSet(preselected), semantic_shape(k) = semantic_shape(t)
        PROVE  /\ Targets!commands(k) = Targets!commands(t)
               /\ Targets!generator_coverage(k) = Targets!generator_coverage(t)
    BY <2>2, <2>3, CommandsOfShape, CoverageOfShape
  <2> QED BY <2>2, <2>3, CommandsCounted
<1> QED BY <1>1, LoopInvariant, PTL

\* select_corpus.py:13-21, 32-43: for every queue, the families of a signature are
\* families that the generator reports of the testcase, all of them as long as
\* fewer than eight make up the signature, and none twice in a row.
THEOREM SignaturesAreObserved == Spec => []SignatureIsObserved
<1>1. LoopInv => SignatureIsObserved
  <2> SUFFICES ASSUME LoopInv, step = "select" PROVE SignatureIsObserved
    BY DEF SignatureIsObserved
  <2>1. preselected \in Seq(fuzzed[round]) /\ fuzzed[round] \subseteq Testcases
    BY DEF LoopInv, TypeInv, RoundInv
  <2>2. \A t \in ToSet(preselected) : t \in Testcases
    BY <2>1 DEF ToSet
  <2> QED BY <2>2, SignatureCorrect DEF SignatureIsObserved
<1> QED BY <1>1, LoopInvariant, PTL
================================================================================
