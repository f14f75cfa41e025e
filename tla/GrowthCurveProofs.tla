--------------------------- MODULE GrowthCurveProofs ---------------------------
(***************************************************************************)
(* Lemmas about the curves of GrowthCurve, for series of every length:     *)
(* sorting puts every element at its place, the points kept of a series    *)
(* draw the curve of all its rows, and the time to saturation is that of   *)
(* the curve drawn.  The proofs about PoC one's and PoC two's plots use    *)
(* them.                                                                   *)
(***************************************************************************)
EXTENDS GrowthCurve, FiniteSetTheorems, FunctionTheorems, NaturalsInduction,
        SequenceTheorems, WellFoundedInduction, TLAPS

-----------------------------------------------------------------------------
(* Least and greatest numbers.                                             *)

LEMMA LeastNatural ==
  ASSUME NEW S, S \subseteq Nat, S # {}
  PROVE  \E x \in S : \A y \in S : x <= y
<1>1. PICK x \in S : \A y \in S : <<y, x>> \notin OpToRel(<, Nat)
  BY NatLessThanWellFounded, WFMin
<1>2. \A y \in S : ~(y < x)
  BY <1>1 DEF OpToRel
<1> QED BY <1>2

LEMMA MinOfInterval ==
  ASSUME NEW S, NEW n \in Nat, S \subseteq 1..n, S # {}
  PROVE  Min(S) \in S /\ \A y \in S : Min(S) <= y
<1>1. S \subseteq Nat
  OBVIOUS
<1> QED BY <1>1, LeastNatural DEF Min

LEMMA MaxOfInterval ==
  ASSUME NEW S, NEW n \in Nat, S \subseteq 1..n, S # {}
  PROVE  Max(S) \in S /\ \A y \in S : y <= Max(S)
<1> DEFINE T == { n - x : x \in S }
<1>1. T \subseteq Nat /\ T # {}
  OBVIOUS
<1>2. PICK y \in T : \A z \in T : y <= z
  <2> HIDE DEF T
  <2> QED BY <1>1, LeastNatural
<1>3. PICK x \in S : y = n - x
  OBVIOUS
<1>4. \A z \in S : z <= x
  <2> TAKE z \in S
  <2>1. n - x <= n - z
    BY <1>2, <1>3
  <2> QED BY <2>1
<1>5. \E w \in S : \A z \in S : w >= z
  BY <1>4
<1> QED BY <1>5 DEF Max

-----------------------------------------------------------------------------
(* ordered sorts.                                                          *)

StrictOrder(S, R) ==
  /\ \A x \in S : <<x, x>> \notin R
  /\ \A x, y \in S : <<x, y>> \in R \/ <<y, x>> \in R \/ x = y
  /\ \A x, y, z \in S : <<x, y>> \in R /\ <<y, z>> \in R => <<x, z>> \in R

\* A sequence of all of S, each element once, an earlier one before a later.
Orders(order, S, R) ==
  /\ Cardinality(S) \in Nat
  /\ order \in [1..Cardinality(S) -> S]
  /\ \A x \in S : \E n \in 1..Cardinality(S) : order[n] = x
  /\ \A l, m \in 1..Cardinality(S) : l < m =>
       order[l] # order[m] /\ <<order[l], order[m]>> \in R

Earlier(S, R, x) == { y \in S : <<y, x>> \in R }

LEMMA Ordered ==
  ASSUME NEW S, IsFiniteSet(S), NEW R, StrictOrder(S, R)
  PROVE  Orders(ordered(S, R), S, R)
<1> DEFINE n == Cardinality(S)
           f == [ x \in S |-> Cardinality(Earlier(S, R, x)) + 1 ]
           o == ordered(S, R)
<1>1. n \in Nat
  BY FS_CardinalityType
<1>2. \A x \in S : /\ IsFiniteSet(Earlier(S, R, x)) /\ Earlier(S, R, x) \subseteq S
                   /\ Cardinality(Earlier(S, R, x)) \in Nat /\ x \notin Earlier(S, R, x)
  <2> TAKE x \in S
  <2>1. Earlier(S, R, x) \subseteq S /\ x \notin Earlier(S, R, x)
    BY DEF Earlier, StrictOrder
  <2> QED BY <2>1, FS_Subset, FS_CardinalityType
<1>3. \A x, y \in S : <<y, x>> \in R => f[y] < f[x]
  <2> SUFFICES ASSUME NEW x \in S, NEW y \in S, <<y, x>> \in R PROVE f[y] < f[x]
    OBVIOUS
  <2> DEFINE T == Earlier(S, R, y) \union {y}
  <2>1. T \subseteq Earlier(S, R, x)
    BY DEF Earlier, StrictOrder
  <2>2. Cardinality(T) = Cardinality(Earlier(S, R, y)) + 1
    BY <1>2, FS_AddElement
  <2>3. Cardinality(T) <= Cardinality(Earlier(S, R, x))
    BY <2>1, <1>2, FS_Subset
  <2> HIDE DEF T
  <2> QED BY <2>2, <2>3, <1>2
<1>4. f \in [S -> 1..n]
  <2> SUFFICES ASSUME NEW x \in S PROVE Cardinality(Earlier(S, R, x)) + 1 \in 1..n
    OBVIOUS
  <2>1. Earlier(S, R, x) \subseteq S \ {x}
    BY <1>2
  <2>2. IsFiniteSet(S \ {x}) /\ Cardinality(S \ {x}) = n - 1
    BY FS_RemoveElement
  <2>3. Cardinality(Earlier(S, R, x)) <= n - 1
    BY <2>1, <2>2, FS_Subset
  <2> HIDE DEF n
  <2> QED BY <2>3, <1>2, <1>1
<1>5. \A x, y \in S : f[x] = f[y] => x = y
  <2> TAKE x, y \in S
  <2>1. <<x, y>> \in R \/ <<y, x>> \in R \/ x = y
    BY DEF StrictOrder
  <2>2. f[x] \in Int /\ f[y] \in Int
    BY <1>4
  <2> HIDE DEF f
  <2> QED BY <2>1, <2>2, <1>3
<1>6. f \in Surjection(S, 1..n)
  <2>1. f \in Injection(S, 1..n)
    BY <1>4, <1>5 DEF Injection, IsInjective
  <2>2. IsFiniteSet(1..n) /\ Cardinality(1..n) = n
    BY <1>1, FS_Interval
  <2> HIDE DEF f
  <2> QED BY <2>1, <2>2, FS_Injection
<1>7. \A m \in 1..n : o[m] \in S /\ f[o[m]] = m
  <2> TAKE m \in 1..n
  <2>1. PICK x \in S : f[x] = m
    BY <1>6 DEF Surjection
  <2>2. Cardinality({ y \in S : <<y, x>> \in R }) = m - 1
    <3>1. f[x] = Cardinality(Earlier(S, R, x)) + 1 /\ Cardinality(Earlier(S, R, x)) \in Nat
      BY <1>2
    <3> HIDE DEF f
    <3>2. Cardinality(Earlier(S, R, x)) = m - 1
      BY <2>1, <3>1, <1>1
    <3> QED BY <3>2 DEF Earlier
  <2>3. o[m] = CHOOSE z \in S : Cardinality({ y \in S : <<y, z>> \in R }) = m - 1
    BY DEF ordered
  <2>4. o[m] \in S /\ Cardinality({ y \in S : <<y, o[m]>> \in R }) = m - 1
    BY <2>2, <2>3
  <2>5. f[o[m]] = Cardinality(Earlier(S, R, o[m])) + 1
    BY <2>4
  <2> QED BY <2>4, <2>5, <1>1 DEF Earlier
<1>8. o \in [1..n -> S]
  BY <1>7 DEF ordered
<1>9. \A x \in S : f[x] \in 1..n /\ o[f[x]] = x
  BY <1>4, <1>5, <1>7
<1>10. ASSUME NEW l \in 1..n, NEW m \in 1..n, l < m
       PROVE  o[l] # o[m] /\ <<o[l], o[m]>> \in R
  <2> DEFINE x == o[l]
             y == o[m]
  <2>1. x \in S /\ y \in S /\ f[x] = l /\ f[y] = m
    BY <1>7
  <2> HIDE DEF f, x, y
  <2>2. <<x, y>> \in R \/ <<y, x>> \in R \/ x = y
    BY <2>1 DEF StrictOrder
  <2>3. <<y, x>> \notin R /\ x # y
    BY <2>1, <1>3, <1>10, <1>1
  <2> QED BY <2>2, <2>3 DEF x, y
<1> HIDE DEF f, o
<1>11. \A x \in S : \E m \in 1..n : o[m] = x
  BY <1>9
<1>12. \A l, m \in 1..n : l < m => o[l] # o[m] /\ <<o[l], o[m]>> \in R
  BY <1>10
<1>13. Orders(o, S, R)
  BY <1>1, <1>8, <1>11, <1>12 DEF Orders
<1> QED BY <1>13 DEF o

\* An order of a set of numbers is that of the numbers.
LEMMA OrderedNumbers ==
  ASSUME NEW n \in Nat, NEW C, C \subseteq 1..n
  PROVE  Orders(ordered(C, { p \in (1..n) \X (1..n) : p[1] < p[2] }), C,
                { p \in (1..n) \X (1..n) : p[1] < p[2] })
<1> DEFINE R == { p \in (1..n) \X (1..n) : p[1] < p[2] }
<1>1. IsFiniteSet(C)
  <2>1. IsFiniteSet(1..n)
    BY FS_Interval
  <2> QED BY <2>1, FS_Subset
<1>2. \A x, y \in C : <<x, y>> \in R <=> x < y
  OBVIOUS
<1>3. StrictOrder(C, R)
  <2> HIDE DEF R
  <2>1. C \subseteq Int
    OBVIOUS
  <2> QED BY <1>2, <2>1 DEF StrictOrder
<1> HIDE DEF R
<1>4. Orders(ordered(C, R), C, R)
  BY <1>1, <1>3, Ordered
<1> QED BY <1>4 DEF R

-----------------------------------------------------------------------------
(* The order files are read in.                                            *)

LEMMA LeastOfFinite ==
  ASSUME NEW S, S \subseteq Int, IsFiniteSet(S), S # {}
  PROVE  Min(S) \in S /\ \A y \in S : Min(S) <= y
<1> DEFINE R == { p \in S \X S : p[1] < p[2] }
           o == ordered(S, R)
<1>1. \A x, y \in S : <<x, y>> \in R <=> x < y
  OBVIOUS
<1>2. StrictOrder(S, R)
  <2> HIDE DEF R
  <2> QED BY <1>1 DEF StrictOrder
<1>3. Orders(o, S, R)
  <2> HIDE DEF R
  <2> QED BY <1>2, Ordered
<1> HIDE DEF o, R
<1>4. Cardinality(S) \in Nat /\ Cardinality(S) # 0
  BY FS_EmptySet, FS_CardinalityType
<1>5. o[1] \in S
  BY <1>3, <1>4 DEF Orders
<1>6. ASSUME NEW y \in S PROVE o[1] <= y
  <2>1. PICK n \in 1..Cardinality(S) : o[n] = y
    BY <1>3 DEF Orders
  <2>2. CASE n = 1
    BY <2>1, <2>2, <1>5
  <2>3. CASE n # 1
    <3>1. <<o[1], o[n]>> \in R
      BY <2>3, <1>3, <1>4 DEF Orders
    <3>2. o[1] < y
      BY <3>1, <2>1, <1>1, <1>5
    <3>3. o[1] \in Int /\ y \in Int
      BY <1>5
    <3> QED BY <3>2, <3>3
  <2> QED BY <2>2, <2>3
<1>7. \E x \in S : \A y \in S : x <= y
  BY <1>5, <1>6
<1> QED BY <1>7 DEF Min

\* Files with times; no two of a directory have the same name.
Timed(found) ==
  /\ IsFiniteSet(found)
  /\ \A f \in found : f.mtime \in Int /\ f.name \in Int /\ (f.afl # NoTime => f.afl \in Int)
  /\ \A f, g \in found : f.name = g.name => f = g

\* The seconds of a file's row.
time_of(f, found) == queue_entry_seconds(f, start_time(found))

InTimeOrder(order, found) ==
  /\ Cardinality(found) \in Nat
  /\ order \in [1..Cardinality(found) -> found]
  /\ \A f \in found : \E n \in 1..Cardinality(found) : order[n] = f
  /\ \A l, m \in 1..Cardinality(found) : l < m =>
       order[l] # order[m] /\ time_of(order[l], found) <= time_of(order[m], found)

LEMMA TimeType ==
  ASSUME NEW found, Timed(found), NEW f \in found
  PROVE  time_of(f, found) \in Int
<1> DEFINE mtimes == { g.mtime : g \in found }
           h == [ g \in found |-> g.mtime ]
<1>1. h \in Surjection(found, mtimes)
  BY DEF Surjection
<1>2. IsFiniteSet(mtimes)
  <2> HIDE DEF h, mtimes
  <2> QED BY <1>1, FS_Surjection DEF Timed
<1>3. mtimes \subseteq Int /\ mtimes # {}
  BY DEF Timed
<1>4. Min(mtimes) \in Int
  <2> HIDE DEF mtimes
  <2> QED BY <1>2, <1>3, LeastOfFinite
<1>5. start_time(found) \in Int
  BY <1>4 DEF start_time
<1> QED BY <1>5 DEF time_of, queue_entry_seconds, Timed

\* in_time_order lists every file once, none before one with an earlier time.
LEMMA TimeOrder ==
  ASSUME NEW found, Timed(found)
  PROVE  InTimeOrder(in_time_order(found), found)
<1> DEFINE R == { p \in found \X found : before(p[1], p[2], start_time(found)) }
           T(f) == time_of(f, found)
           o == ordered(found, R)
<1>1. \A f, g \in found : <<f, g>> \in R <=> before(f, g, start_time(found))
  OBVIOUS
<1>2. \A f \in found : T(f) \in Int
  BY TimeType
<1>3. \A f, g \in found : <<f, g>> \in R <=>
        \/ T(f) < T(g)
        \/ T(f) = T(g) /\ f.mtime < g.mtime
        \/ T(f) = T(g) /\ f.mtime = g.mtime /\ f.name < g.name
  BY <1>1 DEF before, time_of
<1> HIDE DEF R, T
<1>4. \A f \in found : f.mtime \in Int /\ f.name \in Int
  BY DEF Timed
<1>5. \A f \in found : <<f, f>> \notin R
  BY <1>2, <1>3, <1>4
<1>6. \A f, g \in found : <<f, g>> \in R \/ <<g, f>> \in R \/ f = g
  <2> SUFFICES ASSUME NEW f \in found, NEW g \in found, <<f, g>> \notin R, <<g, f>> \notin R
               PROVE  f = g
    OBVIOUS
  <2>1. T(f) = T(g)
    BY <1>2, <1>3
  <2>2. f.mtime = g.mtime
    BY <2>1, <1>3, <1>4
  <2>3. f.name = g.name
    BY <2>1, <2>2, <1>3, <1>4
  <2> QED BY <2>3 DEF Timed
<1>7. \A f, g, h \in found : <<f, g>> \in R /\ <<g, h>> \in R => <<f, h>> \in R
  BY <1>2, <1>3, <1>4
<1>8. Orders(o, found, R)
  <2>1. StrictOrder(found, R)
    BY <1>5, <1>6, <1>7 DEF StrictOrder
  <2> QED BY <2>1, Ordered DEF Timed
<1> HIDE DEF o
<1>9. \A l, m \in 1..Cardinality(found) : l < m => o[l] # o[m] /\ T(o[l]) <= T(o[m])
  <2> TAKE l, m \in 1..Cardinality(found)
  <2> HAVE l < m
  <2>1. o[l] # o[m] /\ <<o[l], o[m]>> \in R /\ o[l] \in found /\ o[m] \in found
    BY <1>8 DEF Orders
  <2>2. T(o[l]) \in Int /\ T(o[m]) \in Int
    BY <2>1, <1>2
  <2>3. T(o[l]) < T(o[m]) \/ T(o[l]) = T(o[m])
    BY <2>1, <1>3
  <2> QED BY <2>1, <2>2, <2>3
<1>10. InTimeOrder(o, found)
  BY <1>8, <1>9 DEF InTimeOrder, Orders, T
<1> QED BY <1>10 DEF o, R, in_time_order

\* The first k files in the order of their times.
First(found, k) == { in_time_order(found)[j] : j \in 1..k }

LEMMA FirstFiles ==
  ASSUME NEW found, Timed(found), NEW k \in 0..Cardinality(found)
  PROVE  /\ First(found, k) \subseteq found
         /\ \A j \in 0..k : First(found, j) \subseteq First(found, k)
<1>1. InTimeOrder(in_time_order(found), found)
  BY TimeOrder
<1>2. \A j \in 1..k : j \in 1..Cardinality(found)
  BY <1>1 DEF InTimeOrder
<1>3. First(found, k) \subseteq found
  BY <1>1, <1>2 DEF InTimeOrder, First
<1>4. \A j \in 0..k : \A i \in 1..j : i \in 1..k
  BY <1>1 DEF InTimeOrder
<1> QED BY <1>3, <1>4 DEF First

LEMMA OneMoreFirst ==
  ASSUME NEW found, NEW k \in Nat
  PROVE  First(found, k + 1) = First(found, k) \union {in_time_order(found)[k + 1]}
<1>1. 1..(k + 1) = (1..k) \union {k + 1}
  OBVIOUS
<1> QED BY <1>1 DEF First

-----------------------------------------------------------------------------
(* What a step curve shows.                                                *)

\* Times are numbers and never run backwards.
InTime(rows) ==
  /\ \A k \in 1..Len(rows) : rows[k].seconds \in Int
  /\ \A i, j \in 1..Len(rows) : i <= j => rows[i].seconds <= rows[j].seconds

\* k is the last of the points at or before t.
LastAt(k, points, t) ==
  /\ k \in 1..Len(points) /\ points[k][1] <= t
  /\ \A j \in 1..Len(points) : points[j][1] <= t => j <= k

\* The curve shows the value of the last point at or before t.
LEMMA Shown ==
  ASSUME NEW points, Len(points) \in Nat, NEW t, NEW k, LastAt(k, points, t)
  PROVE  ShownAt(points, t) = points[k][2]
<1> DEFINE reached == { i \in 1..Len(points) : points[i][1] <= t }
<1>1. k \in reached /\ reached \subseteq 1..Len(points)
  BY DEF LastAt
<1>2. Max(reached) \in reached /\ k <= Max(reached)
  <2> HIDE DEF reached
  <2> QED BY <1>1, MaxOfInterval
<1>3. Max(reached) = k
  <2>1. Max(reached) <= k /\ Max(reached) \in Int /\ k \in Int
    BY <1>2 DEF LastAt
  <2> HIDE DEF reached
  <2> QED BY <1>2, <2>1
<1>4. ShownAt(points, t) = points[Max(reached)][2]
  BY <1>1 DEF ShownAt
<1> QED BY <1>3, <1>4

\* Where nothing is drawn, it shows -1.
LEMMA NothingShown ==
  ASSUME NEW points, NEW t, \A i \in 1..Len(points) : ~(points[i][1] <= t)
  PROVE  ShownAt(points, t) = -1
BY DEF ShownAt

\* A point at or before t is followed by a last one.
LEMMA LastAtExists ==
  ASSUME NEW points, Len(points) \in Nat, NEW t, NEW i \in 1..Len(points), points[i][1] <= t
  PROVE  \E k \in 1..Len(points) : LastAt(k, points, t) /\ i <= k
<1> DEFINE reached == { j \in 1..Len(points) : points[j][1] <= t }
<1>1. i \in reached /\ reached \subseteq 1..Len(points)
  OBVIOUS
<1>2. Max(reached) \in reached /\ \A y \in reached : y <= Max(reached)
  <2> HIDE DEF reached
  <2> QED BY <1>1, MaxOfInterval
<1> QED BY <1>1, <1>2 DEF LastAt

LEMMA PointsOfRows ==
  ASSUME NEW rows, Len(rows) \in Nat, NEW metric
  PROVE  /\ Len(AllPoints(rows, metric)) = Len(rows)
         /\ \A k \in 1..Len(rows) : /\ AllPoints(rows, metric)[k] = point(rows[k], metric)
                                    /\ AllPoints(rows, metric)[k][1] = rows[k].seconds
                                    /\ AllPoints(rows, metric)[k][2] = rows[k][metric]
<1>1. \A k \in 1..Len(rows) : AllPoints(rows, metric)[k] = point(rows[k], metric)
  BY DEF AllPoints
<1>2. \A k \in 1..Len(rows) : point(rows[k], metric) = <<rows[k].seconds, rows[k][metric]>>
  BY DEF point
<1>3. AllPoints(rows, metric) \in Seq({ point(rows[k], metric) : k \in 1..Len(rows) })
  BY IsASeq DEF AllPoints
<1>4. DOMAIN AllPoints(rows, metric) = 1..Len(rows)
  BY DEF AllPoints
<1>5. Len(AllPoints(rows, metric)) = Len(rows)
  BY <1>3, <1>4, LenProperties
<1> QED BY <1>1, <1>2, <1>5

-----------------------------------------------------------------------------
(* The points kept.                                                        *)

\* The last change at or before a row has the row's value, and so have all
\* rows in between.
LEMMA ChangeBefore ==
  ASSUME NEW rows, Len(rows) \in Nat, NEW metric, NEW k \in 1..Len(rows)
  PROVE  \E c \in changes(rows, metric) :
           c <= k /\ \A r \in c..k : rows[r][metric] = rows[c][metric]
<1> DEFINE C == { d \in changes(rows, metric) : d <= k }
<1>1. C \subseteq 1..Len(rows) /\ 1 \in C
  BY DEF changes
<1>2. PICK c \in C : \A d \in C : d <= c
  <2>1. Max(C) \in C /\ \A y \in C : y <= Max(C)
    <3> HIDE DEF C
    <3> QED BY <1>1, MaxOfInterval
  <2> QED BY <2>1
<1>3. c \in changes(rows, metric) /\ c \in 1..Len(rows) /\ c <= k
  BY <1>1
<1>4. ASSUME NEW r \in c..k, rows[r][metric] # rows[c][metric] PROVE FALSE
  <2> DEFINE B == { j \in c..k : rows[j][metric] # rows[c][metric] }
  <2>1. B \subseteq Nat /\ B # {}
    BY <1>4, <1>3
  <2>2. PICK j \in B : \A i \in B : j <= i
    <3> HIDE DEF B
    <3> QED BY <2>1, LeastNatural
  <2>3. j \in Int /\ j > c /\ j <= k /\ rows[j][metric] # rows[c][metric]
    BY <1>3
  <2>4. j - 1 \in c..k /\ j - 1 \notin B
    BY <2>2, <2>3, <1>3
  <2>5. rows[j - 1][metric] = rows[c][metric]
    BY <2>4
  <2>6. j \in C
    BY <2>3, <2>5, <1>3 DEF changes
  <2> QED BY <2>6, <2>3, <1>2, <1>3
<1> QED BY <1>3, <1>4

\* points are those of the rows at the given indices: in order, among them
\* all changes, the first row and the last.
Thins(at, points, rows, metric) ==
  /\ Len(points) \in Nat
  /\ at \in [1..Len(points) -> 1..Len(rows)]
  /\ \A i, j \in 1..Len(points) : i <= j => at[i] <= at[j]
  /\ \A c \in changes(rows, metric) : \E i \in 1..Len(points) : at[i] = c
  /\ \A i \in 1..Len(points) : points[i] = point(rows[at[i]], metric)

LEMMA ChangePoints ==
  ASSUME NEW rows, Len(rows) \in Nat, NEW metric
  PROVE  /\ \E at : Thins(at, change_points(rows, metric), rows, metric)
         /\ change_points(rows, metric) \in Seq({ point(rows[k], metric) : k \in 1..Len(rows) })
<1> DEFINE C == changes(rows, metric)
           R == { p \in (1..Len(rows)) \X (1..Len(rows)) : p[1] < p[2] }
           kept == ordered(C, R)
           points == change_points(rows, metric)
           N == Cardinality(C)
<1>1. C \subseteq 1..Len(rows)
  BY DEF changes
<1>2. Orders(kept, C, R)
  <2> HIDE DEF C
  <2> QED BY <1>1, OrderedNumbers
<1>3. \A x, y \in 1..Len(rows) : <<x, y>> \in R <=> x < y
  OBVIOUS
<1>4. points = [ i \in DOMAIN kept |-> point(rows[kept[i]], metric) ]
  BY DEF change_points
<1> HIDE DEF C, R, kept, points, N
<1>5. N \in Nat /\ kept \in [1..N -> C] /\ DOMAIN kept = 1..N
  BY <1>2 DEF Orders, N
<1>6. points = [ i \in 1..N |-> point(rows[kept[i]], metric) ]
  BY <1>4, <1>5
<1>7. /\ \A i \in 1..N : kept[i] \in 1..Len(rows)
      /\ \A i \in 1..N : point(rows[kept[i]], metric) \in { point(rows[k], metric) : k \in 1..Len(rows) }
  BY <1>5, <1>1
<1>8. points \in Seq({ point(rows[k], metric) : k \in 1..Len(rows) })
  BY <1>5, <1>6, <1>7, IsASeq
<1>9. Len(points) = N
  BY <1>8, <1>6, <1>5, LenProperties
<1>10. \A i, j \in 1..N : i <= j => kept[i] <= kept[j]
  <2> TAKE i, j \in 1..N
  <2> HAVE i <= j
  <2>1. i < j => <<kept[i], kept[j]>> \in R
    BY <1>2 DEF Orders, N
  <2>2. kept[i] \in 1..Len(rows) /\ kept[j] \in 1..Len(rows)
    BY <1>7
  <2>3. i < j => kept[i] < kept[j]
    BY <2>1, <2>2, <1>3
  <2>4. i < j \/ i = j
    BY <1>5
  <2>5. i = j => kept[i] = kept[j]
    OBVIOUS
  <2> QED BY <2>2, <2>3, <2>4, <2>5
<1>11. \A c \in C : \E i \in 1..N : kept[i] = c
  BY <1>2 DEF Orders, N
<1>12. kept \in [1..N -> 1..Len(rows)]
  BY <1>5, <1>1
<1>13. Thins(kept, points, rows, metric)
  BY <1>5, <1>6, <1>9, <1>10, <1>11, <1>12 DEF Thins, C
<1> QED BY <1>8, <1>13 DEF points

\* metric_change_points thins the rows, and ends with the last of them.
LEMMA MetricPoints ==
  ASSUME NEW rows, Len(rows) \in Nat, rows = << >> <=> Len(rows) = 0, NEW metric
  PROVE  /\ \E at : Thins(at, metric_change_points(rows, metric), rows, metric)
         /\ Len(rows) > 0 =>
              LET points == metric_change_points(rows, metric)
              IN points[Len(points)] = point(rows[Len(rows)], metric)
<1> DEFINE short == change_points(rows, metric)
           points == metric_change_points(rows, metric)
           last == point(rows[Len(rows)], metric)
           P == { point(rows[k], metric) : k \in 1..Len(rows) }
<1>1. points = IF Len(rows) # 0 /\ short[Len(short)] # last THEN Append(short, last) ELSE short
  BY DEF metric_change_points, Last
<1>2. PICK at : Thins(at, short, rows, metric)
  BY ChangePoints
<1>3. short \in Seq(P)
  BY ChangePoints
<1>4. Len(rows) > 0 => last \in P
  OBVIOUS
<1> HIDE DEF short, points, last, P
<1>5. CASE Len(rows) # 0 /\ short[Len(short)] # last
  <2> DEFINE n == Len(short)
             to == [ i \in 1..(n + 1) |-> IF i = n + 1 THEN Len(rows) ELSE at[i] ]
  <2>1. points = Append(short, last) /\ Len(points) = n + 1 /\ n \in Nat /\ points[n + 1] = last
    BY <1>5, <1>1, <1>3, <1>4, AppendProperties
  <2>2. \A i \in 1..n : points[i] = short[i] /\ i \in 1..(n + 1)
    BY <2>1, <1>3, <1>4, <1>5, AppendProperties
  <2>3. \A i \in 1..n : to[i] = at[i] /\ at[i] \in 1..Len(rows)
    BY <2>1, <1>2 DEF Thins
  <2>4. to[n + 1] = Len(rows) /\ Len(rows) \in 1..Len(rows)
    BY <1>5, <2>1
  <2>5. to \in [1..(n + 1) -> 1..Len(rows)]
    <3>1. ASSUME NEW i \in 1..(n + 1) PROVE to[i] \in 1..Len(rows)
      <4>1. i = n + 1 \/ i \in 1..n
        BY <2>1
      <4> QED BY <4>1, <2>3, <2>4
    <3> QED BY <3>1
  <2>6. \A i, j \in 1..(n + 1) : i <= j => to[i] <= to[j]
    <3> TAKE i, j \in 1..(n + 1)
    <3> HAVE i <= j
    <3>1. CASE j = n + 1
      BY <3>1, <2>4, <2>5
    <3>2. CASE j # n + 1
      <4>1. i \in 1..n /\ j \in 1..n
        BY <3>2, <2>1
      <4> QED BY <4>1, <2>3, <1>2 DEF Thins
    <3> QED BY <3>1, <3>2
  <2>7. \A c \in changes(rows, metric) : \E i \in 1..(n + 1) : to[i] = c
    BY <1>2, <2>2, <2>3 DEF Thins
  <2>8. \A i \in 1..(n + 1) : points[i] = point(rows[to[i]], metric)
    <3> TAKE i \in 1..(n + 1)
    <3>1. CASE i = n + 1
      BY <3>1, <2>1, <2>4 DEF last
    <3>2. CASE i # n + 1
      <4>1. i \in 1..n
        BY <3>2, <2>1
      <4> QED BY <4>1, <2>2, <2>3, <1>2 DEF Thins
    <3> QED BY <3>1, <3>2
  <2> HIDE DEF to
  <2>9. Thins(to, points, rows, metric)
    BY <2>1, <2>5, <2>6, <2>7, <2>8 DEF Thins
  <2> QED BY <2>9, <2>1 DEF points, last
<1>6. CASE ~(Len(rows) # 0 /\ short[Len(short)] # last)
  BY <1>6, <1>1, <1>2 DEF points, last
<1> QED BY <1>5, <1>6

\* At any time the points kept show what all rows show.
LEMMA SameShown ==
  ASSUME NEW rows, Len(rows) \in Nat, InTime(rows), NEW metric,
         NEW points, NEW at, Thins(at, points, rows, metric),
         NEW t \in Int, NEW k, LastAt(k, AllPoints(rows, metric), t)
  PROVE  ShownAt(points, t) = rows[k][metric]
<1>1. k \in 1..Len(rows) /\ rows[k].seconds <= t
      /\ \A j \in 1..Len(rows) : rows[j].seconds <= t => j <= k
  BY PointsOfRows DEF LastAt
<1>2. PICK c \in changes(rows, metric) :
        c <= k /\ \A r \in c..k : rows[r][metric] = rows[c][metric]
  BY <1>1, ChangeBefore
<1>3. PICK i \in 1..Len(points) : at[i] = c
  BY DEF Thins
<1>4. Len(points) \in Nat /\ c \in 1..Len(rows)
  BY DEF Thins, changes
<1>5. \A j \in 1..Len(points) : /\ at[j] \in 1..Len(rows)
                                /\ points[j] = point(rows[at[j]], metric)
  BY DEF Thins
<1>6. \A j \in 1..Len(points) : /\ points[j][1] = rows[at[j]].seconds
                                /\ points[j][2] = rows[at[j]][metric]
  BY <1>5 DEF point
<1>7. points[i][1] <= t
  <2>1. rows[c].seconds <= rows[k].seconds /\ rows[c].seconds \in Int /\ rows[k].seconds \in Int
    BY <1>1, <1>2, <1>4 DEF InTime
  <2> QED BY <2>1, <1>1, <1>3, <1>6
<1>8. PICK j \in 1..Len(points) : LastAt(j, points, t) /\ i <= j
  BY <1>4, <1>7, LastAtExists
<1>9. ShownAt(points, t) = rows[at[j]][metric]
  BY <1>4, <1>6, <1>8, Shown
<1>10. at[j] \in c..k
  <2>1. c <= at[j]
    BY <1>3, <1>8 DEF Thins
  <2>2. at[j] <= k
    BY <1>1, <1>5, <1>6, <1>8 DEF LastAt
  <2> QED BY <2>1, <2>2, <1>1, <1>4, <1>5
<1>11. k \in c..k
  BY <1>1, <1>2, <1>4
<1> QED BY <1>2, <1>9, <1>10, <1>11

\* A row's time, as a time of all points.
LEMMA RowReached ==
  ASSUME NEW rows, Len(rows) \in Nat, InTime(rows), NEW metric, NEW t \in Int,
         NEW i \in 1..Len(rows), rows[i].seconds <= t
  PROVE  \E k \in 1..Len(rows) : /\ LastAt(k, AllPoints(rows, metric), t) /\ i <= k
                                 /\ rows[k].seconds <= t
                                 /\ \A j \in 1..Len(rows) : rows[j].seconds <= t => j <= k
                                 /\ ShownAt(AllPoints(rows, metric), t) = rows[k][metric]
<1> DEFINE all == AllPoints(rows, metric)
<1>1. /\ Len(all) = Len(rows)
      /\ \A k \in 1..Len(rows) : all[k][1] = rows[k].seconds /\ all[k][2] = rows[k][metric]
  BY PointsOfRows
<1> HIDE DEF all
<1>2. PICK k \in 1..Len(all) : LastAt(k, all, t) /\ i <= k
  BY <1>1, LastAtExists
<1>3. ShownAt(all, t) = all[k][2]
  BY <1>1, <1>2, Shown
<1> QED BY <1>1, <1>2, <1>3 DEF LastAt, all

\* The points kept draw the curve of all rows, never running backwards.
LEMMA KeptCurve ==
  ASSUME NEW rows, Len(rows) \in Nat, rows = << >> <=> Len(rows) = 0, InTime(rows), NEW metric
  PROVE  CurveKept(rows, metric)
<1> DEFINE kept == metric_change_points(rows, metric)
           all == AllPoints(rows, metric)
<1>1. /\ Len(all) = Len(rows)
      /\ \A k \in 1..Len(rows) : /\ all[k][1] = rows[k].seconds
                                 /\ all[k] = point(rows[k], metric)
  BY PointsOfRows
<1>2. PICK at : Thins(at, kept, rows, metric)
  BY MetricPoints
<1>3. Len(rows) > 0 => kept[Len(kept)] = point(rows[Len(rows)], metric)
  BY MetricPoints
<1> HIDE DEF kept, all
<1>4. ASSUME NEW i \in 1..Len(all) PROVE ShownAt(kept, all[i][1]) = ShownAt(all, all[i][1])
  <2>1. rows[i].seconds \in Int /\ i \in 1..Len(rows) /\ all[i][1] = rows[i].seconds
    BY <1>1 DEF InTime
  <2>2. PICK k \in 1..Len(rows) : /\ LastAt(k, AllPoints(rows, metric), rows[i].seconds)
                                 /\ ShownAt(AllPoints(rows, metric), rows[i].seconds) = rows[k][metric]
    <3>1. rows[i].seconds <= rows[i].seconds
      BY <2>1
    <3> QED BY <2>1, <3>1, RowReached
  <2>3. ShownAt(kept, rows[i].seconds) = rows[k][metric]
    BY <2>1, <2>2, <1>2, SameShown
  <2> QED BY <2>1, <2>2, <2>3 DEF all
<1>5. ASSUME rows # << >> PROVE kept[1] = all[1] /\ Last(kept) = Last(all)
  <2>1. Len(rows) \in 1..Len(rows) /\ 1 \in changes(rows, metric) /\ 1 \in 1..Len(rows)
    BY <1>5 DEF changes
  <2>2. PICK i \in 1..Len(kept) : at[i] = 1
    BY <2>1, <1>2 DEF Thins
  <2>3. 1 \in 1..Len(kept) /\ 1 <= i
    BY <1>2 DEF Thins
  <2>4. at[1] = 1
    BY <2>2, <2>3, <1>2 DEF Thins
  <2>5. kept[1] = all[1]
    BY <2>1, <2>3, <2>4, <1>1, <1>2 DEF Thins
  <2>6. Last(kept) = Last(all)
    BY <2>1, <1>1, <1>3 DEF Last
  <2> QED BY <2>5, <2>6
<1>6. ASSUME NEW i \in 2..Len(kept) PROVE kept[i - 1][1] <= kept[i][1]
  <2>1. i \in 1..Len(kept) /\ i - 1 \in 1..Len(kept) /\ i - 1 <= i
    BY <1>2 DEF Thins
  <2>2. at[i - 1] \in 1..Len(rows) /\ at[i] \in 1..Len(rows) /\ at[i - 1] <= at[i]
    BY <2>1, <1>2 DEF Thins
  <2>3. kept[i] = point(rows[at[i]], metric) /\ kept[i - 1] = point(rows[at[i - 1]], metric)
    BY <2>1, <1>2 DEF Thins
  <2>4. rows[at[i - 1]].seconds <= rows[at[i]].seconds
    BY <2>2 DEF InTime
  <2> QED BY <2>3, <2>4 DEF point
<1> QED BY <1>4, <1>5, <1>6 DEF CurveKept, kept, all

-----------------------------------------------------------------------------
(* The plateau, and the time to saturation.                                *)

\* A metric never falls.
Grows(rows, metric) ==
  /\ \A k \in 1..Len(rows) : rows[k][metric] \in Nat
  /\ \A i, j \in 1..Len(rows) : i <= j => rows[i][metric] <= rows[j][metric]

\* longer is rows with at most one row more: at the given time, with the
\* values of the last.
Prolongs(longer, rows, duration) ==
  \/ longer = rows /\ (rows # << >> /\ duration # NoTime => ~(Last(rows).seconds < duration))
  \/ /\ rows # << >> /\ duration # NoTime /\ Last(rows).seconds < duration
     /\ Len(longer) = Len(rows) + 1
     /\ \A k \in 1..Len(rows) : longer[k] = rows[k]
     /\ longer[Len(rows) + 1] = [ Last(rows) EXCEPT !.seconds = duration ]

LEMMA Extended ==
  ASSUME NEW R, NEW rows \in Seq(R), NEW duration
  PROVE  Prolongs(extend_rows_to_duration(rows, duration), rows, duration)
<1> DEFINE row == [ Last(rows) EXCEPT !.seconds = duration ]
           longer == extend_rows_to_duration(rows, duration)
<1>1. CASE duration # NoTime /\ rows # << >> /\ Last(rows).seconds < duration
  <2>1. longer = Append(rows, row)
    BY <1>1 DEF extend_rows_to_duration
  <2>2. rows \in Seq(R \union {row})
    OBVIOUS
  <2> HIDE DEF row, longer
  <2>3. Len(longer) = Len(rows) + 1 /\ longer[Len(rows) + 1] = row
        /\ \A k \in 1..Len(rows) : longer[k] = rows[k]
    BY <2>1, <2>2, AppendProperties
  <2> QED BY <1>1, <2>3 DEF Prolongs, row, longer
<1>2. CASE ~(duration # NoTime /\ rows # << >> /\ Last(rows).seconds < duration)
  BY <1>2 DEF extend_rows_to_duration, Prolongs
<1> QED BY <1>1, <1>2

\* What the scripts make of a queue: rows with a time and the metric.
IsSeries(rows, metric) ==
  /\ Len(rows) \in Nat /\ (rows = << >> <=> Len(rows) = 0)
  /\ InTime(rows) /\ Grows(rows, metric)
  /\ metric # "seconds"
  /\ \A k \in 1..Len(rows) : "seconds" \in DOMAIN rows[k] /\ metric \in DOMAIN rows[k]

\* The plateau leaves a series a series.
LEMMA Prolonged ==
  ASSUME NEW rows, NEW metric, IsSeries(rows, metric), NEW duration,
         duration # NoTime => duration \in Int,
         NEW longer, Prolongs(longer, rows, duration)
  PROVE  IsSeries(longer, metric)
<1>1. CASE longer = rows
  BY <1>1
<1>2. CASE longer # rows
  <2> DEFINE n == Len(rows)
  <2>1. /\ n \in Nat /\ n > 0 /\ rows[n].seconds < duration /\ duration \in Int
        /\ Len(longer) = n + 1 /\ \A k \in 1..n : longer[k] = rows[k]
        /\ longer[n + 1] = [ rows[n] EXCEPT !.seconds = duration ]
    BY <1>2 DEF Prolongs, IsSeries, Last
  <2>2. n \in 1..n
    BY <2>1
  <2>3. /\ "seconds" \in DOMAIN longer[n + 1] /\ metric \in DOMAIN longer[n + 1]
        /\ longer[n + 1].seconds = duration /\ longer[n + 1][metric] = rows[n][metric]
    BY <2>1, <2>2 DEF IsSeries
  <2>4. \A k \in 1..(n + 1) : k = n + 1 \/ k \in 1..n
    BY <2>1
  <2>5. InTime(longer)
    <3>1. \A k \in 1..(n + 1) : longer[k].seconds \in Int
      BY <2>1, <2>3, <2>4 DEF IsSeries, InTime
    <3>2. \A i \in 1..n : rows[i].seconds \in Int /\ rows[i].seconds <= rows[n].seconds
      BY <2>1, <2>2 DEF IsSeries, InTime
    <3>3. \A i, j \in 1..(n + 1) : i <= j => longer[i].seconds <= longer[j].seconds
      <4> TAKE i, j \in 1..(n + 1)
      <4> HAVE i <= j
      <4>1. CASE j \in 1..n
        <5>1. i \in 1..n
          BY <4>1, <2>1
        <5> QED BY <4>1, <5>1, <2>1 DEF IsSeries, InTime
      <4>2. CASE j = n + 1 /\ i \in 1..n
        BY <4>2, <3>2, <2>1, <2>3, <2>2
      <4>3. CASE j = n + 1 /\ i = n + 1
        BY <4>3, <2>3, <2>1
      <4> QED BY <4>1, <4>2, <4>3, <2>4
    <3> QED BY <3>1, <3>3, <2>1 DEF InTime
  <2>6. Grows(longer, metric)
    <3>1. \A i \in 1..n : /\ rows[i][metric] \in Nat /\ rows[i][metric] <= rows[n][metric]
                          /\ longer[i][metric] = rows[i][metric]
      BY <2>1, <2>2 DEF IsSeries, Grows
    <3>2. \A k \in 1..(n + 1) : longer[k][metric] \in Nat
      BY <3>1, <2>2, <2>3, <2>4
    <3>3. \A i, j \in 1..(n + 1) : i <= j => longer[i][metric] <= longer[j][metric]
      <4> TAKE i, j \in 1..(n + 1)
      <4> HAVE i <= j
      <4>1. CASE j \in 1..n
        <5>1. i \in 1..n
          BY <4>1, <2>1
        <5> QED BY <4>1, <5>1, <3>1 DEF IsSeries, Grows
      <4>2. CASE j = n + 1 /\ i \in 1..n
        BY <4>2, <3>1, <2>3
      <4>3. CASE j = n + 1 /\ i = n + 1
        BY <4>3, <3>2
      <4> QED BY <4>1, <4>2, <4>3, <2>4
    <3> QED BY <3>2, <3>3, <2>1 DEF Grows
  <2>7. \A k \in 1..(n + 1) : "seconds" \in DOMAIN longer[k] /\ metric \in DOMAIN longer[k]
    BY <2>1, <2>3, <2>4 DEF IsSeries
  <2>8. longer # << >> /\ Len(longer) # 0 /\ Len(longer) \in Nat
    BY <2>1
  <2> HIDE DEF n
  <2> QED BY <2>1, <2>5, <2>6, <2>7, <2>8 DEF IsSeries
<1> QED BY <1>1, <1>2

\* The first row with the final value.
FirstFinal(s, rows, metric) ==
  /\ s \in 1..Len(rows) /\ rows[s][metric] = rows[Len(rows)][metric]
  /\ \A k \in 1..Len(rows) : k < s => rows[k][metric] < rows[Len(rows)][metric]

LEMMA Saturation ==
  ASSUME NEW rows, NEW metric, IsSeries(rows, metric), rows # << >>
  PROVE  \E s : FirstFinal(s, rows, metric) /\ saturation_seconds(rows, metric) = rows[s].seconds
<1> DEFINE final == { k \in 1..Len(rows) : rows[k][metric] = Last(rows)[metric] }
           s == Min(final)
<1>1. Len(rows) \in Nat /\ Len(rows) \in final /\ final \subseteq 1..Len(rows)
  BY DEF IsSeries, Last
<1>2. s \in final /\ \A k \in final : s <= k
  <2> HIDE DEF final
  <2> QED BY <1>1, MinOfInterval
<1>3. s \in 1..Len(rows) /\ rows[s][metric] = rows[Len(rows)][metric]
  BY <1>2 DEF Last
<1>4. ASSUME NEW k \in 1..Len(rows), k < s PROVE rows[k][metric] < rows[Len(rows)][metric]
  <2>1. k \notin final
    BY <1>2, <1>3, <1>4
  <2>2. rows[k][metric] # rows[Len(rows)][metric]
    BY <2>1 DEF Last
  <2>3. /\ rows[k][metric] <= rows[Len(rows)][metric] /\ rows[k][metric] \in Nat
        /\ rows[Len(rows)][metric] \in Nat
    BY <1>1, <1>3 DEF IsSeries, Grows
  <2> QED BY <2>2, <2>3
<1>5. saturation_seconds(rows, metric) = rows[s].seconds
  BY DEF saturation_seconds
<1> HIDE DEF s
<1> QED BY <1>3, <1>4, <1>5 DEF FirstFinal

LEMMA FirstFinalUnique ==
  ASSUME NEW rows, NEW metric, IsSeries(rows, metric), NEW s, NEW r,
         FirstFinal(s, rows, metric), FirstFinal(r, rows, metric)
  PROVE  s = r
<1>1. /\ s \in Nat /\ r \in Nat /\ s \in 1..Len(rows) /\ r \in 1..Len(rows)
      /\ rows[s][metric] \in Nat /\ rows[r][metric] \in Nat
  BY DEF FirstFinal, IsSeries, Grows
<1>2. ~(s < r) /\ ~(r < s)
  BY <1>1 DEF FirstFinal
<1> QED BY <1>1, <1>2

\* Before the time to saturation the curve shows less, at it the final value.
LEMMA ShownAtSaturation ==
  ASSUME NEW rows, NEW metric, IsSeries(rows, metric), NEW s, FirstFinal(s, rows, metric),
         NEW t \in Int
  PROVE  LET all == AllPoints(rows, metric)
         IN /\ t >= rows[s].seconds => ShownAt(all, t) = Last(rows)[metric]
            /\ t < rows[s].seconds => ShownAt(all, t) < Last(rows)[metric]
<1> DEFINE n == Len(rows)
           all == AllPoints(rows, metric)
<1>1. n \in Nat /\ s \in 1..n /\ n \in 1..n /\ InTime(rows) /\ Grows(rows, metric)
  BY DEF IsSeries, FirstFinal
<1>2. \A k \in 1..n : rows[k].seconds \in Int /\ rows[k][metric] \in Nat
  BY <1>1 DEF InTime, Grows
<1>3. ASSUME t >= rows[s].seconds PROVE ShownAt(all, t) = Last(rows)[metric]
  <2>1. PICK k \in 1..n : s <= k /\ ShownAt(all, t) = rows[k][metric]
    <3>1. rows[s].seconds <= t
      BY <1>3, <1>1, <1>2
    <3> QED BY <3>1, <1>1, RowReached
  <2>2. rows[s][metric] <= rows[k][metric] /\ rows[k][metric] <= rows[n][metric]
    BY <2>1, <1>1 DEF Grows
  <2>3. rows[s][metric] = rows[n][metric]
    BY DEF FirstFinal
  <2>4. rows[k][metric] \in Nat /\ rows[n][metric] \in Nat
    BY <2>1, <1>1, <1>2
  <2> QED BY <2>1, <2>2, <2>3, <2>4 DEF Last
<1>4. ASSUME t < rows[s].seconds PROVE ShownAt(all, t) < Last(rows)[metric]
  <2>1. CASE \E i \in 1..n : rows[i].seconds <= t
    <3>1. PICK i \in 1..n : rows[i].seconds <= t
      BY <2>1
    <3>2. PICK k \in 1..n : rows[k].seconds <= t /\ ShownAt(all, t) = rows[k][metric]
      BY <3>1, <1>1, RowReached
    <3>3. ~(s <= k)
      <4>1. s <= k => rows[s].seconds <= rows[k].seconds
        BY <1>1, <3>2 DEF InTime
      <4>2. rows[s].seconds \in Int /\ rows[k].seconds \in Int
        BY <1>1, <1>2, <3>2
      <4> QED BY <4>1, <4>2, <3>2, <1>4
    <3>4. k < s
      BY <3>2, <3>3, <1>1
    <3> QED BY <3>2, <3>4 DEF FirstFinal, Last
  <2>2. CASE \A i \in 1..n : ~(rows[i].seconds <= t)
    <3>1. /\ Len(all) = n
          /\ \A i \in 1..n : all[i][1] = rows[i].seconds
      BY <1>1, PointsOfRows
    <3>2. ShownAt(all, t) = -1
      <4> HIDE DEF all
      <4> QED BY <3>1, <2>2, NothingShown
    <3>3. rows[n][metric] \in Nat
      BY <1>1, <1>2
    <3> QED BY <3>2, <3>3 DEF Last
  <2> QED BY <2>1, <2>2
<1> QED BY <1>3, <1>4

\* The plateau moves no part of the curve before it.
LEMMA PlateauAfter ==
  ASSUME NEW rows, NEW metric, IsSeries(rows, metric), NEW duration,
         duration # NoTime => duration \in Int,
         NEW longer, Prolongs(longer, rows, duration),
         NEW t \in Int, rows # << >> => t <= Last(rows).seconds
  PROVE  ShownAt(AllPoints(longer, metric), t) = ShownAt(AllPoints(rows, metric), t)
<1> DEFINE n == Len(rows)
           all == AllPoints(rows, metric)
           more == AllPoints(longer, metric)
<1>1. CASE longer = rows
  BY <1>1
<1>2. CASE longer # rows
  <2>1. /\ n \in Nat /\ n > 0 /\ rows[n].seconds < duration /\ duration \in Int
        /\ Len(longer) = n + 1 /\ \A k \in 1..n : longer[k] = rows[k]
        /\ longer[n + 1] = [ rows[n] EXCEPT !.seconds = duration ]
        /\ t <= rows[n].seconds /\ n \in 1..n
    BY <1>2 DEF Prolongs, IsSeries, Last
  <2>2. longer[n + 1].seconds = duration
    BY <2>1 DEF IsSeries
  <2>3. InTime(rows) /\ \A k \in 1..n : rows[k].seconds \in Int
    BY DEF IsSeries, InTime
  <2>4. Len(longer) \in Nat
    BY <2>1
  <2>5. /\ Len(all) = n /\ Len(more) = n + 1
        /\ \A k \in 1..n : all[k][1] = rows[k].seconds /\ all[k][2] = rows[k][metric]
        /\ \A k \in 1..(n + 1) : more[k][1] = longer[k].seconds /\ more[k][2] = longer[k][metric]
    <3>1. /\ Len(all) = n
          /\ \A k \in 1..n : all[k][1] = rows[k].seconds /\ all[k][2] = rows[k][metric]
      BY <2>1, PointsOfRows
    <3>2. /\ Len(more) = n + 1
          /\ \A k \in 1..(n + 1) : more[k][1] = longer[k].seconds /\ more[k][2] = longer[k][metric]
      BY <2>1, <2>4, PointsOfRows
    <3> QED BY <3>1, <3>2
  <2>6. \A k \in 1..n : k \in 1..(n + 1) /\ more[k][1] = rows[k].seconds /\ more[k][2] = rows[k][metric]
    BY <2>1, <2>5
  <2>7. ~(more[n + 1][1] <= t) /\ \A k \in 1..(n + 1) : k = n + 1 \/ k \in 1..n
    <3>1. more[n + 1][1] = duration
      <4>1. n + 1 \in 1..(n + 1)
        BY <2>1
      <4> HIDE DEF more, all, n
      <4> QED BY <4>1, <2>2, <2>5
    <3>2. /\ rows[n].seconds \in Int /\ duration \in Int /\ n \in Nat
          /\ t <= rows[n].seconds /\ rows[n].seconds < duration
      BY <2>1, <2>3
    <3>3. ~(duration <= t)
      BY <3>2
    <3>4. \A k \in 1..(n + 1) : k = n + 1 \/ k \in 1..n
      BY <3>2
    <3> QED BY <3>1, <3>3, <3>4
  <2>8. CASE \E i \in 1..n : rows[i].seconds <= t
    <3>1. PICK i \in 1..n : rows[i].seconds <= t
      BY <2>8
    <3>0. n \in Nat
      BY <2>1
    <3>2. PICK k \in 1..n : /\ rows[k].seconds <= t
                           /\ \A j \in 1..n : rows[j].seconds <= t => j <= k
                           /\ ShownAt(all, t) = rows[k][metric]
      <4>1. \E k \in 1..Len(rows) :
              /\ LastAt(k, AllPoints(rows, metric), t) /\ i <= k
              /\ rows[k].seconds <= t
              /\ \A j \in 1..Len(rows) : rows[j].seconds <= t => j <= k
              /\ ShownAt(AllPoints(rows, metric), t) = rows[k][metric]
        BY <3>0, <3>1, <2>3, RowReached
      <4> QED BY <4>1
    <3> HIDE DEF all, more
    <3>3. LastAt(k, more, t)
      <4>1. \A j \in 1..(n + 1) : more[j][1] <= t => j <= k
        BY <3>2, <2>6, <2>7
      <4> QED BY <4>1, <3>2, <2>5, <2>6 DEF LastAt
    <3>4. ShownAt(more, t) = more[k][2]
      BY <3>3, <2>4, <2>5, <2>1, Shown
    <3> QED BY <3>2, <3>4, <2>6 DEF all, more
  <2>9. CASE \A i \in 1..n : ~(rows[i].seconds <= t)
    <3> HIDE DEF all, more
    <3>1. \A i \in 1..(n + 1) : ~(more[i][1] <= t)
      BY <2>9, <2>6, <2>7
    <3>2. ShownAt(more, t) = -1
      BY <3>1, <2>5, NothingShown
    <3>3. ShownAt(all, t) = -1
      BY <2>9, <2>5, NothingShown
    <3> QED BY <3>2, <3>3 DEF all, more
  <2> QED BY <2>8, <2>9
<1> QED BY <1>1, <1>2

\* Nor, as it has the value of the last row, the curve after it.
LEMMA PlateauShows ==
  ASSUME NEW rows, NEW metric, IsSeries(rows, metric), NEW duration,
         duration # NoTime => duration \in Int,
         NEW longer, Prolongs(longer, rows, duration), NEW t \in Int
  PROVE  ShownAt(AllPoints(longer, metric), t) = ShownAt(AllPoints(rows, metric), t)
<1>1. CASE longer = rows
  BY <1>1
<1>2. CASE rows # << >> => t <= Last(rows).seconds
  BY <1>2, PlateauAfter
<1>3. CASE longer # rows /\ ~(rows # << >> => t <= Last(rows).seconds)
  <2> DEFINE n == Len(rows)
  <2>1. /\ n \in Nat /\ n > 0 /\ rows # << >>
        /\ Len(longer) = n + 1 /\ \A k \in 1..n : longer[k] = rows[k]
        /\ longer[n + 1] = [ rows[n] EXCEPT !.seconds = duration ]
        /\ ~(t <= rows[n].seconds)
    BY <1>3 DEF Prolongs, IsSeries, Last
  <2>2. n \in 1..n /\ n + 1 \in 1..(n + 1) /\ \A k \in 1..n : k \in 1..(n + 1)
    BY <2>1
  <2>3. longer[n + 1][metric] = rows[n][metric] /\ longer # << >>
    BY <2>1, <2>2 DEF IsSeries
  <2>4. PICK s : FirstFinal(s, rows, metric)
    BY <2>1, Saturation
  <2>5. s \in 1..n /\ \A k \in 1..n : k < s => rows[k][metric] < rows[n][metric]
    BY <2>4 DEF FirstFinal
  <2>6. \A k \in 1..(n + 1) : k < s => k \in 1..n
    BY <2>1, <2>5
  <2>7. FirstFinal(s, longer, metric)
    BY <2>1, <2>2, <2>3, <2>4, <2>5, <2>6 DEF FirstFinal
  <2>8. IsSeries(longer, metric)
    BY Prolonged
  <2>9. t >= rows[s].seconds /\ longer[s].seconds = rows[s].seconds
    <3>1. rows[s].seconds <= rows[n].seconds /\ rows[s].seconds \in Int /\ rows[n].seconds \in Int
      BY <2>2, <2>5 DEF IsSeries, InTime
    <3> QED BY <3>1, <2>1, <2>5
  <2>10. ShownAt(AllPoints(rows, metric), t) = Last(rows)[metric]
    BY <2>4, <2>9, ShownAtSaturation
  <2>11. ShownAt(AllPoints(longer, metric), t) = Last(longer)[metric]
    BY <2>7, <2>8, <2>9, ShownAtSaturation
  <2>12. Last(longer) = longer[n + 1] /\ Last(rows) = rows[n]
    BY <2>1 DEF Last
  <2> QED BY <2>3, <2>10, <2>11, <2>12
<1> QED BY <1>1, <1>2, <1>3

\* The time to saturation is that of the curve, with the plateau or without.
LEMMA SaturatesAt ==
  ASSUME NEW R, NEW rows \in Seq(R), NEW metric, IsSeries(rows, metric), NEW duration,
         duration # NoTime => duration \in Int
  PROVE  SaturatesOnce(rows, metric, duration)
<1> DEFINE sat == saturation_seconds(rows, metric)
           longer == extend_rows_to_duration(rows, duration)
           all == AllPoints(rows, metric)
           end == IF rows = << >> THEN 0 ELSE Last(rows).seconds
<1>1. Prolongs(longer, rows, duration)
  BY Extended
<1>2. IsSeries(longer, metric)
  <2> HIDE DEF longer
  <2> QED BY <1>1, Prolonged
<1> HIDE DEF longer
<1>3. ASSUME rows # << >>
      PROVE  \E s : /\ FirstFinal(s, rows, metric) /\ sat = rows[s].seconds
                   /\ saturation_seconds(longer, metric) = sat
  <2> DEFINE n == Len(rows)
  <2>1. PICK s : FirstFinal(s, rows, metric) /\ sat = rows[s].seconds
    BY <1>3, Saturation
  <2>2. CASE longer = rows
    BY <2>1, <2>2
  <2>3. CASE longer # rows
    <3>1. /\ n \in Nat /\ n > 0 /\ n \in 1..n
          /\ Len(longer) = n + 1 /\ \A k \in 1..n : longer[k] = rows[k]
          /\ longer[n + 1] = [ rows[n] EXCEPT !.seconds = duration ]
      BY <2>3, <1>1 DEF Prolongs, IsSeries, Last
    <3>2. longer[n + 1][metric] = rows[n][metric]
      BY <3>1 DEF IsSeries
    <3>3. s \in 1..n /\ rows[s][metric] = rows[n][metric]
      BY <2>1 DEF FirstFinal
    <3>4. \A k \in 1..(n + 1) : k < s => k \in 1..n
      BY <3>1, <3>3
    <3>5. FirstFinal(s, longer, metric)
      <4>1. s \in 1..(n + 1) /\ longer[s] = rows[s]
        BY <3>1, <3>3
      <4>2. \A k \in 1..(n + 1) : k < s => longer[k][metric] < longer[n + 1][metric]
        BY <3>1, <3>2, <3>4, <2>1 DEF FirstFinal
      <4> QED BY <4>1, <4>2, <3>1, <3>2, <3>3 DEF FirstFinal
    <3>6. longer # << >>
      BY <3>1, <1>2 DEF IsSeries
    <3>7. PICK r : FirstFinal(r, longer, metric) /\ saturation_seconds(longer, metric) = longer[r].seconds
      BY <3>6, <1>2, Saturation
    <3>8. r = s
      BY <3>5, <3>7, <1>2, FirstFinalUnique
    <3>9. saturation_seconds(longer, metric) = rows[s].seconds
      BY <3>1, <3>3, <3>7, <3>8
    <3> QED BY <2>1, <3>9
  <2> QED BY <2>2, <2>3
<1>4. saturation_seconds(longer, metric) = sat
  <2>1. CASE rows = << >>
    <3>1. longer = rows
      BY <2>1, <1>1 DEF Prolongs
    <3> QED BY <3>1
  <2>2. CASE rows # << >>
    BY <2>2, <1>3
  <2> QED BY <2>1, <2>2
<1>5. ASSUME rows # << >>
      PROVE  /\ ShownAt(all, sat) = Last(rows)[metric]
             /\ \A t \in 0..(sat - 1) : ShownAt(all, t) < Last(rows)[metric]
  <2>1. PICK s : FirstFinal(s, rows, metric) /\ sat = rows[s].seconds
    BY <1>3, <1>5
  <2>2. sat \in Int
    BY <2>1 DEF FirstFinal, IsSeries, InTime
  <2> HIDE DEF all, sat
  <2>3. ASSUME NEW t \in Int
        PROVE  /\ t >= sat => ShownAt(all, t) = Last(rows)[metric]
               /\ t < sat => ShownAt(all, t) < Last(rows)[metric]
    BY <2>1, ShownAtSaturation DEF all
  <2>4. sat >= sat /\ \A t \in 0..(sat - 1) : t \in Int /\ t < sat
    BY <2>2
  <2> QED BY <2>2, <2>3, <2>4
<1>6. ASSUME NEW t \in 0..end
      PROVE  ShownAt(AllPoints(longer, metric), t) = ShownAt(all, t)
  <2>1. t \in Int
    OBVIOUS
  <2>2. rows # << >> => t <= Last(rows).seconds
    <3>1. rows # << >> => Last(rows).seconds \in Int
      BY DEF IsSeries, InTime, Last
    <3> QED BY <3>1
  <2>3. ShownAt(AllPoints(longer, metric), t) = ShownAt(AllPoints(rows, metric), t)
    <3> HIDE DEF sat, all, end
    <3> QED BY <2>1, <2>2, <1>1, PlateauAfter
  <2> QED BY <2>3
<1>7. ASSUME rows # << >>, duration # NoTime PROVE Last(longer).seconds >= duration
  <2>1. Last(rows).seconds \in Int /\ duration \in Int
    BY <1>7 DEF IsSeries, InTime, Last
  <2>2. CASE longer = rows
    BY <2>1, <2>2, <1>1, <1>7 DEF Prolongs
  <2>3. CASE longer # rows
    <3>1. /\ Len(longer) = Len(rows) + 1 /\ Len(rows) \in 1..Len(rows)
          /\ longer[Len(rows) + 1] = [ rows[Len(rows)] EXCEPT !.seconds = duration ]
      BY <2>3, <1>1 DEF Prolongs, IsSeries, Last
    <3>2. Last(longer).seconds = duration
      BY <3>1 DEF IsSeries, Last
    <3> QED BY <3>2, <2>1
  <2> QED BY <2>2, <2>3
<1> HIDE DEF sat, all, end
<1>8. /\ saturation_seconds(longer, metric) = sat
      /\ rows # << >> => /\ ShownAt(all, sat) = Last(rows)[metric]
                        /\ \A t \in 0..(sat - 1) : ShownAt(all, t) < Last(rows)[metric]
      /\ \A t \in 0..end : ShownAt(AllPoints(longer, metric), t) = ShownAt(all, t)
      /\ rows # << >> /\ duration # NoTime => Last(longer).seconds >= duration
  BY <1>4, <1>5, <1>6, <1>7
<1> QED BY <1>8 DEF SaturatesOnce, sat, longer, all, end
================================================================================
