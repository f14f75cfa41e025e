------------------------- MODULE ConfigletGrowthProofs -------------------------
(***************************************************************************)
(* Proofs about ConfigletGrowth, for every queue, ground truth and         *)
(* duration, and whichever replays fail and files vanish: every row is     *)
(* what the analysis reports of the testcases replayed up to its file, so  *)
(* skipped testcases leave no trace in the curves, and what is covered     *)
(* stays within the ground truth.                                          *)
(***************************************************************************)
EXTENDS ConfigletGrowth, GrowthCurveProofs

-----------------------------------------------------------------------------
(* What the analysis reports of a set of testcases.                        *)

\* Everything the testcases of S found.
Gathered(S) == [ l \in Labels |-> UNION { f.found[l] : f \in S } ]

FiniteStates(states) == \A l \in Labels : IsFiniteSet(states[l])

\* The files of a directory, or some of them.
Directory(found) == Timed(found) /\ \A f \in found : FiniteStates(f.found)

Known(known) == known # NoTruth => FiniteStates(known)

\* The row of the k-th file, when those of done have been replayed.
RowFor(found, done, known, k) ==
  LET report == analyze(done \intersect First(found, k), known)
  IN [ seconds |-> time_of(in_time_order(found)[k], found), queued_files |-> k,
       unique_features |-> report.unique_features,
       unique_combinations |-> report.unique_combinations,
       unique_dependencies |-> report.unique_dependencies,
       covered_total |-> report.covered_total, discovered_total |-> report.discovered_total,
       ground_truth_total |-> report.ground_truth_total ]

\* A row counts what the analysis counts.
Reports(row, metric, found, done, known, k) ==
  /\ row[metric] = analyze(done \intersect First(found, k), known)[metric]
  /\ row.seconds = time_of(in_time_order(found)[k], found)
  /\ metric \in DOMAIN row /\ "seconds" \in DOMAIN row

LEMMA RowReports ==
  ASSUME NEW found, NEW done, NEW known, NEW k, NEW metric \in Metrics
  PROVE  Reports(RowFor(found, done, known, k), metric, found, done, known, k)
<1> DEFINE report == analyze(done \intersect First(found, k), known)
           row == RowFor(found, done, known, k)
<1>1. /\ row["unique_features"] = report["unique_features"]
      /\ row["unique_combinations"] = report["unique_combinations"]
      /\ row["unique_dependencies"] = report["unique_dependencies"]
      /\ row["covered_total"] = report["covered_total"]
      /\ row["discovered_total"] = report["discovered_total"]
      /\ row.seconds = time_of(in_time_order(found)[k], found)
      /\ DOMAIN row = { "seconds", "queued_files", "unique_features", "unique_combinations",
                        "unique_dependencies", "covered_total", "discovered_total",
                        "ground_truth_total" }
  BY DEF RowFor
<1> HIDE DEF row, report
<1>2. row[metric] = report[metric] /\ metric \in DOMAIN row /\ "seconds" \in DOMAIN row
  BY <1>1 DEF Metrics
<1> QED BY <1>1, <1>2 DEF row, report, Reports

\* The analysis in terms of what is gathered.
LEMMA AnalysisOf ==
  ASSUME NEW S, NEW known
  PROVE  LET all == Gathered(S)
             report == analyze(S, known)
         IN /\ report.unique_features = Cardinality(all["features"])
            /\ report.unique_combinations = Cardinality(all["combos"])
            /\ report.unique_dependencies = Cardinality(all["dependencies"])
            /\ report.discovered_total = size(all)
            /\ report.covered_total = covered_counts(all, known).covered
            /\ report.ground_truth_total = covered_counts(all, known).total
            /\ report.ground_truth_total = IF known = NoTruth THEN NoTruth ELSE size(known)
            /\ report.covered_total =
                 IF known = NoTruth THEN size(all)
                 ELSE size([ l \in Labels |-> all[l] \intersect known[l] ])
<1> DEFINE all == Gathered(S)
           covered == [ l \in Labels |-> IF known = NoTruth THEN Cardinality(all[l])
                                         ELSE Cardinality(all[l] \intersect known[l]) ]
<1>1. analyze(S, known) =
        [ unique_features |-> Cardinality(all["features"]),
          unique_combinations |-> Cardinality(all["combos"]),
          unique_dependencies |-> Cardinality(all["dependencies"]),
          covered_total |-> covered["features"] + covered["combos"] + covered["dependencies"],
          discovered_total |-> size(all),
          ground_truth_total |-> IF known = NoTruth THEN NoTruth ELSE size(known) ]
  BY DEF analyze, Gathered
<1>2. "features" \in Labels /\ "combos" \in Labels /\ "dependencies" \in Labels
  BY DEF Labels
<1> HIDE DEF all
<1>3. covered["features"] + covered["combos"] + covered["dependencies"] =
        IF known = NoTruth THEN size(all)
        ELSE size([ l \in Labels |-> all[l] \intersect known[l] ])
  BY <1>2 DEF size
<1> HIDE DEF covered
<1>4. /\ covered_counts(all, known).covered =
           (IF known = NoTruth THEN size(all)
            ELSE size([ l \in Labels |-> all[l] \intersect known[l] ]))
      /\ covered_counts(all, known).total = IF known = NoTruth THEN NoTruth ELSE size(known)
  BY DEF covered_counts
<1> QED BY <1>1, <1>3, <1>4 DEF all

\* Fewer states have a smaller size.
LEMMA SizeGrows ==
  ASSUME NEW few, NEW many, FiniteStates(many), \A l \in Labels : few[l] \subseteq many[l]
  PROVE  size(few) \in Nat /\ size(many) \in Nat /\ size(few) <= size(many)
<1>1. \A l \in Labels : /\ Cardinality(few[l]) \in Nat /\ Cardinality(many[l]) \in Nat
                        /\ Cardinality(few[l]) <= Cardinality(many[l])
  BY FS_Subset, FS_CardinalityType DEF FiniteStates
<1>2. "features" \in Labels /\ "combos" \in Labels /\ "dependencies" \in Labels
  BY DEF Labels
<1> DEFINE C(s, l) == Cardinality(s[l])
<1>3. \A l \in Labels : C(few, l) \in Nat /\ C(many, l) \in Nat /\ C(few, l) <= C(many, l)
  BY <1>1
<1>4. /\ size(few) = C(few, "features") + C(few, "combos") + C(few, "dependencies")
      /\ size(many) = C(many, "features") + C(many, "combos") + C(many, "dependencies")
  BY DEF size
<1> HIDE DEF C
<1> QED BY <1>2, <1>3, <1>4

\* Finitely many testcases found finitely much, and more of them no less.
LEMMA GatheredFinite ==
  ASSUME NEW found, Directory(found), NEW S, S \subseteq found, NEW T, T \subseteq S
  PROVE  /\ FiniteStates(Gathered(S))
         /\ \A l \in Labels : Gathered(T)[l] \subseteq Gathered(S)[l]
<1>1. IsFiniteSet(S)
  BY FS_Subset DEF Directory, Timed
<1>2. ASSUME NEW l \in Labels PROVE IsFiniteSet(UNION { f.found[l] : f \in S })
  <2> DEFINE F == { f.found[l] : f \in S }
             h == [ f \in S |-> f.found[l] ]
  <2>1. h \in Surjection(S, F)
    BY DEF Surjection
  <2> HIDE DEF h
  <2>2. IsFiniteSet(F)
    BY <1>1, <2>1, FS_Surjection
  <2>3. \A x \in F : IsFiniteSet(x)
    BY <1>2 DEF Directory, FiniteStates
  <2> HIDE DEF F
  <2>4. IsFiniteSet(UNION F)
    BY <2>2, <2>3, FS_UNION
  <2> QED BY <2>4 DEF F
<1>3. FiniteStates(Gathered(S))
  BY <1>2 DEF FiniteStates, Gathered
<1>4. \A l \in Labels : Gathered(T)[l] \subseteq Gathered(S)[l]
  BY DEF Gathered
<1> QED BY <1>3, <1>4

\* What is reported is a number, and never falls as more is replayed.
LEMMA ReportGrows ==
  ASSUME NEW found, Directory(found), NEW known, NEW metric \in Metrics,
         NEW S, S \subseteq found, NEW T, T \subseteq S
  PROVE  /\ analyze(T, known)[metric] \in Nat
         /\ analyze(T, known)[metric] <= analyze(S, known)[metric]
<1> DEFINE all == Gathered(S)
           some == Gathered(T)
           both == [ l \in Labels |-> all[l] \intersect known[l] ]
           less == [ l \in Labels |-> some[l] \intersect known[l] ]
<1>1. FiniteStates(all) /\ \A l \in Labels : some[l] \subseteq all[l]
  BY GatheredFinite
<1>2. /\ \A l \in Labels : /\ Cardinality(some[l]) \in Nat /\ Cardinality(all[l]) \in Nat
                           /\ Cardinality(some[l]) <= Cardinality(all[l])
      /\ "features" \in Labels /\ "combos" \in Labels /\ "dependencies" \in Labels
  BY <1>1, FS_Subset, FS_CardinalityType DEF FiniteStates, Labels
<1>3. size(some) \in Nat /\ size(some) <= size(all)
  BY <1>1, SizeGrows
<1> HIDE DEF all, some
<1>4. size(less) \in Nat /\ size(less) <= size(both)
  <2>1. FiniteStates(both)
    BY <1>1, FS_Subset DEF FiniteStates
  <2>2. \A l \in Labels : less[l] \subseteq both[l]
    BY <1>1
  <2> HIDE DEF less, both
  <2> QED BY <2>1, <2>2, SizeGrows
<1> HIDE DEF less, both
<1>5. /\ analyze(S, known)["unique_features"] = Cardinality(all["features"])
      /\ analyze(S, known)["unique_combinations"] = Cardinality(all["combos"])
      /\ analyze(S, known)["unique_dependencies"] = Cardinality(all["dependencies"])
      /\ analyze(S, known)["discovered_total"] = size(all)
      /\ analyze(S, known)["covered_total"] = IF known = NoTruth THEN size(all) ELSE size(both)
  BY AnalysisOf DEF all, both
<1>6. /\ analyze(T, known)["unique_features"] = Cardinality(some["features"])
      /\ analyze(T, known)["unique_combinations"] = Cardinality(some["combos"])
      /\ analyze(T, known)["unique_dependencies"] = Cardinality(some["dependencies"])
      /\ analyze(T, known)["discovered_total"] = size(some)
      /\ analyze(T, known)["covered_total"] = IF known = NoTruth THEN size(some) ELSE size(less)
  BY AnalysisOf DEF some, less
<1> QED BY <1>2, <1>3, <1>4, <1>5, <1>6 DEF Metrics

\* What is covered was discovered and is in the ground truth.
Within(row) ==
  /\ row.covered_total <= row.discovered_total
  /\ row.ground_truth_total = NoTruth => row.covered_total = row.discovered_total
  /\ row.ground_truth_total # NoTruth => row.covered_total <= row.ground_truth_total

LEMMA RowWithin ==
  ASSUME NEW found, Directory(found), NEW known, Known(known), NEW k \in 0..Cardinality(found),
         NEW done
  PROVE  Within(RowFor(found, done, known, k))
<1> DEFINE S == done \intersect First(found, k)
           all == Gathered(S)
           both == [ l \in Labels |-> all[l] \intersect known[l] ]
           row == RowFor(found, done, known, k)
<1>1. S \subseteq found
  BY FirstFiles DEF Directory
<1>2. FiniteStates(all)
  <2> HIDE DEF S
  <2> QED BY <1>1, GatheredFinite
<1>3. /\ row.discovered_total = size(all)
      /\ row.covered_total = IF known = NoTruth THEN size(all) ELSE size(both)
      /\ row.ground_truth_total = IF known = NoTruth THEN NoTruth ELSE size(known)
  <2>1. /\ row.discovered_total = analyze(S, known).discovered_total
        /\ row.covered_total = analyze(S, known).covered_total
        /\ row.ground_truth_total = analyze(S, known).ground_truth_total
    BY DEF RowFor
  <2> HIDE DEF S, row
  <2> QED BY <2>1, AnalysisOf
<1> HIDE DEF S, all, row
<1>4. size(all) \in Nat /\ size(both) <= size(all) /\ size(both) \in Nat
  <2>1. \A l \in Labels : both[l] \subseteq all[l]
    OBVIOUS
  <2> HIDE DEF both
  <2> QED BY <2>1, <1>2, SizeGrows
<1>5. known # NoTruth => size(known) \in Nat /\ size(both) <= size(known)
  <2>1. \A l \in Labels : both[l] \subseteq known[l]
    OBVIOUS
  <2> HIDE DEF both
  <2> QED BY <2>1, SizeGrows DEF Known
<1> HIDE DEF both
<1>6. NoTruth \notin Nat
  BY CommandLineAssumption
<1>7. Within(row)
  BY <1>3, <1>4, <1>5, <1>6 DEF Within
<1> QED BY <1>7 DEF row

-----------------------------------------------------------------------------
(* The rows of a queue whose first k files have been gone through.         *)

\* base are rows of some of the files, those at the positions at: in order,
\* and each file that has been replayed among them.
Follows(base, at, found, done, known, k) ==
  /\ base \in Seq({ RowFor(found, done, known, p) : p \in 1..k })
  /\ at \in [1..Len(base) -> 1..k]
  /\ \A i, j \in 1..Len(base) : i < j => at[i] < at[j]
  /\ \A j \in 1..Len(base) : base[j] = RowFor(found, done, known, at[j])
  /\ \A p \in 1..k : in_time_order(found)[p] \in done => \E j \in 1..Len(base) : at[j] = p

\* They are a series of every metric.
LEMMA FollowsIsSeries ==
  ASSUME NEW found, Directory(found), NEW known, NEW done, NEW k \in 0..Cardinality(found),
         NEW base, NEW at, Follows(base, at, found, done, known, k), NEW metric \in Metrics
  PROVE  IsSeries(base, metric)
<1> DEFINE order == in_time_order(found)
           N == Cardinality(found)
           n == Len(base)
           row(p) == RowFor(found, done, known, p)
<1>1. InTimeOrder(order, found) /\ N \in Nat /\ k \in Nat /\ k <= N
  BY TimeOrder DEF Directory, InTimeOrder
<1>2. /\ n \in Nat /\ (base = << >> <=> n = 0)
      /\ \A j \in 1..n : at[j] \in 1..k /\ base[j] = row(at[j])
      /\ \A i, j \in 1..n : i < j => at[i] < at[j]
  <2>1. base \in Seq({ row(p) : p \in 1..k })
    BY DEF Follows
  <2>2. n \in Nat /\ (base = << >> <=> n = 0)
    BY <2>1, EmptySeq
  <2> QED BY <2>2 DEF Follows
<1> HIDE DEF row, n, order
<1>3. \A p \in 1..k : /\ p \in 1..N /\ order[p] \in found /\ time_of(order[p], found) \in Int
                       /\ row(p).seconds = time_of(order[p], found)
                       /\ "seconds" \in DOMAIN row(p) /\ metric \in DOMAIN row(p)
                       /\ row(p)[metric] = analyze(done \intersect First(found, p), known)[metric]
  <2> TAKE p \in 1..k
  <2>1. p \in 1..N
    BY <1>1
  <2>2. order[p] \in found
    BY <2>1, <1>1 DEF InTimeOrder
  <2>3. time_of(order[p], found) \in Int
    BY <2>2, TimeType DEF Directory
  <2>4. Reports(RowFor(found, done, known, p), metric, found, done, known, p)
    BY RowReports
  <2>5. Reports(row(p), metric, found, done, known, p)
    BY <2>4 DEF row
  <2> QED BY <2>1, <2>2, <2>3, <2>5 DEF Reports, order
<1>4. \A i, j \in 1..n : i <= j => i = j \/ (i < j /\ at[i] < at[j])
  BY <1>2
<1>5. InTime(base)
  <2>1. ASSUME NEW i \in 1..n, NEW j \in 1..n, i <= j
        PROVE  base[i].seconds <= base[j].seconds /\ base[i].seconds \in Int
    <3>1. /\ base[i].seconds = time_of(order[at[i]], found) /\ base[i].seconds \in Int
          /\ base[j].seconds = time_of(order[at[j]], found) /\ base[j].seconds \in Int
      <4>1. base[i].seconds = time_of(order[at[i]], found) /\ base[i].seconds \in Int
        BY <1>2, <1>3
      <4>2. base[j].seconds = time_of(order[at[j]], found) /\ base[j].seconds \in Int
        BY <1>2, <1>3
      <4> QED BY <4>1, <4>2
    <3>2. CASE i = j
      BY <3>1, <3>2
    <3>3. CASE i < j /\ at[i] < at[j]
      <4>1. at[i] \in 1..N /\ at[j] \in 1..N
        BY <1>2, <1>3
      <4>2. time_of(order[at[i]], found) <= time_of(order[at[j]], found)
        BY <4>1, <3>3, <1>1 DEF InTimeOrder
      <4> QED BY <3>1, <4>2
    <3> QED BY <2>1, <1>4, <3>2, <3>3
  <2>2. \A i \in 1..n : base[i].seconds \in Int
    BY <1>2, <1>3
  <2> QED BY <2>1, <2>2 DEF InTime, n
<1>6. Grows(base, metric)
  <2>1. ASSUME NEW i \in 1..n, NEW j \in 1..n, i <= j
        PROVE  base[i][metric] <= base[j][metric] /\ base[i][metric] \in Nat
    <3>1. at[i] \in 0..at[j] /\ at[j] \in 0..N
      <4>1. at[i] \in 1..k /\ at[j] \in 1..k /\ (at[i] = at[j] \/ at[i] < at[j])
        BY <2>1, <1>2, <1>4
      <4> QED BY <4>1, <1>1
    <3> DEFINE S == done \intersect First(found, at[j])
               T == done \intersect First(found, at[i])
    <3>2. S \subseteq found /\ T \subseteq S
      BY <3>1, FirstFiles DEF Directory
    <3>3. base[i][metric] = analyze(T, known)[metric] /\ base[j][metric] = analyze(S, known)[metric]
      BY <1>2, <1>3
    <3> HIDE DEF S, T
    <3> QED BY <3>2, <3>3, ReportGrows
  <2>2. \A i \in 1..n : base[i][metric] \in Nat
    <3> TAKE i \in 1..n
    <3>1. i <= i
      BY <1>2
    <3> QED BY <3>1, <2>1
  <2> QED BY <2>1, <2>2 DEF Grows, n
<1>7. metric # "seconds"
  BY DEF Metrics
<1>8. \A j \in 1..n : "seconds" \in DOMAIN base[j] /\ metric \in DOMAIN base[j]
  BY <1>2, <1>3
<1> QED BY <1>2, <1>5, <1>6, <1>7, <1>8 DEF IsSeries, n

\* Those of done that were queued up to a time.
QueuedUpTo(done, found, t) == { f \in done : time_of(f, found) <= t }

\* From the first row on a curve shows what the analysis reports of the
\* testcases replayed up to a time.
ShowsReplayed(base, metric, found, done, known) ==
  \A t \in Int : base # << >> /\ base[1].seconds <= t =>
    ShownAt(AllPoints(base, metric), t) = analyze(QueuedUpTo(done, found, t), known)[metric]

\* Whatever was skipped.
LEMMA FollowsShows ==
  ASSUME NEW found, Directory(found), NEW known, NEW done, NEW k \in 0..Cardinality(found),
         done \subseteq First(found, k),
         NEW base, NEW at, Follows(base, at, found, done, known, k), NEW metric \in Metrics
  PROVE  ShowsReplayed(base, metric, found, done, known)
<1> SUFFICES ASSUME NEW t \in Int, base # << >>, base[1].seconds <= t
             PROVE  ShownAt(AllPoints(base, metric), t)
                      = analyze(QueuedUpTo(done, found, t), known)[metric]
  BY DEF ShowsReplayed
<1> DEFINE order == in_time_order(found)
           N == Cardinality(found)
           n == Len(base)
           upto == QueuedUpTo(done, found, t)
<1>1. InTimeOrder(order, found) /\ N \in Nat /\ k \in Nat /\ k <= N
  BY TimeOrder DEF Directory, InTimeOrder
<1>2. IsSeries(base, metric)
  BY FollowsIsSeries
<1>3. n \in Nat /\ n > 0 /\ 1 \in 1..n /\ InTime(base)
  BY <1>2 DEF IsSeries
<1>4. PICK i \in 1..n : /\ base[i].seconds <= t
                       /\ \A j \in 1..n : base[j].seconds <= t => j <= i
                       /\ ShownAt(AllPoints(base, metric), t) = base[i][metric]
  <2>1. \E i \in 1..Len(base) :
          /\ LastAt(i, AllPoints(base, metric), t) /\ 1 <= i
          /\ base[i].seconds <= t
          /\ \A j \in 1..Len(base) : base[j].seconds <= t => j <= i
          /\ ShownAt(AllPoints(base, metric), t) = base[i][metric]
    BY <1>3, RowReached
  <2> QED BY <2>1
<1>5. /\ \A j \in 1..n : at[j] \in 1..k /\ base[j] = RowFor(found, done, known, at[j])
      /\ \A j, l \in 1..n : j < l => at[j] < at[l]
      /\ \A p \in 1..k : order[p] \in done => \E j \in 1..n : at[j] = p
  BY DEF Follows
<1>6. /\ \A j \in 1..n : base[j].seconds = time_of(order[at[j]], found)
      /\ base[i][metric] = analyze(done \intersect First(found, at[i]), known)[metric]
  <2>1. ASSUME NEW j \in 1..n
        PROVE  /\ base[j].seconds = time_of(order[at[j]], found)
               /\ base[j][metric] = analyze(done \intersect First(found, at[j]), known)[metric]
    <3>1. PICK p : p = at[j]
      OBVIOUS
    <3>2. base[j] = RowFor(found, done, known, p)
      BY <2>1, <3>1, <1>5
    <3>3. Reports(RowFor(found, done, known, p), metric, found, done, known, p)
      BY RowReports
    <3> QED BY <3>1, <3>2, <3>3 DEF Reports
  <2> HIDE DEF order
  <2> QED BY <2>1
<1> HIDE DEF n, order
<1>7. ASSUME NEW f \in upto PROVE f \in First(found, at[i])
  <2>1. f \in First(found, k) /\ f \in done /\ time_of(f, found) <= t
    BY DEF QueuedUpTo
  <2>2. PICK p \in 1..k : f = order[p]
    BY <2>1 DEF First, order
  <2>3. PICK j \in 1..n : at[j] = p
    BY <2>1, <2>2, <1>5
  <2>4. base[j].seconds <= t
    BY <2>1, <2>2, <2>3, <1>6
  <2>5. j <= i
    BY <2>4, <1>4
  <2>6. j = i \/ j < i
    BY <2>5, <1>3
  <2>7. at[j] = at[i] \/ at[j] < at[i]
    BY <2>6, <1>5
  <2>8. at[i] \in 1..k
    BY <1>5
  <2>9. p \in 1..at[i]
    BY <2>3, <2>7, <2>8, <1>1
  <2> QED BY <2>2, <2>9 DEF First, order
<1>8. ASSUME NEW f \in done, f \in First(found, at[i]) PROVE f \in upto
  <2>1. PICK p \in 1..at[i] : f = order[p]
    BY <1>8 DEF First, order
  <2>2. at[i] \in 1..k
    BY <1>5
  <2>3. at[i] \in 1..N /\ p \in 1..N /\ (p < at[i] \/ p = at[i])
    BY <2>1, <2>2, <1>1
  <2>4. order[p] \in found /\ order[at[i]] \in found
    BY <2>3, <1>1 DEF InTimeOrder
  <2>5. time_of(order[p], found) \in Int /\ time_of(order[at[i]], found) \in Int
    BY <2>4, TimeType DEF Directory
  <2>6. time_of(order[at[i]], found) <= t
    BY <1>4, <1>6
  <2>7. p < at[i] => time_of(order[p], found) <= time_of(order[at[i]], found)
    BY <2>3, <1>1 DEF InTimeOrder
  <2>8. time_of(order[p], found) <= t
    BY <2>3, <2>5, <2>6, <2>7
  <2> QED BY <2>1, <2>8 DEF QueuedUpTo
<1>9. upto = done \intersect First(found, at[i])
  <2>1. upto \subseteq done
    BY DEF QueuedUpTo
  <2> HIDE DEF upto
  <2> QED BY <2>1, <1>7, <1>8
<1> QED BY <1>4, <1>6, <1>9

-----------------------------------------------------------------------------
(* The inductive invariant.                                                *)

\* What is listed is in the directory; the files not gone through are left.
QueueInv ==
  /\ path \in Paths /\ extend_to \in Durations
  /\ truth \in { load_ground_truth(data) : data \in TruthFiles }
  /\ listed \subseteq path.campaign.files
  /\ exit = "starting" => listed = {}
  /\ index \in 0..Cardinality(listed)
  /\ files \in Seq(listed) /\ Len(files) = Cardinality(listed) - index
  /\ \A j \in 1..Len(files) : files[j] = in_time_order(listed)[index + j]

\* What has been replayed, what it found and its rows.
RowsInv ==
  /\ replayed \subseteq First(listed, index) /\ seen = Gathered(replayed)
  /\ \E base, at :
       /\ Follows(base, at, listed, replayed, truth, index)
       /\ \/ exit # "0" /\ rows = base
          \/ exit = "0" /\ files = << >> /\ rows = extend_rows_to_duration(base, extend_to)

GrowthInv == QueueInv /\ RowsInv

\* The next file is none of those gone through.
LEMMA NextIsNew ==
  ASSUME NEW found, Directory(found), NEW k \in Nat, k < Cardinality(found)
  PROVE  /\ k + 1 \in 1..Cardinality(found) /\ in_time_order(found)[k + 1] \in found
         /\ \A p \in 1..k : in_time_order(found)[p] # in_time_order(found)[k + 1]
         /\ in_time_order(found)[k + 1] \notin First(found, k)
<1> DEFINE order == in_time_order(found)
           N == Cardinality(found)
<1>1. InTimeOrder(order, found) /\ N \in Nat
  BY TimeOrder DEF Directory, InTimeOrder
<1>2. k + 1 \in 1..N /\ \A p \in 1..k : p \in 1..N /\ p < k + 1
  BY <1>1
<1> HIDE DEF order
<1>3. order[k + 1] \in found
  BY <1>1, <1>2 DEF InTimeOrder
<1>4. \A p \in 1..k : order[p] # order[k + 1]
  BY <1>1, <1>2 DEF InTimeOrder
<1> QED BY <1>2, <1>3, <1>4 DEF First, order

\* A file that is skipped changes nothing.
LEMMA FollowsSkip ==
  ASSUME NEW found, Directory(found), NEW known, NEW k \in Nat, k < Cardinality(found),
         NEW done, done \subseteq First(found, k),
         NEW base, NEW at, Follows(base, at, found, done, known, k)
  PROVE  Follows(base, at, found, done, known, k + 1)
<1>1. in_time_order(found)[k + 1] \notin done
  BY NextIsNew
<1>2. \A p \in 1..k : p \in 1..(k + 1)
  OBVIOUS
<1>3. \A p \in 1..(k + 1) : p \in 1..k \/ p = k + 1
  OBVIOUS
<1>4. base \in Seq({ RowFor(found, done, known, p) : p \in 1..(k + 1) })
  <2> DEFINE S == { RowFor(found, done, known, p) : p \in 1..k }
             T == { RowFor(found, done, known, p) : p \in 1..(k + 1) }
  <2>1. base \in Seq(S) /\ S \subseteq T
    BY <1>2 DEF Follows
  <2> HIDE DEF S, T
  <2>2. base \in Seq(T)
    BY <2>1, SeqMonotonic
  <2> QED BY <2>2 DEF T
<1>5. at \in [1..Len(base) -> 1..(k + 1)]
  BY <1>2 DEF Follows
<1>6. \A p \in 1..(k + 1) : in_time_order(found)[p] \in done => \E j \in 1..Len(base) : at[j] = p
  BY <1>1, <1>3 DEF Follows
<1> QED BY <1>4, <1>5, <1>6 DEF Follows

\* A row more, of the next file, whether it has been replayed or has vanished.
LEMMA FollowsRow ==
  ASSUME NEW found, Directory(found), NEW known, NEW k \in Nat, k < Cardinality(found),
         NEW done, done \subseteq First(found, k),
         NEW base, NEW at, Follows(base, at, found, done, known, k),
         NEW more, more = done \/ more = done \union {in_time_order(found)[k + 1]},
         NEW row, row = RowFor(found, more, known, k + 1)
  PROVE  \E to : Follows(Append(base, row), to, found, more, known, k + 1)
<1> DEFINE order == in_time_order(found)
           n == Len(base)
           longer == Append(base, row)
           to == [ j \in 1..(n + 1) |-> IF j = n + 1 THEN k + 1 ELSE at[j] ]
           T == { RowFor(found, more, known, p) : p \in 1..(k + 1) }
<1>1. \A p \in 1..(k + 1) : p \in 1..k \/ p = k + 1
  OBVIOUS
<1>2. \A p \in 1..k : p \in 1..(k + 1) /\ RowFor(found, more, known, p) = RowFor(found, done, known, p)
  <2> TAKE p \in 1..k
  <2>1. p \in 0..k /\ k \in 0..Cardinality(found)
    BY FS_CardinalityType DEF Directory, Timed
  <2>2. First(found, p) \subseteq First(found, k)
    BY <2>1, FirstFiles DEF Directory
  <2>3. order[k + 1] \notin First(found, p)
    BY <2>2, NextIsNew
  <2> DEFINE S == done \intersect First(found, p)
             U == more \intersect First(found, p)
  <2>4. S = U
    BY <2>3
  <2> HIDE DEF S, U
  <2>5. analyze(U, known) = analyze(S, known)
    BY <2>4
  <2>6. RowFor(found, more, known, p) = RowFor(found, done, known, p)
    BY <2>5, Zenon DEF RowFor, S, U
  <2>7. p \in 1..(k + 1)
    OBVIOUS
  <2> QED BY <2>6, <2>7
<1>3. base \in Seq({ RowFor(found, done, known, p) : p \in 1..k })
  BY DEF Follows
<1>4. base \in Seq(T) /\ row \in T /\ n \in Nat
  <2>1. { RowFor(found, done, known, p) : p \in 1..k } \subseteq T
    BY <1>2
  <2>2. k + 1 \in 1..(k + 1)
    OBVIOUS
  <2>3. row \in T
    BY <2>2
  <2> HIDE DEF T
  <2> QED BY <2>1, <2>3, <1>3, SeqMonotonic
<1> HIDE DEF T
<1>5. /\ longer \in Seq(T) /\ Len(longer) = n + 1
      /\ \A j \in 1..n : longer[j] = base[j]
      /\ longer[n + 1] = row
  BY <1>4, AppendProperties
<1>6. /\ at \in [1..n -> 1..k]
      /\ \A i, j \in 1..n : i < j => at[i] < at[j]
      /\ \A j \in 1..n : base[j] = RowFor(found, done, known, at[j])
      /\ \A p \in 1..k : order[p] \in done => \E j \in 1..n : at[j] = p
  BY DEF Follows
<1>7. \A j \in 1..(n + 1) : j = n + 1 \/ (j \in 1..n /\ j # n + 1)
  BY <1>4
<1> HIDE DEF longer, n
<1>8. /\ to[n + 1] = k + 1 /\ DOMAIN to = 1..(n + 1)
      /\ \A j \in 1..n : to[j] = at[j] /\ to[j] \in 1..k /\ j \in 1..(n + 1)
  BY <1>4, <1>6
<1> HIDE DEF to
<1>9. to \in [1..(n + 1) -> 1..(k + 1)]
  <2>1. \A j \in 1..(n + 1) : to[j] \in 1..(k + 1)
    BY <1>2, <1>7, <1>8
  <2>2. to = [ j \in 1..(n + 1) |-> to[j] ]
    BY DEF to
  <2> QED BY <2>1, <2>2
<1>10. ASSUME NEW i \in 1..(n + 1), NEW j \in 1..(n + 1), i < j PROVE to[i] < to[j]
  <2>1. i \in 1..n
    BY <1>10, <1>4
  <2>2. CASE j = n + 1
    BY <2>1, <2>2, <1>8
  <2>3. CASE j \in 1..n
    BY <2>1, <2>3, <1>6, <1>8, <1>10
  <2> QED BY <2>2, <2>3, <1>7
<1>11. \A j \in 1..(n + 1) : longer[j] = RowFor(found, more, known, to[j])
  <2> TAKE j \in 1..(n + 1)
  <2>1. CASE j = n + 1
    BY <2>1, <1>5, <1>8
  <2>2. CASE j \in 1..n
    <3>1. longer[j] = RowFor(found, done, known, at[j])
      BY <2>2, <1>5, <1>6
    <3> QED BY <2>2, <3>1, <1>2, <1>8
  <2> QED BY <2>1, <2>2, <1>7
<1>12. ASSUME NEW p \in 1..(k + 1), order[p] \in more PROVE \E j \in 1..(n + 1) : to[j] = p
  <2>1. CASE p = k + 1
    <3>1. n + 1 \in 1..(n + 1)
      BY <1>4
    <3> QED BY <2>1, <3>1, <1>8
  <2>2. CASE p \in 1..k
    <3>1. order[p] # order[k + 1]
      BY <2>2, NextIsNew
    <3>2. order[p] \in done
      BY <3>1, <1>12
    <3>3. PICK j \in 1..n : at[j] = p
      BY <2>2, <3>2, <1>6
    <3> QED BY <3>3, <1>8
  <2> QED BY <2>1, <2>2, <1>1
<1>13. Follows(longer, to, found, more, known, k + 1)
  BY <1>5, <1>9, <1>10, <1>11, <1>12 DEF Follows, T, order
<1> QED BY <1>13 DEF longer

\* A directory's files have times and finitely many states, and so has the
\* ground truth; the duration is a time.
LEMMA CommandLine ==
  ASSUME NEW p \in Paths, NEW S, S \subseteq p.campaign.files,
         NEW known \in { load_ground_truth(data) : data \in TruthFiles },
         NEW duration \in Durations
  PROVE  Directory(S) /\ Known(known) /\ (duration # NoTime => duration \in Int)
<1> DEFINE found == p.campaign.files
<1>1. IsFiniteSet(found)
  BY CommandLineAssumption
<1>2. ASSUME NEW f \in found
      PROVE  /\ f.mtime \in Int /\ f.name \in Int /\ (f.afl # NoTime => f.afl \in Int)
             /\ \A l \in Labels : IsFiniteSet(f.found[l])
  BY <1>2, CommandLineAssumption DEF Labels
<1>3. \A f, g \in found : f.name = g.name => f = g
  BY CommandLineAssumption
<1> HIDE DEF found
<1>4. S \subseteq found
  BY DEF found
<1>5. Directory(S)
  <2>1. IsFiniteSet(S)
    BY <1>1, <1>4, FS_Subset
  <2>2. Timed(S)
    BY <2>1, <1>2, <1>3, <1>4 DEF Timed
  <2> QED BY <2>2, <1>2, <1>4 DEF Directory, FiniteStates
<1>6. Known(known)
  <2>1. PICK data \in TruthFiles : known = load_ground_truth(data)
    OBVIOUS
  <2> SUFFICES ASSUME known # NoTruth, NEW l \in Labels PROVE IsFiniteSet(known[l])
    BY DEF Known, FiniteStates
  <2>2. data # NoTruth
    BY <2>1 DEF load_ground_truth
  <2>3. \A key \in DOMAIN data : IsFiniteSet(data[key])
    BY <2>2, CommandLineAssumption
  <2>4. IsFiniteSet({})
    BY FS_EmptySet
  <2>5. \A key, default : IsFiniteSet(default) => IsFiniteSet(get(data, key, default))
    BY <2>3 DEF get
  <2>6. /\ IsFiniteSet(get(data, "features", {})) /\ IsFiniteSet(get(data, "combos", {}))
        /\ IsFiniteSet(get(data, "dependencies", get(data, "deps", {})))
    BY <2>4, <2>5
  <2>7. known = [ features |-> get(data, "features", {}), combos |-> get(data, "combos", {}),
                  dependencies |-> get(data, "dependencies", get(data, "deps", {})) ]
    BY <2>1, <2>2 DEF load_ground_truth
  <2>8. /\ known["features"] = get(data, "features", {})
        /\ known["combos"] = get(data, "combos", {})
        /\ known["dependencies"] = get(data, "dependencies", get(data, "deps", {}))
    BY <2>7
  <2> QED BY <2>6, <2>8 DEF Labels
<1>7. duration # NoTime => duration \in Int
  BY CommandLineAssumption
<1> QED BY <1>5, <1>6, <1>7

\* The row the script adds is that of the file.
LEMMA RowAdded ==
  ASSUME NEW found, NEW done, NEW known, NEW k, done \subseteq First(found, k),
         NEW file, file = in_time_order(found)[k]
  PROVE  [ seconds |-> time_of(file, found), queued_files |-> k,
           unique_features |-> Cardinality(Gathered(done)["features"]),
           unique_combinations |-> Cardinality(Gathered(done)["combos"]),
           unique_dependencies |-> Cardinality(Gathered(done)["dependencies"]),
           covered_total |-> covered_counts(Gathered(done), known).covered,
           discovered_total |-> size(Gathered(done)),
           ground_truth_total |-> covered_counts(Gathered(done), known).total ]
         = RowFor(found, done, known, k)
<1>1. done \intersect First(found, k) = done
  OBVIOUS
<1> DEFINE report == analyze(done, known)
<1>2. /\ report.unique_features = Cardinality(Gathered(done)["features"])
      /\ report.unique_combinations = Cardinality(Gathered(done)["combos"])
      /\ report.unique_dependencies = Cardinality(Gathered(done)["dependencies"])
      /\ report.discovered_total = size(Gathered(done))
      /\ report.covered_total = covered_counts(Gathered(done), known).covered
      /\ report.ground_truth_total = covered_counts(Gathered(done), known).total
  BY AnalysisOf
<1>3. RowFor(found, done, known, k) =
        [ seconds |-> time_of(in_time_order(found)[k], found), queued_files |-> k,
          unique_features |-> report.unique_features,
          unique_combinations |-> report.unique_combinations,
          unique_dependencies |-> report.unique_dependencies,
          covered_total |-> report.covered_total, discovered_total |-> report.discovered_total,
          ground_truth_total |-> report.ground_truth_total ]
  BY <1>1 DEF RowFor
<1> HIDE DEF report
<1> QED BY <1>2, <1>3

\* Nothing replayed has no rows.
LEMMA NoRows == \A found, known : \E at : Follows(<< >>, at, found, {}, known, 0)
<1> TAKE found, known
<1>1. Len(<< >>) = 0 /\ 1..0 = {}
  OBVIOUS
<1>2. << >> \in Seq({ RowFor(found, {}, known, p) : p \in 1..0 })
  BY EmptySeq
<1>3. [ j \in 1..0 |-> 0 ] \in [1..0 -> 1..0]
  BY <1>1
<1>4. Follows(<< >>, [ j \in 1..0 |-> 0 ], found, {}, known, 0)
  BY <1>1, <1>2, <1>3 DEF Follows
<1> QED BY <1>4

-----------------------------------------------------------------------------
(* The steps keep the invariant.                                           *)

LEMMA GrowthInit == Init => GrowthInv
<1> SUFFICES ASSUME Init PROVE GrowthInv
  OBVIOUS
<1>1. /\ path \in Paths /\ extend_to \in Durations /\ exit = "starting"
      /\ truth \in { load_ground_truth(data) : data \in TruthFiles }
      /\ listed = {} /\ files = << >> /\ replayed = {} /\ seen = Nothing /\ index = 0 /\ rows = << >>
  BY DEF Init
<1>2. QueueInv
  <2>1. index \in 0..Cardinality(listed) /\ Len(files) = Cardinality(listed) - index
        /\ 1..Len(files) = {}
    BY <1>1, FS_EmptySet
  <2>2. files \in Seq(listed)
    BY <1>1, EmptySeq
  <2> QED BY <1>1, <2>1, <2>2 DEF QueueInv
<1>3. RowsInv
  <2>1. seen = Gathered(replayed)
    BY <1>1 DEF Nothing, Gathered
  <2>2. \E at : Follows(rows, at, listed, replayed, truth, index)
    BY <1>1, NoRows
  <2> QED BY <1>1, <2>1, <2>2 DEF RowsInv
<1> QED BY <1>2, <1>3 DEF GrowthInv

LEMMA Listed == QueueInv => Directory(listed) /\ Known(truth) /\ index \in Nat
                            /\ Cardinality(listed) \in Nat
                            /\ (extend_to # NoTime => extend_to \in Int)
<1> SUFFICES ASSUME QueueInv PROVE Directory(listed) /\ Known(truth) /\ index \in Nat
                            /\ Cardinality(listed) \in Nat
                            /\ (extend_to # NoTime => extend_to \in Int)
  OBVIOUS
<1>1. Directory(listed) /\ Known(truth) /\ (extend_to # NoTime => extend_to \in Int)
  BY CommandLine DEF QueueInv
<1>2. Cardinality(listed) \in Nat
  BY <1>1, FS_CardinalityType DEF Directory, Timed
<1>3. index \in Nat
  BY <1>2 DEF QueueInv
<1> QED BY <1>1, <1>2, <1>3

LEMMA RemoveFileKeeps == GrowthInv /\ RemoveFile => GrowthInv'
<1> SUFFICES ASSUME GrowthInv, RemoveFile PROVE GrowthInv'
  OBVIOUS
<1>1. UNCHANGED <<path, truth, extend_to, listed, files, replayed, seen, index, rows, exit>>
  BY DEF RemoveFile
<1>2. QueueInv'
  BY <1>1 DEF GrowthInv, QueueInv
<1>3. RowsInv'
  BY <1>1 DEF GrowthInv, RowsInv
<1> QED BY <1>2, <1>3 DEF GrowthInv

LEMMA VanishesKeeps == GrowthInv /\ VanishesWhileListed => GrowthInv'
<1> SUFFICES ASSUME GrowthInv, VanishesWhileListed PROVE GrowthInv'
  OBVIOUS
<1>1. /\ UNCHANGED <<path, truth, extend_to, listed, files, replayed, seen, index, rows>>
      /\ exit = "starting" /\ exit' = "2"
  BY DEF VanishesWhileListed
<1>2. QueueInv'
  BY <1>1 DEF GrowthInv, QueueInv
<1>3. RowsInv'
  BY <1>1 DEF GrowthInv, RowsInv
<1> QED BY <1>2, <1>3 DEF GrowthInv

LEMMA ListFilesKeeps == GrowthInv /\ ListFiles => GrowthInv'
<1> SUFFICES ASSUME GrowthInv, ListFiles PROVE GrowthInv'
  OBVIOUS
<1>1. /\ exit = "starting" /\ listed = {} /\ QueueInv /\ RowsInv
      /\ UNCHANGED <<path, truth, extend_to, removed, replayed, seen, index, rows>>
  BY DEF ListFiles, GrowthInv, QueueInv
<1>2. CASE path.at = "missing"
  <2>1. exit' = "2" /\ UNCHANGED <<listed, files>>
    BY <1>2 DEF ListFiles
  <2>2. QueueInv'
    BY <1>1, <2>1 DEF QueueInv
  <2>3. RowsInv'
    BY <1>1, <2>1 DEF RowsInv
  <2> QED BY <2>2, <2>3 DEF GrowthInv
<1>3. CASE path.at # "missing"
  <2>1. exit' = "running" /\ listed' = queue_files(path) /\ files' = sorted_files(queue_files(path))
    BY <1>3 DEF ListFiles
  <2>2. PICK found : found = queue_files(path)
    OBVIOUS
  <2>3. found \subseteq path.campaign.files
    BY <2>2 DEF queue_files, resolve_queue_dir
  <2> DEFINE order == in_time_order(found)
             N == Cardinality(found)
  <2>4. Directory(found)
    BY <1>1, <2>3, CommandLine DEF QueueInv
  <2>5. InTimeOrder(order, found) /\ N \in Nat
    BY <2>4, TimeOrder DEF Directory, InTimeOrder
  <2>6. index = 0 /\ First(listed, index) = {} /\ First(found, 0) = {}
    <3>1. index \in 0..0
      BY <1>1, FS_EmptySet DEF QueueInv
    <3>2. index = 0 /\ 1..0 = {}
      BY <3>1
    <3> QED BY <3>2 DEF First
  <2>7. files' = order /\ listed' = found
    BY <2>1, <2>2 DEF sorted_files
  <2>8. order \in Seq(found) /\ Len(order) = N
    <3>1. order \in [1..N -> found]
      BY <2>5 DEF InTimeOrder
    <3> HIDE DEF order
    <3>2. order \in Seq(found) /\ DOMAIN order = 1..N
      BY <3>1, <2>5, SeqDef
    <3> QED BY <3>2, <2>5, LenProperties
  <2> HIDE DEF order
  <2>9. QueueInv'
    <3>1. /\ index' \in 0..Cardinality(listed') /\ files' \in Seq(listed')
          /\ Len(files') = Cardinality(listed') - index'
      BY <1>1, <2>5, <2>6, <2>7, <2>8
    <3>2. \A j \in 1..Len(files') : files'[j] = in_time_order(listed')[index' + j]
      <4>1. \A j \in 1..N : 0 + j = j
        BY <2>5
      <4> QED BY <4>1, <1>1, <2>6, <2>7, <2>8 DEF order
    <3>3. /\ path' \in Paths /\ extend_to' \in Durations /\ exit' # "starting"
          /\ truth' \in { load_ground_truth(data) : data \in TruthFiles }
          /\ listed' \subseteq path'.campaign.files
      BY <1>1, <2>1, <2>3, <2>7 DEF QueueInv
    <3> QED BY <3>1, <3>2, <3>3 DEF QueueInv
  <2>10. RowsInv'
    <3>1. replayed = {} /\ seen = Gathered({})
      BY <1>1, <2>6 DEF RowsInv
    <3>2. rows = << >>
      <4>1. PICK base, at : Follows(base, at, listed, replayed, truth, index) /\ rows = base
        BY <1>1 DEF RowsInv
      <4>2. base \in Seq({ RowFor(listed, replayed, truth, p) : p \in 1..0 })
            /\ at \in [1..Len(base) -> 1..0]
        BY <4>1, <2>6 DEF Follows
      <4>3. Len(base) \in Nat /\ \A j \in 1..Len(base) : FALSE
        BY <4>2
      <4>4. Len(base) = 0
        BY <4>3
      <4> QED BY <4>1, <4>2, <4>4, EmptySeq
    <3>3. \E at : Follows(<< >>, at, found, {}, truth, 0)
      BY NoRows
    <3>4. \E base, at : Follows(base, at, listed', replayed', truth', index') /\ rows' = base
      BY <3>1, <3>2, <3>3, <1>1, <2>6, <2>7
    <3>5. replayed' = {} /\ seen' = Gathered(replayed') /\ exit' # "0"
      BY <3>1, <1>1, <2>1
    <3> QED BY <3>4, <3>5 DEF RowsInv
  <2> QED BY <2>9, <2>10 DEF GrowthInv
<1> QED BY <1>2, <1>3

\* The next file of a step, and what is left after it.
LEMMA NextFileKeeps ==
  ASSUME GrowthInv, NextFile, UNCHANGED <<path, truth, extend_to, listed>>
  PROVE  /\ exit = "running" /\ index' = index + 1 /\ index \in Nat
         /\ index < Cardinality(listed) /\ Directory(listed)
         /\ Head(files) = in_time_order(listed)[index + 1]
         /\ exit' # "starting" => QueueInv'
<1> DEFINE N == Cardinality(listed)
<1>1. /\ exit = "running" /\ files # << >> /\ files' = Tail(files) /\ index' = index + 1
      /\ QueueInv
  BY DEF NextFile, GrowthInv
<1>2. Directory(listed) /\ index \in Nat /\ N \in Nat
  BY <1>1, Listed
<1>3. /\ files \in Seq(listed) /\ Len(files) = N - index
      /\ \A j \in 1..Len(files) : files[j] = in_time_order(listed)[index + j]
  BY <1>1 DEF QueueInv
<1> HIDE DEF N
<1>4. Len(files) \in Nat /\ Len(files) > 0 /\ 1 \in 1..Len(files) /\ index < N
  BY <1>1, <1>2, <1>3
<1>5. Head(files) = in_time_order(listed)[index + 1]
  BY <1>1, <1>3, <1>4
<1>6. /\ files' \in Seq(listed) /\ Len(files') = Len(files) - 1
      /\ \A j \in 1..Len(files') : files'[j] = files[j + 1] /\ j + 1 \in 1..Len(files)
  BY <1>1, <1>3, <1>4, HeadTailProperties
<1>7. \A j \in 1..Len(files') : files'[j] = in_time_order(listed)[index' + j]
  <2> TAKE j \in 1..Len(files')
  <2>1. files'[j] = in_time_order(listed)[index + (j + 1)]
    BY <1>3, <1>6
  <2>2. index + (j + 1) = index' + j
    BY <1>1, <1>2
  <2> QED BY <2>1, <2>2
<1>8. index' \in 0..N /\ Len(files') = N - index'
  BY <1>1, <1>2, <1>3, <1>4, <1>6
<1>9. ASSUME exit' # "starting" PROVE QueueInv'
  <2>1. /\ path' \in Paths /\ extend_to' \in Durations
        /\ truth' \in { load_ground_truth(data) : data \in TruthFiles }
        /\ listed' \subseteq path'.campaign.files
    BY <1>1 DEF QueueInv
  <2> QED BY <2>1, <1>6, <1>7, <1>8, <1>9 DEF QueueInv, N
<1> QED BY <1>1, <1>2, <1>4, <1>5, <1>9 DEF N

\* A row more, for the file and all that has been found.
LEMMA AddRowKeeps ==
  ASSUME GrowthInv, NextFile, UNCHANGED <<path, truth, extend_to, listed, exit>>,
         replayed' = replayed \/ replayed' = replayed \union {Head(files)},
         AddRow(Head(files), Gathered(replayed'))
  PROVE  RowsInv'
<1> DEFINE file == Head(files)
           row == [ seconds |-> time_of(file, listed), queued_files |-> index',
                    unique_features |-> Cardinality(Gathered(replayed')["features"]),
                    unique_combinations |-> Cardinality(Gathered(replayed')["combos"]),
                    unique_dependencies |-> Cardinality(Gathered(replayed')["dependencies"]),
                    covered_total |-> covered_counts(Gathered(replayed'), truth).covered,
                    discovered_total |-> size(Gathered(replayed')),
                    ground_truth_total |-> covered_counts(Gathered(replayed'), truth).total ]
<1>1. seen' = Gathered(replayed') /\ rows' = Append(rows, row)
  BY DEF AddRow, seconds_of, time_of
<1>2. /\ exit = "running" /\ index' = index + 1 /\ index \in Nat /\ index < Cardinality(listed)
      /\ Directory(listed) /\ file = in_time_order(listed)[index + 1] /\ RowsInv
  BY NextFileKeeps DEF GrowthInv
<1> HIDE DEF file, row
<1>3. PICK base, at : Follows(base, at, listed, replayed, truth, index) /\ rows = base
  BY <1>2 DEF RowsInv
<1>4. replayed \subseteq First(listed, index)
  BY <1>2 DEF RowsInv
<1>5. PICK more : more = replayed'
  OBVIOUS
<1>6. more = replayed \/ more = replayed \union {in_time_order(listed)[index + 1]}
  BY <1>2, <1>5 DEF file
<1>7. more \subseteq First(listed, index + 1)
  <2>1. First(listed, index + 1) = First(listed, index) \union {in_time_order(listed)[index + 1]}
    BY <1>2, OneMoreFirst
  <2> QED BY <2>1, <1>4, <1>6
<1>8. row = RowFor(listed, more, truth, index + 1)
  <2>1. row = [ seconds |-> time_of(file, listed), queued_files |-> index + 1,
                unique_features |-> Cardinality(Gathered(more)["features"]),
                unique_combinations |-> Cardinality(Gathered(more)["combos"]),
                unique_dependencies |-> Cardinality(Gathered(more)["dependencies"]),
                covered_total |-> covered_counts(Gathered(more), truth).covered,
                discovered_total |-> size(Gathered(more)),
                ground_truth_total |-> covered_counts(Gathered(more), truth).total ]
    BY <1>2, <1>5 DEF row
  <2> QED BY <2>1, <1>2, <1>7, RowAdded
<1>9. \E to : Follows(Append(base, row), to, listed, more, truth, index + 1)
  BY <1>2, <1>3, <1>4, <1>6, <1>8, FollowsRow
<1>10. \E to : Follows(rows', to, listed', replayed', truth', index')
  BY <1>1, <1>2, <1>3, <1>5, <1>9
<1>11. replayed' \subseteq First(listed', index') /\ exit' # "0"
  BY <1>2, <1>5, <1>7
<1> QED BY <1>1, <1>10, <1>11 DEF RowsInv

LEMMA ReplayKeeps == GrowthInv /\ Replay => GrowthInv'
<1> SUFFICES ASSUME GrowthInv, Replay PROVE GrowthInv'
  OBVIOUS
<1> DEFINE file == Head(files)
<1>1. /\ NextFile /\ AddRow(file, Together(seen, file.found))
      /\ replayed' = replayed \union {file}
      /\ UNCHANGED <<path, truth, extend_to, removed, listed, exit>>
  BY DEF Replay
<1>2. QueueInv'
  BY <1>1, NextFileKeeps
<1> HIDE DEF file
<1>3. Together(seen, file.found) = Gathered(replayed')
  <2>1. seen = Gathered(replayed)
    BY DEF GrowthInv, RowsInv
  <2>2. \A S, f : Together(Gathered(S), f.found) = Gathered(S \union {f})
    BY DEF Together, Gathered
  <2> QED BY <2>1, <2>2, <1>1
<1>4. RowsInv'
  BY <1>1, <1>3, AddRowKeeps DEF file
<1> QED BY <1>2, <1>4 DEF GrowthInv

LEMMA SkipKeeps == GrowthInv /\ Skip => GrowthInv'
<1> SUFFICES ASSUME GrowthInv, Skip PROVE GrowthInv'
  OBVIOUS
<1>1. NextFile /\ UNCHANGED <<path, truth, extend_to, removed, listed, replayed, seen, rows, exit>>
  BY DEF Skip
<1>2. /\ exit = "running" /\ index' = index + 1 /\ index \in Nat /\ index < Cardinality(listed)
      /\ Directory(listed) /\ QueueInv' /\ RowsInv
  BY <1>1, NextFileKeeps DEF GrowthInv
<1>3. PICK base, at : Follows(base, at, listed, replayed, truth, index) /\ rows = base
  BY <1>2 DEF RowsInv
<1>4. replayed \subseteq First(listed, index)
  BY <1>2 DEF RowsInv
<1>5. Follows(base, at, listed, replayed, truth, index + 1)
  BY <1>2, <1>3, <1>4, FollowsSkip
<1>6. replayed \subseteq First(listed, index + 1)
  BY <1>2, <1>4, OneMoreFirst
<1>7. RowsInv'
  BY <1>1, <1>2, <1>3, <1>5, <1>6 DEF RowsInv
<1> QED BY <1>2, <1>7 DEF GrowthInv

LEMMA ReplayGoneKeeps == GrowthInv /\ ReplayGone => GrowthInv'
<1> SUFFICES ASSUME GrowthInv, ReplayGone PROVE GrowthInv'
  OBVIOUS
<1>1. /\ NextFile /\ UNCHANGED <<path, truth, extend_to, removed, listed, replayed>>
      /\ \/ exit' = "2" /\ UNCHANGED <<seen, rows>>
         \/ AddRow(Head(files), seen) /\ UNCHANGED exit
  BY DEF ReplayGone
<1>2. /\ exit = "running" /\ index' = index + 1 /\ index \in Nat /\ index < Cardinality(listed)
      /\ Directory(listed) /\ RowsInv /\ QueueInv'
  BY <1>1, NextFileKeeps DEF GrowthInv
<1>3. CASE exit' = "2" /\ UNCHANGED <<seen, rows>>
  <2>1. PICK base, at : Follows(base, at, listed, replayed, truth, index) /\ rows = base
    BY <1>2 DEF RowsInv
  <2>2. replayed \subseteq First(listed, index)
    BY <1>2 DEF RowsInv
  <2>3. Follows(base, at, listed, replayed, truth, index + 1)
    BY <1>2, <2>1, <2>2, FollowsSkip
  <2>4. replayed \subseteq First(listed, index + 1)
    BY <1>2, <2>2, OneMoreFirst
  <2>5. RowsInv'
    BY <1>1, <1>2, <1>3, <2>1, <2>3, <2>4 DEF RowsInv
  <2> QED BY <1>2, <2>5 DEF GrowthInv
<1>4. CASE AddRow(Head(files), seen) /\ UNCHANGED exit
  <2>1. seen = Gathered(replayed')
    BY <1>1, <1>2 DEF RowsInv
  <2>2. RowsInv'
    BY <1>1, <1>4, <2>1, AddRowKeeps
  <2> QED BY <1>2, <2>2 DEF GrowthInv
<1> QED BY <1>1, <1>3, <1>4

LEMMA ReportKeeps == GrowthInv /\ Report => GrowthInv'
<1> SUFFICES ASSUME GrowthInv, Report PROVE GrowthInv'
  OBVIOUS
<1>1. /\ exit = "running" /\ files = << >> /\ exit' = "0" /\ QueueInv /\ RowsInv
      /\ rows' = extend_rows_to_duration(rows, extend_to)
      /\ UNCHANGED <<path, truth, extend_to, removed, listed, files, replayed, seen, index>>
  BY DEF Report, plateau, GrowthInv
<1>2. QueueInv'
  BY <1>1 DEF QueueInv
<1>3. PICK base, at : Follows(base, at, listed, replayed, truth, index) /\ rows = base
  BY <1>1 DEF RowsInv
<1>4. RowsInv'
  BY <1>1, <1>3 DEF RowsInv
<1> QED BY <1>2, <1>4 DEF GrowthInv

LEMMA GrowthStep == GrowthInv /\ [Next]_vars => GrowthInv'
<1> SUFFICES ASSUME GrowthInv, UNCHANGED vars PROVE GrowthInv'
  BY RemoveFileKeeps, VanishesKeeps, ListFilesKeeps, ReplayKeeps, SkipKeeps, ReplayGoneKeeps,
     ReportKeeps DEF Next
<1>1. UNCHANGED <<path, truth, extend_to, removed, listed, files, replayed, seen, index, rows, exit>>
  BY DEF vars
<1>2. QueueInv'
  BY <1>1 DEF GrowthInv, QueueInv
<1>3. RowsInv'
  BY <1>1 DEF GrowthInv, RowsInv
<1> QED BY <1>2, <1>3 DEF GrowthInv

LEMMA GrowthInvariant == Spec => []GrowthInv
BY GrowthInit, GrowthStep, PTL DEF Spec

-----------------------------------------------------------------------------
(* The properties.                                                         *)

\* The rows of a queue, with a plateau or without.
RowsOf(base, at, duration) ==
  /\ Follows(base, at, listed, replayed, truth, index)
  /\ Prolongs(rows, base, duration) /\ (duration # NoTime => duration \in Int)

LEMMA RowsOfQueue == GrowthInv => \E base, at, duration : RowsOf(base, at, duration)
<1> SUFFICES ASSUME GrowthInv PROVE \E base, at, duration : RowsOf(base, at, duration)
  OBVIOUS
<1>1. PICK base, at : /\ Follows(base, at, listed, replayed, truth, index)
                      /\ rows = base \/ rows = extend_rows_to_duration(base, extend_to)
  BY DEF GrowthInv, RowsInv
<1>2. base \in Seq({ RowFor(listed, replayed, truth, p) : p \in 1..index })
  BY <1>1 DEF Follows
<1>3. Prolongs(extend_rows_to_duration(base, extend_to), base, extend_to)
  BY <1>2, Extended
<1>4. Prolongs(base, base, NoTime)
  BY DEF Prolongs
<1>5. extend_to # NoTime => extend_to \in Int
  BY Listed DEF GrowthInv
<1>6. RowsOf(base, at, extend_to) \/ RowsOf(base, at, NoTime)
  BY <1>1, <1>3, <1>4, <1>5 DEF RowsOf
<1> QED BY <1>6

\* The rows are a series, whose curve shows the analysis of what has been
\* replayed up to a time.
LEMMA RowsShow ==
  ASSUME GrowthInv, NEW metric \in Metrics
  PROVE  /\ IsSeries(rows, metric)
         /\ \A t \in Int : rows # << >> /\ rows[1].seconds <= t =>
              ShownAt(AllPoints(rows, metric), t) = analyze(UpTo(replayed, t), truth)[metric]
<1>1. PICK base, at, duration : RowsOf(base, at, duration)
  BY RowsOfQueue
<1>2. /\ Follows(base, at, listed, replayed, truth, index)
      /\ Prolongs(rows, base, duration) /\ (duration # NoTime => duration \in Int)
  BY <1>1 DEF RowsOf
<1>3. /\ Directory(listed) /\ index \in 0..Cardinality(listed)
      /\ replayed \subseteq First(listed, index)
  BY Listed DEF GrowthInv, QueueInv, RowsInv
<1>4. IsSeries(base, metric)
  BY <1>2, <1>3, FollowsIsSeries
<1>5. IsSeries(rows, metric)
  BY <1>2, <1>4, Prolonged
<1>6. ASSUME NEW t \in Int, rows # << >>, rows[1].seconds <= t
      PROVE  ShownAt(AllPoints(rows, metric), t) = analyze(UpTo(replayed, t), truth)[metric]
  <2>1. base # << >>
    BY <1>2, <1>6 DEF Prolongs
  <2>2. 1 \in 1..Len(base)
    BY <2>1, <1>4 DEF IsSeries
  <2>3. base[1].seconds <= t
    <3>1. rows[1] = base[1]
      BY <2>2, <1>2 DEF Prolongs
    <3> QED BY <3>1, <1>6
  <2>4. ShownAt(AllPoints(base, metric), t)
          = analyze(QueuedUpTo(replayed, listed, t), truth)[metric]
    <3>1. ShowsReplayed(base, metric, listed, replayed, truth)
      BY <1>2, <1>3, FollowsShows
    <3> QED BY <3>1, <2>1, <2>3 DEF ShowsReplayed
  <2>5. ShownAt(AllPoints(rows, metric), t) = ShownAt(AllPoints(base, metric), t)
    BY <1>2, <1>4, PlateauShows
  <2>6. UpTo(replayed, t) = QueuedUpTo(replayed, listed, t)
    BY DEF UpTo, QueuedUpTo, seconds_of, time_of
  <2> QED BY <2>4, <2>5, <2>6
<1> QED BY <1>5, <1>6

\* The curves drawn of a queue, whatever was skipped or has vanished, are the
\* analysis of what was replayed; the time to saturation is that of the
\* analysis.
THEOREM GrowthIsOfAnalysis == Spec => []GrowthIsAnalysis
<1>1. GrowthInv => GrowthIsAnalysis
  <2> SUFFICES ASSUME GrowthInv, NEW m \in Metrics, NEW k \in 1..Len(rows)
               PROVE  LET sat == saturation(m)
                          known_at(t) == analyze(UpTo(replayed, t), truth)[m]
                      IN /\ ShownAt(curve(m), rows[k].seconds) = known_at(rows[k].seconds)
                         /\ known_at(sat) = known_at(Last(rows).seconds)
                         /\ rows[k].seconds < sat => known_at(rows[k].seconds) < known_at(sat)
    BY DEF GrowthIsAnalysis
  <2> DEFINE sat == saturation(m)
             known_at(t) == analyze(UpTo(replayed, t), truth)[m]
             all == AllPoints(rows, m)
             n == Len(rows)
  <2>1. /\ IsSeries(rows, m)
        /\ \A t \in Int : rows # << >> /\ rows[1].seconds <= t => ShownAt(all, t) = known_at(t)
    BY RowsShow
  <2>2. n \in Nat /\ n > 0 /\ rows # << >> /\ InTime(rows) /\ 1 \in 1..n /\ n \in 1..n
    BY <2>1 DEF IsSeries
  <2>3. PICK s : FirstFinal(s, rows, m) /\ saturation_seconds(rows, m) = rows[s].seconds
    BY <2>1, <2>2, Saturation
  <2>4. s \in 1..n /\ sat = rows[s].seconds /\ Last(rows) = rows[n]
    BY <2>2, <2>3 DEF FirstFinal, saturation, Last
  <2> HIDE DEF sat, known_at, all
  <2>5. \A j \in 1..n : rows[j].seconds \in Int /\ rows[1].seconds <= rows[j].seconds
    BY <2>2 DEF InTime
  <2>6. \A j \in 1..n : ShownAt(all, rows[j].seconds) = known_at(rows[j].seconds)
    BY <2>1, <2>2, <2>5
  <2>7. \A t \in Int : /\ t >= rows[s].seconds => ShownAt(all, t) = Last(rows)[m]
                       /\ t < rows[s].seconds => ShownAt(all, t) < Last(rows)[m]
    BY <2>1, <2>3, ShownAtSaturation DEF all
  <2>8. ShownAt(curve(m), rows[k].seconds) = known_at(rows[k].seconds)
    <3>1. CurveKept(rows, m)
      BY <2>1, KeptCurve DEF IsSeries
    <3>2. Len(all) = n /\ all[k][1] = rows[k].seconds
      BY <2>2, PointsOfRows DEF all
    <3>3. ShownAt(curve(m), all[k][1]) = ShownAt(all, all[k][1])
      BY <3>1, <3>2 DEF CurveKept, curve, all
    <3> QED BY <3>2, <3>3, <2>6
  <2>9. known_at(sat) = Last(rows)[m]
    BY <2>4, <2>5, <2>6, <2>7
  <2>10. known_at(Last(rows).seconds) = Last(rows)[m]
    <3>1. rows[n].seconds >= rows[s].seconds /\ rows[n].seconds \in Int
      <4>1. rows[s].seconds <= rows[n].seconds
        BY <2>2, <2>4 DEF InTime
      <4> QED BY <4>1, <2>2, <2>4, <2>5
    <3> QED BY <3>1, <2>2, <2>4, <2>6, <2>7
  <2>11. rows[k].seconds < sat => known_at(rows[k].seconds) < known_at(sat)
    BY <2>4, <2>5, <2>6, <2>7, <2>9
  <2> QED BY <2>8, <2>9, <2>10, <2>11 DEF sat, known_at
<1> QED BY <1>1, GrowthInvariant, PTL

\* Whatever the ground truth, the covered total stays within it and within
\* what was discovered, and never falls.
THEOREM CoverageIsWithinTruth == Spec => []CoverageWithinTruth
<1>1. GrowthInv => CoverageWithinTruth
  <2> SUFFICES ASSUME GrowthInv, NEW k \in 1..Len(rows)
               PROVE  /\ Within(rows[k])
                      /\ k > 1 => /\ rows[k - 1].covered_total <= rows[k].covered_total
                                  /\ rows[k - 1].seconds <= rows[k].seconds
    BY DEF CoverageWithinTruth, Within
  <2>1. PICK base, at, duration : RowsOf(base, at, duration)
    BY RowsOfQueue
  <2>2. /\ Follows(base, at, listed, replayed, truth, index)
        /\ Prolongs(rows, base, duration) /\ (duration # NoTime => duration \in Int)
    BY <2>1 DEF RowsOf
  <2>3. /\ Directory(listed) /\ Known(truth) /\ index \in 0..Cardinality(listed)
        /\ index \in Nat /\ Cardinality(listed) \in Nat
    BY Listed DEF GrowthInv, QueueInv
  <2>4. "covered_total" \in Metrics
    BY DEF Metrics
  <2>5. IsSeries(rows, "covered_total") /\ IsSeries(base, "covered_total")
    BY <2>2, <2>3, <2>4, RowsShow, FollowsIsSeries
  <2>6. ASSUME NEW j \in 1..Len(base) PROVE Within(base[j])
    <3>1. at[j] \in 1..index /\ base[j] = RowFor(listed, replayed, truth, at[j])
      BY <2>2 DEF Follows
    <3>2. at[j] \in 0..Cardinality(listed)
      BY <3>1, <2>3
    <3> QED BY <3>1, <3>2, <2>3, RowWithin
  <2>7. Within(rows[k])
    <3> DEFINE n == Len(base)
    <3>0. n \in Nat
      BY <2>5 DEF IsSeries
    <3>1. CASE rows = base
      BY <3>1, <2>6
    <3>2. CASE rows # base
      <4>1. /\ n > 0 /\ Len(rows) = n + 1 /\ \A j \in 1..n : rows[j] = base[j]
            /\ rows[n + 1] = [ base[n] EXCEPT !.seconds = duration ]
        BY <3>0, <3>2, <2>2, <2>5 DEF Prolongs, IsSeries, Last
      <4>2. n \in 1..n /\ (k = n + 1 \/ k \in 1..n)
        BY <3>0, <4>1
      <4>3. Within(base[n])
        BY <4>2, <2>6
      <4> HIDE DEF n
      <4>4. /\ rows[n + 1].covered_total = base[n].covered_total
            /\ rows[n + 1].discovered_total = base[n].discovered_total
            /\ rows[n + 1].ground_truth_total = base[n].ground_truth_total
        <5>1. PICK p : base[n] = RowFor(listed, replayed, truth, p)
          BY <4>2, <2>2 DEF Follows, n
        <5>2. base[n] = [ base[n] EXCEPT !.seconds = base[n].seconds ]
              /\ {"covered_total", "discovered_total", "ground_truth_total"} \subseteq DOMAIN base[n]
          BY <5>1 DEF RowFor
        <5> QED BY <5>2, <4>1
      <4>5. Within(rows[n + 1])
        BY <4>3, <4>4 DEF Within
      <4> QED BY <4>1, <4>2, <4>5, <2>6 DEF n
    <3> QED BY <3>1, <3>2
  <2>8. ASSUME k > 1
        PROVE  /\ rows[k - 1].covered_total <= rows[k].covered_total
               /\ rows[k - 1].seconds <= rows[k].seconds
    <3>1. k - 1 \in 1..Len(rows) /\ k - 1 <= k
      BY <2>8, <2>5 DEF IsSeries
    <3>2. rows[k - 1]["covered_total"] <= rows[k]["covered_total"]
      BY <3>1, <2>5 DEF IsSeries, Grows
    <3>3. rows[k - 1].seconds <= rows[k].seconds
      BY <3>1, <2>5 DEF IsSeries, InTime
    <3> QED BY <3>2, <3>3
  <2> QED BY <2>7, <2>8
<1> QED BY <1>1, GrowthInvariant, PTL
================================================================================
