-------------------------- MODULE SyscallGrowthProofs --------------------------
(***************************************************************************)
(* Proofs about SyscallGrowth, for every command line, every directory and *)
(* every number of files removed meanwhile: at any time the series of a    *)
(* path is that of the files read so far, in the order of their times; so  *)
(* the curves are those of what the testcases discover, thinning and       *)
(* plateau change none of them, and a report is of whole queues.           *)
(***************************************************************************)
EXTENDS SyscallGrowth, GrowthCurveProofs

-----------------------------------------------------------------------------
(* The series of a directory.                                              *)

ops_of(f) == Analysis!decode_bytes(f.data)

\* What a set of files contains.
Contained(S) ==
  [ syscalls |-> UNION { Analysis!syscalls(ops_of(f)) : f \in S },
    seq2 |-> UNION { Analysis!seq2(ops_of(f)) : f \in S },
    seq3 |-> UNION { Analysis!seq3(ops_of(f)) : f \in S } ]

\* The row of the k-th file in the order of their times.
RowAt(found, k) ==
  [ seconds |-> time_of(in_time_order(found)[k], found),
    queued_files |-> k,
    unique_syscalls |-> Cardinality(Contained(First(found, k)).syscalls),
    unique_seq2 |-> Cardinality(Contained(First(found, k)).seq2),
    unique_seq3 |-> Cardinality(Contained(First(found, k)).seq3) ]

RowsUpTo(found, k) == [ j \in 1..k |-> RowAt(found, j) ]

Whole(found) == RowsUpTo(found, Cardinality(found))

\* The files of a directory, or some of them.
Directory(found) == Timed(found) /\ \A f \in found : f.data \in Seq(0..255)

LEMMA DirectoryOfPath ==
  ASSUME NEW line \in CommandLines, NEW i \in 1..Len(line), line[i].at # "missing",
         NEW S, S \subseteq Analysis!afl_queue_files(line[i])
  PROVE  Directory(S)
<1> DEFINE found == line[i].campaign.files
<1>1. /\ line[i].at \in {"testcase", "queue", "instance", "root"}
      /\ IsFiniteSet(found)
      /\ \A f \in found : f.mtime \in Int /\ f.name \in Int /\ f.data \in Seq(0..255)
                           /\ (f.afl # NoTime => f.afl \in Int)
      /\ \A f, g \in found : f.name = g.name => f = g
  <2>1. LET d == line[i].campaign.files IN
            /\ line[i].at \in {"testcase", "queue", "instance", "root", "missing"}
            /\ IsFiniteSet(d)
            /\ \A f \in d : f.mtime \in Int /\ f.name \in Int /\ f.data \in Seq(0..255)
                           /\ (f.afl # NoTime => f.afl \in Int)
            /\ \A f, g \in d : f.name = g.name => f = g
    BY CommandLineAssumption
  <2> QED BY <2>1
<1>2. Analysis!afl_queue_files(line[i]) \subseteq found
  BY <1>1 DEF Analysis!afl_queue_files, Analysis!files_in
<1> HIDE DEF found
<1>3. S \subseteq found
  BY <1>2
<1>4. IsFiniteSet(S)
  BY <1>1, <1>3, FS_Subset
<1>5. ASSUME NEW f \in S
      PROVE  f.mtime \in Int /\ f.name \in Int /\ f.data \in Seq(0..255)
                           /\ (f.afl # NoTime => f.afl \in Int)
  <2>1. f \in found
    BY <1>3
  <2> QED BY <1>1, <2>1
<1>6. ASSUME NEW f \in S, NEW g \in S, f.name = g.name PROVE f = g
  <2>1. f \in found /\ g \in found
    BY <1>3
  <2> QED BY <1>1, <1>6, <2>1
<1>7. Timed(S)
  BY <1>4, <1>5, <1>6 DEF Timed
<1> QED BY <1>5, <1>7 DEF Directory

\* A testcase of any length holds finitely many operations.
LEMMA OperationsFinite ==
  ASSUME NEW data \in Seq(0..255)
  PROVE  LET ops == Analysis!decode_bytes(data)
         IN /\ IsFiniteSet(Analysis!syscalls(ops))
            /\ IsFiniteSet(Analysis!seq2(ops)) /\ IsFiniteSet(Analysis!seq3(ops))
<1> DEFINE ops == Analysis!decode_bytes(data)
           n == Analysis!op_count(data)
<1>1. n \in Nat
  <2>1. Len(data) \in Nat /\ MaxOps * 4 \in Nat
    BY CommandLineAssumption
  <2>2. (IF Len(data) < MaxOps * 4 THEN Len(data) ELSE MaxOps * 4) \in Nat
    BY <2>1
  <2>3. \A x \in Nat : x \div 4 \in Nat
    OBVIOUS
  <2> QED BY <2>2, <2>3 DEF Analysis!op_count
<1>2. ops \in [1..n -> { ops[k] : k \in 1..n }]
  BY DEF Analysis!decode_bytes
<1> HIDE DEF ops, n
<1>3. Len(ops) = n
  <2>1. ops \in Seq({ ops[k] : k \in 1..n }) /\ DOMAIN ops = 1..n
    BY <1>1, <1>2, SeqDef
  <2> QED BY <2>1, <1>1, LenProperties
<1>4. \A m \in Int : IsFiniteSet(1..m)
  BY FS_Interval
<1>5. IsFiniteSet(1..n) /\ IsFiniteSet(1..(n - 1)) /\ IsFiniteSet(1..(n - 2))
  <2>1. n \in Int /\ n - 1 \in Int /\ n - 2 \in Int
    BY <1>1
  <2> QED BY <2>1, <1>4
<1>6. IsFiniteSet(Analysis!syscalls(ops))
  <2> DEFINE f == [ k \in 1..n |-> <<"SYSCALL", ops[k]>> ]
  <2>1. f \in Surjection(1..n, Analysis!syscalls(ops))
    BY <1>3 DEF Surjection, Analysis!syscalls
  <2> HIDE DEF f
  <2> QED BY <2>1, <1>5, FS_Surjection
<1>7. IsFiniteSet(Analysis!seq2(ops))
  <2> DEFINE f == [ k \in 1..(n - 1) |-> <<"SEQ2", ops[k], ops[k + 1]>> ]
  <2>1. f \in Surjection(1..(n - 1), Analysis!seq2(ops))
    BY <1>3 DEF Surjection, Analysis!seq2
  <2> HIDE DEF f
  <2> QED BY <2>1, <1>5, FS_Surjection
<1>8. IsFiniteSet(Analysis!seq3(ops))
  <2> DEFINE f == [ k \in 1..(n - 2) |-> <<"SEQ3", ops[k], ops[k + 1], ops[k + 2]>> ]
  <2>1. f \in Surjection(1..(n - 2), Analysis!seq3(ops))
    BY <1>3 DEF Surjection, Analysis!seq3
  <2> HIDE DEF f
  <2> QED BY <2>1, <1>5, FS_Surjection
<1> QED BY <1>6, <1>7, <1>8 DEF ops

Kinds == {"syscalls", "seq2", "seq3"}

\* More files contain no less, and finitely much.
LEMMA ContainedFinite ==
  ASSUME NEW found, Directory(found), NEW S, S \subseteq found, NEW T, T \subseteq S
  PROVE  \A kind \in Kinds : /\ IsFiniteSet(Contained(S)[kind])
                              /\ Cardinality(Contained(T)[kind]) \in Nat
                              /\ Cardinality(Contained(T)[kind]) <= Cardinality(Contained(S)[kind])
<1> DEFINE Of(f) == [ syscalls |-> Analysis!syscalls(ops_of(f)), seq2 |-> Analysis!seq2(ops_of(f)),
                      seq3 |-> Analysis!seq3(ops_of(f)) ]
<1>1. \A U : \A kind \in Kinds : Contained(U)[kind] = UNION { Of(f)[kind] : f \in U }
  <2> TAKE U
  <2>1. Contained(U)["syscalls"] = UNION { Of(f)["syscalls"] : f \in U }
    BY DEF Contained
  <2>2. Contained(U)["seq2"] = UNION { Of(f)["seq2"] : f \in U }
    BY DEF Contained
  <2>3. Contained(U)["seq3"] = UNION { Of(f)["seq3"] : f \in U }
    BY DEF Contained
  <2> HIDE DEF Of
  <2> QED BY <2>1, <2>2, <2>3 DEF Kinds
<1>2. \A f \in found : \A kind \in Kinds : IsFiniteSet(Of(f)[kind])
  <2> TAKE f \in found
  <2>1. f.data \in Seq(0..255)
    BY DEF Directory
  <2>2. /\ IsFiniteSet(Analysis!syscalls(ops_of(f)))
        /\ IsFiniteSet(Analysis!seq2(ops_of(f))) /\ IsFiniteSet(Analysis!seq3(ops_of(f)))
    BY <2>1, OperationsFinite DEF ops_of
  <2> QED BY <2>2 DEF Kinds
<1> HIDE DEF Of
<1> TAKE kind \in Kinds
<1> DEFINE sets == { Of(f)[kind] : f \in S }
           h == [ f \in S |-> Of(f)[kind] ]
<1>3. IsFiniteSet(S)
  BY FS_Subset DEF Directory, Timed
<1>4. h \in Surjection(S, sets)
  BY DEF Surjection
<1>5. \A X \in sets : IsFiniteSet(X)
  BY <1>2
<1>6. IsFiniteSet(UNION sets)
  <2> HIDE DEF h, sets
  <2>1. IsFiniteSet(sets)
    BY <1>3, <1>4, FS_Surjection
  <2> QED BY <2>1, <1>5, FS_UNION
<1>7. IsFiniteSet(Contained(S)[kind])
  BY <1>1, <1>6
<1>8. Contained(T)[kind] \subseteq Contained(S)[kind]
  BY <1>1
<1> QED BY <1>7, <1>1, FS_Subset, FS_CardinalityType

\* The module of the analysis counts as this one does.
LEMMA SameCount == \A S : Analysis!Cardinality(S) = Cardinality(S)
BY DEF Analysis!Cardinality, Cardinality

\* The files queued up to a time.
UpTo(found, t) == { g \in found : time_of(g, found) <= t }

\* Every metric counts what files contain, in a row and in the analysis.
LEMMA MetricCounts ==
  ASSUME NEW metric \in Metrics
  PROVE  \E kind \in Kinds :
           /\ \A found, j : RowAt(found, j)[metric] = Cardinality(Contained(First(found, j))[kind])
           /\ \A found, t : DiscoveredBy(found, t)[metric] = Cardinality(Contained(UpTo(found, t))[kind])
<1> DEFINE summary(f) == Analysis!summarize_case(f.data, [timed_out |-> TRUE])
<1>1. ASSUME NEW found, NEW t
      PROVE  DiscoveredBy(found, t) = Analysis!aggregate({ summary(f) : f \in UpTo(found, t) })
  BY DEF DiscoveredBy, UpTo, time_of
<1>2. \A f : /\ summary(f)["syscalls"] = Analysis!syscalls(ops_of(f))
             /\ summary(f)["seq2"] = Analysis!seq2(ops_of(f))
             /\ summary(f)["seq3"] = Analysis!seq3(ops_of(f))
  BY DEF Analysis!summarize_case, ops_of
<1> HIDE DEF summary
<1>3. \A S : /\ Analysis!aggregate(S)["unique_syscalls"] = Cardinality(UNION { s["syscalls"] : s \in S })
             /\ Analysis!aggregate(S)["unique_seq2"] = Cardinality(UNION { s["seq2"] : s \in S })
             /\ Analysis!aggregate(S)["unique_seq3"] = Cardinality(UNION { s["seq3"] : s \in S })
  <2> TAKE S
  <2> DEFINE keys(field) == UNION { s[field] : s \in S }
  <2>1. Analysis!aggregate(S) =
          [ unique_syscalls |-> Cardinality(keys("syscalls")),
            unique_seq2 |-> Cardinality(keys("seq2")),
            unique_seq3 |-> Cardinality(keys("seq3")),
            unique_syscall_errno |-> Cardinality(keys("syscall_errno")),
            unique_prev_syscall_errno |-> Cardinality(keys("prev_syscall_errno")) ]
    BY SameCount DEF Analysis!aggregate
  <2> HIDE DEF keys
  <2>2. /\ Analysis!aggregate(S)["unique_syscalls"] = Cardinality(keys("syscalls"))
        /\ Analysis!aggregate(S)["unique_seq2"] = Cardinality(keys("seq2"))
        /\ Analysis!aggregate(S)["unique_seq3"] = Cardinality(keys("seq3"))
    BY <2>1
  <2> QED BY <2>2 DEF keys
<1>4. ASSUME NEW U
      PROVE  /\ UNION { s["syscalls"] : s \in { summary(f) : f \in U } } = Contained(U)["syscalls"]
             /\ UNION { s["seq2"] : s \in { summary(f) : f \in U } } = Contained(U)["seq2"]
             /\ UNION { s["seq3"] : s \in { summary(f) : f \in U } } = Contained(U)["seq3"]
  <2>1. /\ { s["syscalls"] : s \in { summary(f) : f \in U } } = { Analysis!syscalls(ops_of(f)) : f \in U }
        /\ { s["seq2"] : s \in { summary(f) : f \in U } } = { Analysis!seq2(ops_of(f)) : f \in U }
        /\ { s["seq3"] : s \in { summary(f) : f \in U } } = { Analysis!seq3(ops_of(f)) : f \in U }
    BY <1>2
  <2> QED BY <2>1 DEF Contained
<1>5. ASSUME NEW found, NEW t
      PROVE  /\ DiscoveredBy(found, t)["unique_syscalls"] = Cardinality(Contained(UpTo(found, t))["syscalls"])
             /\ DiscoveredBy(found, t)["unique_seq2"] = Cardinality(Contained(UpTo(found, t))["seq2"])
             /\ DiscoveredBy(found, t)["unique_seq3"] = Cardinality(Contained(UpTo(found, t))["seq3"])
  BY <1>1, <1>3, <1>4
<1>6. ASSUME NEW found, NEW j
      PROVE  /\ RowAt(found, j)["unique_syscalls"] = Cardinality(Contained(First(found, j))["syscalls"])
             /\ RowAt(found, j)["unique_seq2"] = Cardinality(Contained(First(found, j))["seq2"])
             /\ RowAt(found, j)["unique_seq3"] = Cardinality(Contained(First(found, j))["seq3"])
  BY DEF RowAt
<1>7. CASE metric = "unique_syscalls"
  BY <1>5, <1>6, <1>7 DEF Kinds
<1>8. CASE metric = "unique_seq2"
  BY <1>5, <1>6, <1>8 DEF Kinds
<1>9. CASE metric = "unique_seq3"
  BY <1>5, <1>6, <1>9 DEF Kinds
<1> QED BY <1>7, <1>8, <1>9 DEF Metrics

LEMMA RowsShape ==
  ASSUME NEW found, NEW k \in Nat
  PROVE  /\ RowsUpTo(found, k) \in Seq({ RowAt(found, j) : j \in 1..k })
         /\ Len(RowsUpTo(found, k)) = k
         /\ RowsUpTo(found, k) = << >> <=> k = 0
         /\ \A j \in 1..k : RowsUpTo(found, k)[j] = RowAt(found, j)
<1>1. RowsUpTo(found, k) \in Seq({ RowAt(found, j) : j \in 1..k })
  BY IsASeq DEF RowsUpTo
<1>2. DOMAIN RowsUpTo(found, k) = 1..k
  BY DEF RowsUpTo
<1>3. Len(RowsUpTo(found, k)) = k
  BY <1>1, <1>2, LenProperties
<1>4. \A j \in 1..k : RowsUpTo(found, k)[j] = RowAt(found, j)
  BY DEF RowsUpTo
<1>5. RowsUpTo(found, k) = << >> <=> k = 0
  BY <1>1, <1>3, EmptySeq
<1> QED BY <1>1, <1>3, <1>4, <1>5

\* The rows of any number of first files are a series of every metric.
LEMMA RowsAreSeries ==
  ASSUME NEW found, Directory(found), NEW k \in 0..Cardinality(found), NEW metric \in Metrics
  PROVE  IsSeries(RowsUpTo(found, k), metric)
<1> DEFINE rows == RowsUpTo(found, k)
           order == in_time_order(found)
           N == Cardinality(found)
<1>1. InTimeOrder(order, found) /\ N \in Nat /\ k \in Nat
  BY TimeOrder DEF Directory, InTimeOrder
<1>2. /\ Len(rows) = k /\ (rows = << >> <=> k = 0)
      /\ \A j \in 1..k : rows[j] = RowAt(found, j)
  BY <1>1, RowsShape
<1> HIDE DEF rows, order
<1>3. \A j \in 1..k : j \in 1..N /\ j \in 0..N /\ order[j] \in found
  BY <1>1 DEF InTimeOrder
<1>4. \A j \in 1..k : /\ rows[j].seconds = time_of(order[j], found)
                      /\ rows[j].seconds \in Int
                      /\ "seconds" \in DOMAIN rows[j] /\ metric \in DOMAIN rows[j]
  <2> TAKE j \in 1..k
  <2>1. rows[j].seconds = time_of(order[j], found)
    BY <1>2 DEF RowAt, order
  <2>2. time_of(order[j], found) \in Int
    BY <1>3, TimeType DEF Directory
  <2>3. "seconds" \in DOMAIN rows[j] /\ metric \in DOMAIN rows[j]
    BY <1>2 DEF RowAt, Metrics
  <2> QED BY <2>1, <2>2, <2>3
<1>5. InTime(rows)
  <2>1. \A i, j \in 1..k : i <= j => rows[i].seconds <= rows[j].seconds
    <3> TAKE i, j \in 1..k
    <3> HAVE i <= j
    <3>1. CASE i = j
      BY <3>1, <1>4
    <3>2. CASE i # j
      <4>1. i < j /\ i \in 1..N /\ j \in 1..N
        BY <3>2, <1>3
      <4>2. time_of(order[i], found) <= time_of(order[j], found)
        BY <4>1, <1>1 DEF InTimeOrder
      <4> QED BY <4>2, <1>4
    <3> QED BY <3>1, <3>2
  <2> QED BY <2>1, <1>2, <1>4 DEF InTime
<1>6. Grows(rows, metric)
  <2>1. PICK kind \in Kinds :
          \A S, j : RowAt(S, j)[metric] = Cardinality(Contained(First(S, j))[kind])
    BY MetricCounts
  <2>2. ASSUME NEW i \in 1..k, NEW j \in 1..k, i <= j
        PROVE  /\ rows[i][metric] \in Nat
               /\ rows[i][metric] <= rows[j][metric]
    <3>1. j \in 0..N /\ i \in 0..j
      BY <1>1, <1>3, <2>2
    <3>2. First(found, j) \subseteq found /\ First(found, i) \subseteq First(found, j)
      BY <3>1, FirstFiles DEF Directory
    <3>3. /\ Cardinality(Contained(First(found, i))[kind]) \in Nat
          /\ Cardinality(Contained(First(found, i))[kind]) <= Cardinality(Contained(First(found, j))[kind])
      BY <3>2, ContainedFinite
    <3> QED BY <3>3, <2>1, <1>2
  <2>3. \A i \in 1..k : rows[i][metric] \in Nat
    BY <2>2
  <2> QED BY <2>2, <2>3, <1>2 DEF Grows
<1>7. metric # "seconds"
  BY DEF Metrics
<1> QED BY <1>1, <1>2, <1>4, <1>5, <1>6, <1>7 DEF IsSeries, rows

-----------------------------------------------------------------------------
(* The inductive invariant.                                                *)

\* What is listed of a path is in it, all of it as long as nothing vanishes.
ListedInv ==
  /\ paths \in CommandLines /\ options \in Options
  /\ listed \in Seq({ listed[i] : i \in 1..Len(listed) })
  /\ rows_by_input \in Seq({ rows_by_input[i] : i \in 1..Len(rows_by_input) })
  /\ Len(rows_by_input) = Len(listed) /\ Len(listed) <= Len(paths)
  /\ \A i \in 1..Len(listed) :
       /\ paths[i].at # "missing"
       /\ listed[i] \subseteq Analysis!afl_queue_files(paths[i])
       /\ removed = {} => listed[i] = Analysis!afl_queue_files(paths[i])

\* The series under way: k rows for the first k files, the other files to read.
SeriesUnderWay(found, rows, k) ==
  /\ k \in 0..Cardinality(found)
  /\ rows = RowsUpTo(found, k) /\ seen = Contained(First(found, k))
  /\ files \in Seq(found) /\ Len(files) = Cardinality(found) - k
  /\ \A j \in 1..Len(files) : files[j] = in_time_order(found)[k + j]

Reading ==
  /\ csv = NoCsv /\ png = FALSE /\ exit # "0"
  /\ listed = << >> => files = << >>
  /\ \A i \in 1..Len(listed) : i < Len(listed) => rows_by_input[i] = Whole(listed[i])
  /\ \A i \in 1..Len(listed) : i = Len(listed) =>
       \E k \in 0..Cardinality(listed[i]) : SeriesUnderWay(listed[i], rows_by_input[i], k)

Reported ==
  /\ exit # "running" /\ files = << >> /\ Len(listed) = Len(paths)
  /\ \A i \in 1..Len(listed) :
       rows_by_input[i] = extend_rows_to_duration(Whole(listed[i]), options.extend_to)

PlotInv == ListedInv /\ (Reading \/ Reported)

LEMMA PlotInit == Init => PlotInv
<1> SUFFICES ASSUME Init PROVE PlotInv
  OBVIOUS
<1>1. listed = << >> /\ rows_by_input = << >> /\ files = << >>
  BY DEF Init
<1>2. Len(listed) = 0 /\ Len(rows_by_input) = 0 /\ 1..Len(listed) = {}
  BY <1>1
<1>3. ListedInv
  <2>1. paths \in CommandLines /\ options \in Options /\ Len(paths) \in Nat
    BY CommandLineAssumption DEF Init
  <2> QED BY <1>1, <1>2, <2>1, EmptySeq DEF ListedInv
<1>4. Reading
  BY <1>1, <1>2 DEF Init, Reading
<1> QED BY <1>3, <1>4 DEF PlotInv

\* A series is under way, or all that are listed are whole.
LEMMA AllWhole ==
  ASSUME ListedInv, Reading, files = << >>, NEW i \in 1..Len(listed)
  PROVE  rows_by_input[i] = Whole(listed[i]) /\ Directory(listed[i])
<1>0. Len(listed) \in Nat /\ i \in 1..Len(paths)
  BY CommandLineAssumption DEF ListedInv
<1>1. Directory(listed[i])
  BY <1>0, DirectoryOfPath DEF ListedInv
<1>2. CASE i < Len(listed)
  BY <1>1, <1>2 DEF Reading
<1>3. CASE i = Len(listed)
  <2>1. PICK k \in 0..Cardinality(listed[i]) : SeriesUnderWay(listed[i], rows_by_input[i], k)
    BY <1>3 DEF Reading
  <2>2. Len(files) = 0 /\ Cardinality(listed[i]) \in Nat
    BY <1>1, FS_CardinalityType DEF Directory, Timed
  <2>3. k = Cardinality(listed[i])
    BY <2>1, <2>2 DEF SeriesUnderWay
  <2> QED BY <1>1, <2>1, <2>3 DEF SeriesUnderWay, Whole
<1> QED BY <1>0, <1>2, <1>3

LEMMA RemoveFileKeeps == PlotInv /\ RemoveFile => PlotInv'
<1> SUFFICES ASSUME PlotInv, RemoveFile PROVE PlotInv'
  OBVIOUS
<1>1. /\ UNCHANGED <<paths, options, listed, files, seen, rows_by_input, csv, png, exit>>
      /\ exit = "running" /\ removed' # {}
  BY DEF RemoveFile
<1>2. ListedInv'
  BY <1>1 DEF PlotInv, ListedInv
<1>3. Reading
  BY <1>1 DEF PlotInv, Reported
<1>4. Reading'
  BY <1>1, <1>3 DEF Reading, SeriesUnderWay
<1> QED BY <1>2, <1>4 DEF PlotInv

LEMMA FailKeeps == PlotInv /\ exit = "running" /\ Fail => PlotInv'
<1> SUFFICES ASSUME PlotInv, exit = "running", Fail PROVE PlotInv'
  OBVIOUS
<1>1. UNCHANGED <<paths, options, removed, listed, files, seen, rows_by_input, csv, png>> /\ exit' = "2"
  BY DEF Fail
<1>2. ListedInv'
  BY <1>1 DEF PlotInv, ListedInv
<1>3. Reading
  BY DEF PlotInv, Reported
<1>4. Reading'
  BY <1>1, <1>3 DEF Reading, SeriesUnderWay
<1> QED BY <1>2, <1>4 DEF PlotInv

LEMMA ListFilesKeeps == PlotInv /\ ListFiles => PlotInv'
<1> SUFFICES ASSUME PlotInv, ListFiles PROVE PlotInv'
  OBVIOUS
<1> DEFINE n == Len(listed)
           path == paths[n + 1]
           found == Analysis!afl_queue_files(path) \ removed
<1>1. exit = "running" /\ files = << >> /\ n < Len(paths) /\ ListedInv /\ Reading
  BY DEF ListFiles, PlotInv, Reported
<1>2. CASE path.at = "missing"
  <2>1. Fail
    BY <1>2 DEF ListFiles
  <2> QED BY <2>1, <1>1, FailKeeps
<1>3. CASE path.at # "missing"
  <2>1. /\ listed' = Append(listed, found) /\ files' = in_time_order(found) /\ seen' = Nothing
        /\ rows_by_input' = Append(rows_by_input, << >>)
        /\ UNCHANGED <<paths, options, removed, csv, png, exit>>
    BY <1>3 DEF ListFiles
  <2>2. /\ paths \in CommandLines /\ Len(paths) \in Nat /\ n \in Nat /\ n + 1 \in 1..Len(paths)
        /\ Len(rows_by_input) = n
    BY <1>1, CommandLineAssumption DEF ListedInv
  <2>3. Directory(found)
    <3>1. found \subseteq Analysis!afl_queue_files(path)
      OBVIOUS
    <3> HIDE DEF found
    <3> QED BY <3>1, <2>2, <1>3, DirectoryOfPath
  <2>4. found \subseteq Analysis!afl_queue_files(path)
        /\ (removed = {} => found = Analysis!afl_queue_files(path))
    OBVIOUS
  <2> HIDE DEF found, path
  <2>5. /\ listed' \in Seq({ listed[i] : i \in 1..n } \union {found}) /\ Len(listed') = n + 1
        /\ listed'[n + 1] = found /\ \A i \in 1..n : listed'[i] = listed[i]
    <3> DEFINE S == { listed[i] : i \in 1..n } \union {found}
    <3>1. listed \in Seq(S) /\ found \in S
      <4>1. listed \in Seq({ listed[i] : i \in 1..n }) /\ { listed[i] : i \in 1..n } \subseteq S
        BY <1>1 DEF ListedInv
      <4> QED BY <4>1, SeqMonotonic
    <3> HIDE DEF S
    <3>2. /\ listed' \in Seq(S) /\ Len(listed') = n + 1
          /\ listed'[n + 1] = found /\ \A i \in 1..n : listed'[i] = listed[i]
      BY <3>1, <2>1, AppendProperties
    <3> QED BY <3>2 DEF S
  <2>6. /\ rows_by_input' \in Seq({ rows_by_input[i] : i \in 1..n } \union {<< >>})
        /\ Len(rows_by_input') = n + 1
        /\ rows_by_input'[n + 1] = << >> /\ \A i \in 1..n : rows_by_input'[i] = rows_by_input[i]
    <3> DEFINE S == { rows_by_input[i] : i \in 1..n } \union {<< >>}
    <3>1. rows_by_input \in Seq(S) /\ << >> \in S
      <4>1. rows_by_input \in Seq({ rows_by_input[i] : i \in 1..n })
            /\ { rows_by_input[i] : i \in 1..n } \subseteq S
        BY <1>1, <2>2 DEF ListedInv
      <4> QED BY <4>1, SeqMonotonic
    <3> HIDE DEF S
    <3>2. /\ rows_by_input' \in Seq(S) /\ Len(rows_by_input') = n + 1
          /\ rows_by_input'[n + 1] = << >> /\ \A i \in 1..n : rows_by_input'[i] = rows_by_input[i]
      BY <3>1, <2>1, <2>2, AppendProperties
    <3> QED BY <3>2 DEF S
  <2>7. \A i \in 1..(n + 1) : i = n + 1 \/ i \in 1..n
    BY <2>2
  <2>8. ListedInv'
    <3>1. listed' \in Seq({ listed'[i] : i \in 1..(n + 1) })
          /\ rows_by_input' \in Seq({ rows_by_input'[i] : i \in 1..(n + 1) })
      BY <2>5, <2>6, <2>2
    <3>2. \A i \in 1..(n + 1) :
            /\ paths[i].at # "missing"
            /\ listed'[i] \subseteq Analysis!afl_queue_files(paths[i])
            /\ removed = {} => listed'[i] = Analysis!afl_queue_files(paths[i])
      <4> TAKE i \in 1..(n + 1)
      <4>1. CASE i = n + 1
        BY <4>1, <2>4, <2>5, <1>3 DEF path
      <4>2. CASE i \in 1..n
        BY <4>2, <2>5, <1>1 DEF ListedInv
      <4> QED BY <4>1, <4>2, <2>7
    <3>3. /\ paths' \in CommandLines /\ options' \in Options
          /\ Len(rows_by_input') = Len(listed') /\ Len(listed') <= Len(paths')
      BY <1>1, <2>1, <2>2, <2>5, <2>6 DEF ListedInv
    <3>4. \A i \in 1..Len(listed') :
            /\ paths'[i].at # "missing"
            /\ listed'[i] \subseteq Analysis!afl_queue_files(paths'[i])
            /\ removed' = {} => listed'[i] = Analysis!afl_queue_files(paths'[i])
      BY <3>2, <2>1, <2>5
    <3> QED BY <3>1, <3>3, <3>4, <2>5, <2>6 DEF ListedInv
  <2>9. /\ 0 \in 0..Cardinality(found)
        /\ << >> = RowsUpTo(found, 0) /\ seen' = Contained(First(found, 0))
        /\ files' \in Seq(found) /\ Len(files') = Cardinality(found) - 0
        /\ \A j \in 1..Len(files') : files'[j] = in_time_order(found)[0 + j]
    <3>1. InTimeOrder(in_time_order(found), found)
      BY <2>3, TimeOrder DEF Directory
    <3>2. in_time_order(found) \in Seq(found) /\ Len(in_time_order(found)) = Cardinality(found)
      <4>1. in_time_order(found) \in [1..Cardinality(found) -> found] /\ Cardinality(found) \in Nat
        BY <3>1 DEF InTimeOrder
      <4> QED BY <4>1
    <3>3. << >> = RowsUpTo(found, 0)
      <4>1. 0 \in Nat
        OBVIOUS
      <4> QED BY <4>1, RowsShape
    <3>4. Nothing = Contained(First(found, 0))
      BY DEF Nothing, Contained, First
    <3>5. Cardinality(found) \in Nat
      BY <3>1 DEF InTimeOrder
    <3>6. /\ 0 \in 0..Cardinality(found) /\ seen' = Contained(First(found, 0))
          /\ files' \in Seq(found) /\ Len(files') = Cardinality(found) - 0
          /\ \A j \in 1..Len(files') : files'[j] = in_time_order(found)[0 + j]
      BY <2>1, <3>2, <3>4, <3>5
    <3> QED BY <3>3, <3>6
  <2>10. Reading'
    <3>1. \A i \in 1..n : rows_by_input[i] = Whole(listed[i])
      BY <1>1, AllWhole
    <3>2. ASSUME NEW i \in 1..Len(listed'), i < Len(listed')
          PROVE  rows_by_input'[i] = Whole(listed'[i])
      <4>1. i \in 1..n
        BY <3>2, <2>2, <2>5
      <4> QED BY <4>1, <3>1, <2>5, <2>6
    <3>3. ASSUME NEW i \in 1..Len(listed'), i = Len(listed')
          PROVE  \E k \in 0..Cardinality(listed'[i]) : SeriesUnderWay(listed[i], rows_by_input[i], k)'
      <4>1. listed'[i] = found /\ rows_by_input'[i] = << >>
        BY <3>3, <2>5, <2>6
      <4>2. SeriesUnderWay(listed[i], rows_by_input[i], 0)'
        BY <4>1, <2>9 DEF SeriesUnderWay
      <4> QED BY <4>1, <4>2, <2>9
    <3>4. csv' = NoCsv /\ png' = FALSE /\ exit' # "0" /\ listed' # << >>
      BY <1>1, <2>1, <2>2, <2>5 DEF Reading
    <3> QED BY <3>2, <3>3, <3>4 DEF Reading
  <2> QED BY <2>8, <2>10 DEF PlotInv
<1> QED BY <1>2, <1>3

\* What one more file adds.
LEMMA OneMoreFile ==
  ASSUME NEW found, NEW k \in Nat, NEW f, f = in_time_order(found)[k + 1]
  PROVE  Contained(First(found, k + 1)) =
           [ syscalls |-> Contained(First(found, k)).syscalls \union Analysis!syscalls(ops_of(f)),
             seq2 |-> Contained(First(found, k)).seq2 \union Analysis!seq2(ops_of(f)),
             seq3 |-> Contained(First(found, k)).seq3 \union Analysis!seq3(ops_of(f)) ]
<1>1. First(found, k + 1) = First(found, k) \union {f}
  BY OneMoreFirst
<1> DEFINE S == First(found, k)
<1> HIDE DEF S
<1>2. Contained(S \union {f}) =
        [ syscalls |-> Contained(S).syscalls \union Analysis!syscalls(ops_of(f)),
          seq2 |-> Contained(S).seq2 \union Analysis!seq2(ops_of(f)),
          seq3 |-> Contained(S).seq3 \union Analysis!seq3(ops_of(f)) ]
  BY DEF Contained
<1> QED BY <1>1, <1>2 DEF S

LEMMA CountFileKeeps == PlotInv /\ CountFile => PlotInv'
<1> SUFFICES ASSUME PlotInv, CountFile PROVE PlotInv'
  OBVIOUS
<1> DEFINE n == Len(listed)
           file == Head(files)
<1>1. exit = "running" /\ files # << >> /\ ListedInv /\ Reading
  BY DEF CountFile, PlotInv, Reported
<1>2. CASE file \in removed
  <2>1. Fail
    BY <1>2 DEF CountFile
  <2> QED BY <2>1, <1>1, FailKeeps
<1>3. CASE file \notin removed
  <2>1. n \in Nat /\ n > 0 /\ n \in 1..n /\ Len(rows_by_input) = n
        /\ rows_by_input \in Seq({ rows_by_input[i] : i \in 1..n })
        /\ n \in 1..Len(paths) /\ paths \in CommandLines
    <3>1. n \in Nat /\ n # 0 /\ n <= Len(paths) /\ Len(paths) \in Nat
      BY <1>1, EmptySeq, CommandLineAssumption DEF ListedInv, Reading
    <3> QED BY <3>1, <1>1 DEF ListedInv
  <2> DEFINE rows == rows_by_input[n]
             seconds == queue_entry_seconds(file, start_time(listed[n]))
             row == [ seconds |-> seconds, queued_files |-> Len(rows) + 1,
                      unique_syscalls |-> Cardinality(seen'.syscalls),
                      unique_seq2 |-> Cardinality(seen'.seq2),
                      unique_seq3 |-> Cardinality(seen'.seq3) ]
  <2>2. /\ seen' = found_by(Analysis!decode_bytes(file.data)) /\ files' = Tail(files)
        /\ rows_by_input' = [ rows_by_input EXCEPT ![n] = Append(@, row) ]
        /\ UNCHANGED <<paths, options, removed, listed, csv, png, exit>>
    BY <1>3, <2>1 DEF CountFile
  <2>3. PICK found : found = listed[n]
    OBVIOUS
  <2>4. Directory(found)
    BY <2>1, <2>3, <1>1, DirectoryOfPath DEF ListedInv
  <2>5. PICK k \in 0..Cardinality(found) : SeriesUnderWay(found, rows, k)
    BY <1>1, <2>1, <2>3 DEF Reading
  <2>6. k \in Nat /\ Cardinality(found) \in Nat /\ Len(files) = Cardinality(found) - k
        /\ files \in Seq(found) /\ Len(files) > 0
    <3>1. Cardinality(found) \in Nat
      BY <2>4, FS_CardinalityType DEF Directory, Timed
    <3> QED BY <3>1, <2>5, <1>1 DEF SeriesUnderWay
  <2>7. k + 1 \in 0..Cardinality(found) /\ k + 1 \in Nat
    BY <2>6
  <2>8. file = in_time_order(found)[k + 1]
    <3>1. 1 \in 1..Len(files)
      BY <2>6
    <3>2. file = files[1]
      BY <1>1, <2>6
    <3> QED BY <3>1, <3>2, <2>5 DEF SeriesUnderWay
  <2>9. seen' = Contained(First(found, k + 1))
    <3>1. PICK f : f = file
      OBVIOUS
    <3>2. /\ seen = Contained(First(found, k)) /\ f = in_time_order(found)[k + 1]
          /\ Analysis!decode_bytes(file.data) = ops_of(f)
      BY <2>5, <2>8, <3>1 DEF SeriesUnderWay, ops_of
    <3>3. Contained(First(found, k + 1)) =
            [ syscalls |-> Contained(First(found, k)).syscalls \union Analysis!syscalls(ops_of(f)),
              seq2 |-> Contained(First(found, k)).seq2 \union Analysis!seq2(ops_of(f)),
              seq3 |-> Contained(First(found, k)).seq3 \union Analysis!seq3(ops_of(f)) ]
      BY <3>2, <2>6, OneMoreFile
    <3> HIDE DEF file
    <3> QED BY <2>2, <3>2, <3>3 DEF found_by
  <2>10. /\ Len(rows) = k /\ rows \in Seq({ RowAt(found, j) : j \in 1..k })
         /\ \A j \in 1..k : rows[j] = RowAt(found, j)
    BY <2>5, <2>6, RowsShape DEF SeriesUnderWay
  <2>11. row = RowAt(found, k + 1)
    BY <2>3, <2>8, <2>9, <2>10 DEF RowAt, time_of
  <2> HIDE DEF rows, row, file, n
  <2>12. Append(rows, row) = RowsUpTo(found, k + 1)
    <3> DEFINE S == { RowAt(found, j) : j \in 1..(k + 1) }
    <3>1. \A j \in 1..k : j \in 1..(k + 1)
      BY <2>6
    <3>2. rows \in Seq(S) /\ row \in S
      <4>1. { RowAt(found, j) : j \in 1..k } \subseteq S
        BY <3>1
      <4>2. row \in S
        BY <2>11, <2>6
      <4> HIDE DEF S
      <4> QED BY <4>1, <4>2, <2>10, SeqMonotonic
    <3> HIDE DEF S
    <3>3. /\ Append(rows, row) \in Seq(S) /\ Len(Append(rows, row)) = k + 1
          /\ Append(rows, row)[k + 1] = row /\ \A j \in 1..k : Append(rows, row)[j] = rows[j]
      BY <3>2, <2>10, AppendProperties
    <3>4. \A j \in 1..(k + 1) : Append(rows, row)[j] = RowAt(found, j)
      <4>1. \A j \in 1..(k + 1) : j = k + 1 \/ j \in 1..k
        BY <2>6
      <4> QED BY <4>1, <3>3, <2>10, <2>11
    <3>5. PICK more : more = Append(rows, row)
      OBVIOUS
    <3>6. more = [ j \in 1..Len(more) |-> more[j] ]
      <4>1. more \in Seq(S)
        BY <3>3, <3>5
      <4> QED BY <4>1
    <3> QED BY <3>3, <3>4, <3>5, <3>6 DEF RowsUpTo
  <2>13. /\ rows_by_input'[n] = RowsUpTo(found, k + 1)
         /\ Len(rows_by_input') = n /\ DOMAIN rows_by_input' = 1..n
         /\ \A i \in 1..n : i # n => rows_by_input'[i] = rows_by_input[i]
         /\ rows_by_input' \in Seq({ rows_by_input'[i] : i \in 1..n })
    <3>1. DOMAIN rows_by_input = 1..n
      BY <2>1
    <3>2. /\ rows_by_input' = [ rows_by_input EXCEPT ![n] = Append(rows, row) ]
          /\ DOMAIN rows_by_input' = 1..n
      BY <2>2, <3>1 DEF rows, row, n
    <3>3. rows_by_input'[n] = RowsUpTo(found, k + 1)
          /\ \A i \in 1..n : i # n => rows_by_input'[i] = rows_by_input[i]
      BY <3>1, <3>2, <2>1, <2>12
    <3>4. rows_by_input' = [ i \in 1..n |-> rows_by_input'[i] ]
      BY <3>2
    <3>5. rows_by_input' \in Seq({ rows_by_input'[i] : i \in 1..n })
      BY <3>4, <2>1, IsASeq
    <3>6. Len(rows_by_input') = n
      BY <3>2, <3>5, <2>1, LenProperties
    <3> QED BY <3>2, <3>3, <3>5, <3>6
  <2>14. /\ files' \in Seq(found) /\ Len(files') = Cardinality(found) - (k + 1)
         /\ \A j \in 1..Len(files') : files'[j] = in_time_order(found)[k + 1 + j]
    <3>1. /\ files' \in Seq(found) /\ Len(files') = Len(files) - 1
          /\ \A j \in 1..Len(files') : files'[j] = files[j + 1] /\ j + 1 \in 1..Len(files)
      BY <1>1, <2>2, <2>6, HeadTailProperties
    <3>2. \A j \in 1..Len(files') : files[j + 1] = in_time_order(found)[k + (j + 1)]
      BY <3>1, <2>5 DEF SeriesUnderWay
    <3>3. \A j \in 1..Len(files') : k + (j + 1) = k + 1 + j
      BY <2>6
    <3> QED BY <3>1, <3>2, <3>3, <2>6
  <2>15. ListedInv'
    <3>1. /\ UNCHANGED <<paths, options, removed, listed>> /\ Len(listed) = n
      BY <2>2 DEF n
    <3> QED BY <3>1, <2>13, <1>1 DEF ListedInv
  <2>16. Reading'
    <3>1. Len(listed') = n /\ listed' = listed
      BY <2>2 DEF n
    <3>2. ASSUME NEW i \in 1..Len(listed'), i < Len(listed')
          PROVE  rows_by_input'[i] = Whole(listed'[i])
      <4>1. i \in 1..n /\ i < n /\ i # n
        BY <3>1, <3>2, <2>1
      <4> QED BY <4>1, <3>1, <2>13, <1>1 DEF Reading, n
    <3>3. ASSUME NEW i \in 1..Len(listed'), i = Len(listed')
          PROVE  \E l \in 0..Cardinality(listed'[i]) : SeriesUnderWay(listed[i], rows_by_input[i], l)'
      <4>1. listed'[i] = found /\ rows_by_input'[i] = RowsUpTo(found, k + 1)
        BY <3>1, <3>3, <2>3, <2>13
      <4>2. SeriesUnderWay(listed[i], rows_by_input[i], k + 1)'
        BY <4>1, <2>7, <2>9, <2>14 DEF SeriesUnderWay
      <4> QED BY <4>1, <4>2, <2>7
    <3>4. csv' = NoCsv /\ png' = FALSE /\ exit' # "0" /\ listed' # << >>
      <4>1. listed # << >>
        BY <1>1 DEF Reading
      <4> QED BY <4>1, <1>1, <2>2 DEF Reading
    <3> QED BY <3>2, <3>3, <3>4 DEF Reading
  <2> QED BY <2>15, <2>16 DEF PlotInv
<1> QED BY <1>2, <1>3

LEMMA ReportKeeps == PlotInv /\ Report => PlotInv'
<1> SUFFICES ASSUME PlotInv, Report PROVE PlotInv'
  OBVIOUS
<1> DEFINE n == Len(paths)
           extended == [ i \in 1..n |-> extend_rows_to_duration(rows_by_input[i], options.extend_to) ]
<1>1. /\ exit = "running" /\ files = << >> /\ Len(listed) = n /\ ListedInv /\ Reading
      /\ rows_by_input' = extended /\ exit' \in {"0", "2"}
      /\ UNCHANGED <<paths, options, removed, listed, files, seen>>
  BY DEF Report, all_read, PlotInv, Reported
<1>2. n \in Nat
  BY <1>1, CommandLineAssumption DEF ListedInv
<1>3. /\ rows_by_input' = [ i \in 1..n |-> rows_by_input'[i] ] /\ DOMAIN rows_by_input' = 1..n
  BY <1>1
<1>4. rows_by_input' \in Seq({ rows_by_input'[i] : i \in 1..n })
  BY <1>3, <1>2, IsASeq
<1>5. Len(rows_by_input') = n
  BY <1>2, <1>3, <1>4, LenProperties
<1>6. \A i \in 1..n : rows_by_input'[i] = extend_rows_to_duration(Whole(listed[i]), options.extend_to)
  <2> TAKE i \in 1..n
  <2>1. rows_by_input[i] = Whole(listed[i])
    BY <1>1, AllWhole
  <2>2. rows_by_input'[i] = extend_rows_to_duration(rows_by_input[i], options.extend_to)
    BY <1>1
  <2> QED BY <2>1, <2>2
<1> HIDE DEF extended, n
<1>7. ListedInv'
  BY <1>1, <1>4, <1>5 DEF ListedInv, n
<1>8. Reported'
  BY <1>1, <1>6 DEF Reported, n
<1> QED BY <1>7, <1>8 DEF PlotInv

LEMMA PlotStep == PlotInv /\ [Next]_vars => PlotInv'
<1> SUFFICES ASSUME PlotInv, UNCHANGED vars PROVE PlotInv'
  BY RemoveFileKeeps, ListFilesKeeps, CountFileKeeps, ReportKeeps DEF Next
<1>1. UNCHANGED <<paths, options, removed, listed, files, seen, rows_by_input, csv, png, exit>>
  BY DEF vars
<1>2. ListedInv'
  BY <1>1 DEF PlotInv, ListedInv
<1>3. CASE Reading
  BY <1>1, <1>2, <1>3 DEF PlotInv, Reading, SeriesUnderWay
<1>4. CASE Reported
  BY <1>1, <1>2, <1>4 DEF PlotInv, Reported
<1> QED BY <1>3, <1>4 DEF PlotInv

LEMMA PlotInvariant == Spec => []PlotInv
BY PlotInit, PlotStep, PTL DEF Spec

-----------------------------------------------------------------------------
(* The properties.                                                         *)

\* A series that is complete is whole; after the report it has its plateau.
LEMMA CompleteSeries ==
  ASSUME PlotInv, NEW i \in Done
  PROVE  /\ Directory(listed[i]) /\ i \in 1..Len(listed)
         /\ options.extend_to # NoTime => options.extend_to \in Int
         /\ \/ rows_by_input[i] = Whole(listed[i])
            \/ rows_by_input[i] = extend_rows_to_duration(Whole(listed[i]), options.extend_to)
<1>1. i \in 1..Len(listed) /\ (i < Len(listed) \/ files = << >>) /\ ListedInv
  BY DEF Done, Complete, PlotInv
<1>2. i \in 1..Len(paths) /\ paths \in CommandLines
  BY <1>1, CommandLineAssumption DEF ListedInv
<1>3. Directory(listed[i])
  BY <1>1, <1>2, DirectoryOfPath DEF ListedInv
<1>4. options.extend_to # NoTime => options.extend_to \in Int
  BY <1>1, CommandLineAssumption DEF ListedInv
<1>5. CASE Reading /\ i < Len(listed)
  BY <1>1, <1>3, <1>4, <1>5 DEF Reading
<1>6. CASE Reading /\ files = << >>
  BY <1>1, <1>3, <1>4, <1>6, AllWhole
<1>7. CASE Reported
  BY <1>1, <1>3, <1>4, <1>7 DEF Reported
<1> QED BY <1>1, <1>5, <1>6, <1>7 DEF PlotInv

LEMMA WholeIsSeries ==
  ASSUME NEW found, Directory(found), NEW metric \in Metrics
  PROVE  /\ IsSeries(Whole(found), metric) /\ Cardinality(found) \in Nat
         /\ Whole(found) \in Seq({ RowAt(found, j) : j \in 1..Cardinality(found) })
<1>1. Cardinality(found) \in Nat
  BY FS_CardinalityType DEF Directory, Timed
<1>2. Cardinality(found) \in 0..Cardinality(found)
  BY <1>1
<1>3. IsSeries(Whole(found), metric)
  BY <1>2, RowsAreSeries DEF Whole
<1> QED BY <1>1, <1>3, RowsShape DEF Whole

LEMMA CompleteIsSeries ==
  ASSUME PlotInv, NEW i \in Done, NEW metric \in Metrics
  PROVE  /\ IsSeries(rows_by_input[i], metric)
         /\ \E R : rows_by_input[i] \in Seq(R)
<1> DEFINE base == Whole(listed[i])
           S == { RowAt(listed[i], j) : j \in 1..Cardinality(listed[i]) }
           duration == options.extend_to
           row == [ Last(base) EXCEPT !.seconds = duration ]
<1>1. /\ Directory(listed[i]) /\ (duration # NoTime => duration \in Int)
      /\ rows_by_input[i] = base \/ rows_by_input[i] = extend_rows_to_duration(base, duration)
  BY CompleteSeries
<1>2. IsSeries(base, metric) /\ base \in Seq(S)
  BY <1>1, WholeIsSeries
<1> HIDE DEF base, S, duration
<1>3. Prolongs(extend_rows_to_duration(base, duration), base, duration)
  BY <1>2, Extended
<1>4. IsSeries(extend_rows_to_duration(base, duration), metric)
  BY <1>1, <1>2, <1>3, Prolonged
<1>5. extend_rows_to_duration(base, duration) \in Seq(S \union {row})
  <2>1. base \in Seq(S \union {row})
    BY <1>2
  <2> HIDE DEF row
  <2>2. Append(base, row) \in Seq(S \union {row})
    BY <2>1, AppendProperties
  <2> QED BY <2>1, <2>2 DEF extend_rows_to_duration, row
<1> QED BY <1>1, <1>2, <1>4, <1>5

\* Thinning a series to its change points keeps the curve, for every command
\* line and every directory.
THEOREM CurvesAreKept == Spec => []CurvesKept
<1>1. PlotInv => CurvesKept
  <2> SUFFICES ASSUME PlotInv, NEW i \in Done, NEW m \in Metrics
               PROVE  CurveKept(rows_by_input[i], m)
    BY DEF CurvesKept
  <2>1. IsSeries(rows_by_input[i], m)
    BY CompleteIsSeries
  <2> QED BY <2>1, KeptCurve DEF IsSeries
<1> QED BY <1>1, PlotInvariant, PTL

\* The time to saturation is that of the curve, and no plateau moves it.
THEOREM SaturationHolds == Spec => []SaturationTimes
<1>1. PlotInv => SaturationTimes
  <2> SUFFICES ASSUME PlotInv, NEW i \in Done, NEW m \in Metrics
               PROVE  SaturatesOnce(rows_by_input[i], m, options.extend_to)
    BY DEF SaturationTimes
  <2>1. IsSeries(rows_by_input[i], m)
    BY CompleteIsSeries
  <2>2. PICK R : rows_by_input[i] \in Seq(R)
    BY CompleteIsSeries
  <2>3. options.extend_to # NoTime => options.extend_to \in Int
    BY CompleteSeries
  <2> QED BY <2>1, <2>2, <2>3, SaturatesAt
<1> QED BY <1>1, PlotInvariant, PTL

\* The files up to a time are first in the order of their times.
LEMMA UpToIsFirst ==
  ASSUME NEW found, Directory(found), NEW t \in Int, NEW k \in 1..Cardinality(found),
         time_of(in_time_order(found)[k], found) <= t,
         \A j \in 1..Cardinality(found) : time_of(in_time_order(found)[j], found) <= t => j <= k
  PROVE  UpTo(found, t) = First(found, k)
<1> DEFINE order == in_time_order(found)
           N == Cardinality(found)
<1>1. InTimeOrder(order, found)
  BY TimeOrder DEF Directory
<1>2. N \in Nat /\ k \in 1..N /\ \A j \in 1..k : j \in 1..N
  BY <1>1 DEF InTimeOrder
<1>3. \A f \in found : time_of(f, found) \in Int
  BY TimeType DEF Directory
<1> HIDE DEF order
<1>4. \A j \in 1..N : order[j] \in found /\ (time_of(order[j], found) <= t <=> j <= k)
  <2> TAKE j \in 1..N
  <2>1. order[j] \in found /\ order[k] \in found
    BY <1>1, <1>2 DEF InTimeOrder
  <2>2. time_of(order[j], found) <= t => j <= k
    BY DEF order
  <2>3. j < k => time_of(order[j], found) <= time_of(order[k], found)
    BY <1>1, <1>2 DEF InTimeOrder
  <2>4. time_of(order[k], found) <= t
    BY DEF order
  <2>5. time_of(order[j], found) \in Int /\ time_of(order[k], found) \in Int
    BY <2>1, <1>3
  <2>6. j < k => time_of(order[j], found) <= t
    BY <2>3, <2>4, <2>5
  <2>7. j <= k => j < k \/ j = k
    BY <1>2
  <2> QED BY <2>1, <2>2, <2>4, <2>6, <2>7
<1>5. ASSUME NEW f \in UpTo(found, t) PROVE f \in First(found, k)
  <2>1. f \in found /\ time_of(f, found) <= t
    BY DEF UpTo
  <2>2. PICK j \in 1..N : order[j] = f
    BY <2>1, <1>1 DEF InTimeOrder
  <2>3. j \in 1..k
    BY <2>1, <2>2, <1>2, <1>4
  <2> QED BY <2>2, <2>3 DEF First, order
<1>6. ASSUME NEW f \in First(found, k) PROVE f \in UpTo(found, t)
  <2>1. PICK j \in 1..k : f = order[j]
    BY DEF First, order
  <2> QED BY <2>1, <1>2, <1>4 DEF UpTo
<1> QED BY <1>5, <1>6

\* At a file's time a whole series shows what the files up to then contain;
\* its last row is no earlier.
LEMMA WholeIsDiscovery ==
  ASSUME NEW found, Directory(found), NEW metric \in Metrics, NEW f \in found
  PROVE  LET t == time_of(f, found)
         IN /\ ShownAt(AllPoints(Whole(found), metric), t) = DiscoveredBy(found, t)[metric]
            /\ t \in Int /\ t <= Last(Whole(found)).seconds
<1> DEFINE t == time_of(f, found)
           rows == Whole(found)
           N == Cardinality(found)
           order == in_time_order(found)
<1>1. IsSeries(rows, metric) /\ N \in Nat
  BY WholeIsSeries
<1>2. Len(rows) = N /\ \A j \in 1..N : rows[j] = RowAt(found, j)
  BY <1>1, RowsShape DEF Whole
<1>3. \A j \in 1..N : rows[j].seconds = time_of(order[j], found)
  BY <1>2 DEF RowAt
<1>4. t \in Int
  BY TimeType DEF Directory
<1>5. InTimeOrder(order, found)
  BY TimeOrder DEF Directory
<1> HIDE DEF t, rows, order
<1>6. PICK i \in 1..N : order[i] = f
  BY <1>5 DEF InTimeOrder
<1>7. rows[i].seconds = t
  BY <1>3, <1>6 DEF t
<1>8. PICK k \in 1..N : /\ rows[k].seconds <= t
                       /\ \A j \in 1..N : rows[j].seconds <= t => j <= k
                       /\ ShownAt(AllPoints(rows, metric), t) = rows[k][metric]
  <2>1. rows[i].seconds <= t /\ i \in 1..Len(rows) /\ Len(rows) \in Nat /\ InTime(rows)
    BY <1>1, <1>2, <1>4, <1>6, <1>7 DEF IsSeries
  <2>2. \E k \in 1..Len(rows) :
          /\ LastAt(k, AllPoints(rows, metric), t) /\ i <= k
          /\ rows[k].seconds <= t
          /\ \A j \in 1..Len(rows) : rows[j].seconds <= t => j <= k
          /\ ShownAt(AllPoints(rows, metric), t) = rows[k][metric]
    BY <2>1, <1>4, RowReached
  <2> QED BY <2>2, <1>2
<1>9. UpTo(found, t) = First(found, k)
  <2>1. time_of(in_time_order(found)[k], found) <= t
    BY <1>3, <1>8 DEF order
  <2>2. \A j \in 1..Cardinality(found) : time_of(in_time_order(found)[j], found) <= t => j <= k
    BY <1>3, <1>8 DEF order
  <2> QED BY <2>1, <2>2, <1>4, UpToIsFirst
<1>10. rows[k][metric] = DiscoveredBy(found, t)[metric]
  <2>1. PICK kind \in Kinds :
           /\ \A S, j : RowAt(S, j)[metric] = Cardinality(Contained(First(S, j))[kind])
           /\ \A S, u : DiscoveredBy(S, u)[metric] = Cardinality(Contained(UpTo(S, u))[kind])
    BY MetricCounts
  <2> QED BY <2>1, <1>2, <1>9
<1>11. t <= Last(rows).seconds
  <2>1. N \in 1..N /\ i <= N /\ i \in 1..Len(rows) /\ N \in 1..Len(rows)
    BY <1>1, <1>2, <1>6
  <2>2. rows[i].seconds <= rows[N].seconds
    BY <2>1, <1>1 DEF IsSeries, InTime
  <2> QED BY <2>2, <1>2, <1>7 DEF Last
<1> QED BY <1>4, <1>8, <1>10, <1>11 DEF t, rows

\* A complete curve shows at every testcase's time what the testcases queued
\* up to then have found, as the analysis counts it.
THEOREM CurvesAreDiscovery == Spec => []CurveIsDiscovery
<1>1. PlotInv => CurveIsDiscovery
  <2> SUFFICES ASSUME PlotInv, NEW i \in Done, NEW m \in Metrics, NEW t \in Times(listed[i])
               PROVE  ShownAt(AllPoints(rows_by_input[i], m), t) = DiscoveredBy(listed[i], t)[m]
    BY DEF CurveIsDiscovery
  <2> DEFINE base == Whole(listed[i])
             duration == options.extend_to
  <2>1. /\ Directory(listed[i]) /\ (duration # NoTime => duration \in Int)
        /\ rows_by_input[i] = base \/ rows_by_input[i] = extend_rows_to_duration(base, duration)
    BY CompleteSeries
  <2>2. PICK f \in listed[i] : t = time_of(f, listed[i])
    BY DEF Times, time_of
  <2>3. /\ ShownAt(AllPoints(base, m), t) = DiscoveredBy(listed[i], t)[m]
        /\ t \in Int /\ t <= Last(base).seconds
    BY <2>1, <2>2, WholeIsDiscovery
  <2>4. IsSeries(base, m) /\ base \in Seq({ RowAt(listed[i], j) : j \in 1..Cardinality(listed[i]) })
    BY <2>1, WholeIsSeries
  <2> HIDE DEF base, duration
  <2>5. ShownAt(AllPoints(extend_rows_to_duration(base, duration), m), t) = ShownAt(AllPoints(base, m), t)
    <3>1. Prolongs(extend_rows_to_duration(base, duration), base, duration)
      BY <2>4, Extended
    <3>2. IsSeries(base, m) /\ (duration # NoTime => duration \in Int)
      BY <2>1, <2>4
    <3>3. PICK time \in Int : time = t
      BY <2>3
    <3>4. base # << >> => time <= Last(base).seconds
      BY <2>3, <3>3
    <3>5. PICK longer : longer = extend_rows_to_duration(base, duration)
      OBVIOUS
    <3>6. Prolongs(longer, base, duration)
      BY <3>1, <3>5
    <3>7. ShownAt(AllPoints(longer, m), time) = ShownAt(AllPoints(base, m), time)
      BY <3>2, <3>4, <3>6, PlateauAfter
    <3> QED BY <3>3, <3>5, <3>7
  <2> QED BY <2>1, <2>3, <2>5
<1> QED BY <1>1, PlotInvariant, PTL

\* analyze_queue.py:117-124: under each of its three names the queue of the
\* default instance is the directory searched.
LEMMA DefaultQueueFound ==
  ASSUME NEW path, path.at \in {"root", "instance", "queue"},
         path.campaign.instance = "default"
  PROVE  Analysis!afl_queue_files(path) = { f \in path.campaign.files : ~f.dotted }
<1>1. /\ <<"queue">> # << >> /\ <<"queue">> # <<"default">>
      /\ <<"queue">> # <<"default", "queue">> /\ <<"default", "queue">> # << >>
      /\ <<"default", "queue">> # <<"queue">>
  OBVIOUS
<1>2. CASE path.at = "queue"
  <2>1. Analysis!directories(path) = { << >> }
    BY <1>2 DEF Analysis!directories
  <2>2. Analysis!search_root(path) = << >>
    BY <1>1, <2>1 DEF Analysis!search_root, Analysis!is_dir
  <2>3. Analysis!files_in(path, << >>) = path.campaign.files
    BY <2>1 DEF Analysis!files_in, Analysis!is_dir
  <2> QED
    BY <1>2, <2>2, <2>3 DEF Analysis!afl_queue_files, Analysis!is_file
<1>3. CASE path.at = "instance"
  <2>1. Analysis!directories(path) = { << >>, <<"queue">> }
    BY <1>3 DEF Analysis!directories
  <2>2. Analysis!search_root(path) = <<"queue">>
    BY <2>1 DEF Analysis!search_root, Analysis!is_dir
  <2>3. Analysis!files_in(path, <<"queue">>) = path.campaign.files
    BY <2>1 DEF Analysis!files_in, Analysis!is_dir
  <2> QED
    BY <1>3, <2>2, <2>3 DEF Analysis!afl_queue_files, Analysis!is_file
<1>4. CASE path.at = "root"
  <2>1. Analysis!directories(path) = { << >>, <<"default">>, <<"default", "queue">> }
    BY <1>4 DEF Analysis!directories
  <2>2. Analysis!search_root(path) = <<"default", "queue">>
    BY <1>1, <2>1 DEF Analysis!search_root, Analysis!is_dir
  <2>3. Analysis!files_in(path, <<"default", "queue">>) = path.campaign.files
    BY <2>1 DEF Analysis!files_in, Analysis!is_dir
  <2> QED
    BY <1>4, <2>2, <2>3 DEF Analysis!afl_queue_files, Analysis!is_file
<1> QED
  BY <1>2, <1>3, <1>4

\* However a campaign is named, its series is the same.
THEOREM SeriesNamedAnyWay == Spec => []NamedAnyWay
<1>1. PlotInv => NamedAnyWay
  <2> SUFFICES ASSUME PlotInv, NEW i \in Done, NEW j \in Done,
                      removed = {}, paths[i].campaign = paths[j].campaign,
                      {paths[i].at, paths[j].at} \subseteq {"root", "instance", "queue"},
                      paths[i].campaign.instance = "default"
               PROVE  rows_by_input[i] = rows_by_input[j]
    BY DEF NamedAnyWay
  <2>1. i \in 1..Len(listed) /\ j \in 1..Len(listed)
    BY CompleteSeries
  <2>2. /\ listed[i] = Analysis!afl_queue_files(paths[i])
        /\ listed[j] = Analysis!afl_queue_files(paths[j])
    BY <2>1 DEF PlotInv, ListedInv
  <2>3. /\ Analysis!afl_queue_files(paths[i]) = { f \in paths[i].campaign.files : ~f.dotted }
        /\ Analysis!afl_queue_files(paths[j]) = { f \in paths[j].campaign.files : ~f.dotted }
    BY DefaultQueueFound
  <2>4. listed[i] = listed[j]
    BY <2>2, <2>3
  <2>5. CASE Reported
    BY <2>1, <2>4, <2>5 DEF Reported
  <2>6. CASE Reading
    <3>1. \A l \in Done : rows_by_input[l] = Whole(listed[l])
      <4> TAKE l \in Done
      <4>1. l \in 1..Len(listed) /\ (l < Len(listed) \/ files = << >>)
        BY DEF Done, Complete
      <4> QED BY <4>1, <2>6, AllWhole DEF Reading, PlotInv
    <3> QED BY <3>1, <2>4
  <2> QED BY <2>5, <2>6 DEF PlotInv
<1> QED BY <1>1, PlotInvariant, PTL

\* What is written is of whole queues, whatever vanishes under the script.
THEOREM WholeReports == Spec => []ReportsAllOrNothing
<1>1. PlotInv => ReportsAllOrNothing
  <2> SUFFICES ASSUME PlotInv, csv # NoCsv \/ png \/ exit = "0"
               PROVE  /\ Len(rows_by_input) = Len(paths)
                      /\ \A i \in 1..Len(paths) :
                           \/ rows_by_input[i] = << >> /\ listed[i] = {}
                           \/ /\ rows_by_input[i] # << >>
                              /\ Last(rows_by_input[i]).queued_files = Cardinality(listed[i])
    BY DEF ReportsAllOrNothing
  <2>1. Reported /\ ListedInv
    BY DEF PlotInv, Reading
  <2>2. Len(rows_by_input) = Len(paths)
    BY <2>1 DEF Reported, ListedInv
  <2>3. ASSUME NEW i \in 1..Len(paths)
        PROVE  \/ rows_by_input[i] = << >> /\ listed[i] = {}
               \/ /\ rows_by_input[i] # << >>
                  /\ Last(rows_by_input[i]).queued_files = Cardinality(listed[i])
    <3> DEFINE base == Whole(listed[i])
               N == Cardinality(listed[i])
               duration == options.extend_to
               longer == extend_rows_to_duration(base, duration)
    <3>1. rows_by_input[i] = longer /\ paths \in CommandLines /\ i \in 1..Len(listed)
      BY <2>1 DEF Reported, ListedInv
    <3>2. Directory(listed[i])
      BY <3>1, <2>1, DirectoryOfPath DEF ListedInv
    <3>3. IsFiniteSet(listed[i]) /\ N \in Nat
      BY <3>2, FS_CardinalityType DEF Directory, Timed
    <3>4. /\ base \in Seq({ RowAt(listed[i], j) : j \in 1..N }) /\ Len(base) = N
          /\ (base = << >> <=> N = 0) /\ \A j \in 1..N : base[j] = RowAt(listed[i], j)
      BY <3>3, RowsShape DEF Whole
    <3> HIDE DEF base, longer, duration
    <3>5. Prolongs(longer, base, duration)
      BY <3>4, Extended DEF longer
    <3>6. CASE N = 0
      <4>1. listed[i] = {}
        BY <3>3, <3>6, FS_EmptySet
      <4>2. longer = << >>
        BY <3>4, <3>5, <3>6 DEF Prolongs
      <4> QED BY <3>1, <4>1, <4>2
    <3>7. CASE N # 0
      <4>1. N \in 1..N /\ base # << >> /\ base[N].queued_files = N
            /\ Last(base) = base[N] /\ "queued_files" \in DOMAIN base[N]
        BY <3>3, <3>4, <3>7 DEF RowAt, Last
      <4>2. CASE longer = base
        BY <3>1, <4>1, <4>2
      <4>3. CASE longer # base
        <5>1. /\ Len(longer) = N + 1
              /\ longer[N + 1] = [ base[N] EXCEPT !.seconds = duration ]
          BY <3>4, <3>5, <4>1, <4>3 DEF Prolongs
        <5>2. Last(longer).queued_files = N
          BY <5>1, <4>1 DEF Last
        <5>3. longer # << >>
          BY <5>1, <3>3
        <5> QED BY <3>1, <5>2, <5>3
      <4> QED BY <4>2, <4>3
    <3> QED BY <3>6, <3>7
  <2> QED BY <2>2, <2>3
<1> QED BY <1>1, PlotInvariant, PTL
================================================================================
