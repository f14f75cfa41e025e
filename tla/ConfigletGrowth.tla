---------------------------- MODULE ConfigletGrowth ----------------------------
(***************************************************************************)
(* PoC two's scripts/plot_feedback.py: the testcases of a queue are        *)
(* replayed one by one, in the order they were queued, and a row tells     *)
(* what they cover so far; beside it, what scripts/analyze_queue.py        *)
(* reports of the same queue.  A replay may fail (a timeout, a target that *)
(* cannot be run), and testcases may vanish while the script runs.         *)
(* The script's copies of PoC one's functions are those of GrowthCurve.    *)
(***************************************************************************)
EXTENDS GrowthCurve, FiniteSets

CONSTANTS
  NoTruth,             \* "None" where the ground truth may be missing
  Paths,               \* [at, campaign], as in QueueAnalysis
  TruthFiles,          \* the JSON objects of ground truth files; NoTruth for none
  Durations,           \* of --extend-to
  MaxRemoved           \* bound: files removed while the script runs

\* A directory holds finitely many files with one name each; a target logs
\* finitely many states, and a ground truth file lists finitely many.
ASSUME CommandLineAssumption ==
  /\ NoTruth \notin Nat
  /\ \A duration \in Durations : duration # NoTime => duration \in Int
  /\ \A data \in TruthFiles : data # NoTruth => \A key \in DOMAIN data : IsFiniteSet(data[key])
  /\ \A p \in Paths :
       /\ IsFiniteSet(p.campaign.files)
       /\ \A f \in p.campaign.files :
            /\ f.mtime \in Int /\ f.name \in Int /\ (f.afl # NoTime => f.afl \in Int)
            /\ \A l \in {"features", "combos", "dependencies"} : IsFiniteSet(f.found[l])
       /\ \A f, g \in p.campaign.files : f.name = g.name => f = g

VARIABLES
  path, truth, extend_to,
  removed,             \* files no longer on disk
  listed, files,       \* the queue as listed, and what is left to replay
  replayed,            \* testcases whose replay gave coverage
  seen,                \* seen_features, seen_combinations, seen_dependencies
  index, rows, exit

vars == <<path, truth, extend_to, removed, listed, files, replayed, seen, index, rows, exit>>

Labels == {"features", "combos", "dependencies"}
Nothing == [l \in Labels |-> {}]
Together(a, b) == [l \in Labels |-> a[l] \union b[l]]
size(found) == Cardinality(found["features"]) + Cardinality(found["combos"])
                 + Cardinality(found["dependencies"])

get(data, key, default) == IF key \in DOMAIN data THEN data[key] ELSE default

load_ground_truth(data) ==
  IF data = NoTruth THEN NoTruth
  ELSE [ features |-> get(data, "features", {}), combos |-> get(data, "combos", {}),
         dependencies |-> get(data, "dependencies", get(data, "deps", {})) ]

\* The directory is the path itself unless there is a queue below it.
resolve_queue_dir(p) ==
  IF p.at \in {"queue", "instance"} \/ (p.at = "root" /\ p.campaign.instance = "default")
    THEN p.campaign.files ELSE {}

\* Dotted names included.
queue_files(p) == resolve_queue_dir(p)

\* The script's copies of GrowthCurve's functions, for the one queue.
seconds_of(file) == queue_entry_seconds(file, start_time(listed))
curve(metric) == metric_change_points(rows, metric)
plateau == extend_rows_to_duration(rows, extend_to)
saturation(metric) == saturation_seconds(rows, metric)

\* A mutant: a state is known whatever its label.
covered_counts_unlabelled(found, known) ==
  [ covered |-> IF known = NoTruth THEN size(found)
                ELSE Cardinality(UNION { found[l] : l \in Labels }
                                   \intersect UNION { known[l] : l \in Labels }),
    total |-> IF known = NoTruth THEN NoTruth ELSE size(known) ]

\* A mutant: without the comparison with the ground truth.
covered_counts_all(found, known) ==
  [ covered |-> size(found), total |-> IF known = NoTruth THEN NoTruth ELSE size(known) ]

\* What is covered, of how much; the percentage is their quotient.
covered_counts(found, known) ==
  [ covered |-> IF known = NoTruth THEN size(found)
                ELSE size([l \in Labels |-> found[l] \intersect known[l]]),
    total |-> IF known = NoTruth THEN NoTruth ELSE size(known) ]

Init ==
  /\ path \in Paths /\ extend_to \in Durations
  /\ truth \in { load_ground_truth(data) : data \in TruthFiles }
  /\ removed = {} /\ listed = {} /\ files = <<>> /\ replayed = {} /\ seen = Nothing
  /\ index = 0 /\ rows = <<>> /\ exit = "starting"

\* Somebody removes a testcase.
RemoveFile ==
  /\ exit = "running" /\ Cardinality(removed) < MaxRemoved
  /\ \E f \in listed : removed' = removed \union {f}
  /\ UNCHANGED <<path, truth, extend_to, listed, files, replayed, seen, index, rows, exit>>

sorted_files(found) == in_time_order(found)

\* The head of series_for_path; iterdir raises when the path is missing.
ListFiles ==
  /\ exit = "starting"
  /\ IF path.at = "missing"
       THEN exit' = "2" /\ UNCHANGED <<listed, files>>
       ELSE /\ exit' = "running"
            /\ listed' = queue_files(path)
            /\ files' = sorted_files(queue_files(path))
  /\ UNCHANGED <<path, truth, extend_to, removed, replayed, seen, index, rows>>

\* A file goes between the listing and the sort, which asks for its time.
VanishesWhileListed ==
  /\ exit = "starting" /\ path.at # "missing" /\ MaxRemoved > 0
  /\ \E f \in queue_files(path) : removed' = {f}
  /\ exit' = "2"
  /\ UNCHANGED <<path, truth, extend_to, listed, files, replayed, seen, index, rows>>

\* The end of an iteration: a row for what has been found so far.
AddRow(file, found) ==
  LET counts == covered_counts(found, truth)
  IN /\ seen' = found
     /\ rows' = Append(rows,
          [ seconds |-> seconds_of(file),
            queued_files |-> index',
            unique_features |-> Cardinality(found["features"]),
            unique_combinations |-> Cardinality(found["combos"]),
            unique_dependencies |-> Cardinality(found["dependencies"]),
            covered_total |-> counts.covered, discovered_total |-> size(found),
            ground_truth_total |-> counts.total ])

NextFile == exit = "running" /\ files # <<>> /\ files' = Tail(files) /\ index' = index + 1

\* run_input gives what the target logged for the file.
Replay ==
  /\ NextFile
  /\ LET file == Head(files)
     IN /\ file \notin removed
        /\ AddRow(file, Together(seen, file.found))
        /\ replayed' = replayed \union {file}
  /\ UNCHANGED <<path, truth, extend_to, removed, listed, exit>>

\* run_input raises: the file is skipped with a warning, its index is used up.
Skip ==
  /\ NextFile
  /\ UNCHANGED <<path, truth, extend_to, removed, listed, replayed, seen, rows, exit>>

\* The testcase is gone: the target finds nothing to read and logs nothing,
\* which is no error; the row needs the file's time, which is an error unless
\* its name tells it.
ReplayGone ==
  /\ NextFile
  /\ LET file == Head(files)
     IN /\ file \in removed
        /\ IF file.afl = NoTime THEN exit' = "2" /\ UNCHANGED <<seen, rows>>
           ELSE AddRow(file, seen) /\ UNCHANGED exit
  /\ UNCHANGED <<path, truth, extend_to, removed, listed, replayed>>

\* The rest of main; the CSV and the picture are those of the final rows.
Report ==
  /\ exit = "running" /\ files = <<>>
  /\ rows' = plateau
  /\ exit' = "0"
  /\ UNCHANGED <<path, truth, extend_to, removed, listed, files, replayed, seen, index>>

Next == RemoveFile \/ VanishesWhileListed \/ ListFiles \/ Replay \/ Skip \/ ReplayGone \/ Report

Spec == Init /\ [][Next]_vars

\* analyze_queue.py's result for a queue of which it can replay the given files.
analyze(found, known) ==
  LET all == [l \in Labels |-> UNION { f.found[l] : f \in found }]
      covered == [ l \in Labels |-> IF known = NoTruth THEN Cardinality(all[l])
                                    ELSE Cardinality(all[l] \intersect known[l]) ]
  IN [ unique_features |-> Cardinality(all["features"]),
       unique_combinations |-> Cardinality(all["combos"]),
       unique_dependencies |-> Cardinality(all["dependencies"]),
       covered_total |-> covered["features"] + covered["combos"] + covered["dependencies"],
       discovered_total |-> size(all),
       ground_truth_total |-> IF known = NoTruth THEN NoTruth ELSE size(known) ]

-----------------------------------------------------------------------------
(* Properties.                                                             *)

Metrics == {"unique_features", "unique_combinations", "unique_dependencies",
            "covered_total", "discovered_total"}
Read == exit \in {"running", "0"} /\ files = <<>>

UpTo(found, t) == { f \in found : seconds_of(f) <= t }

\* plot_feedback.py:99-153: skipped and vanished testcases leave no hole and
\* no trace: once there is a row, the curve of every metric, drawn from its
\* change points, shows at the time of every row what analyze_queue.py would
\* report of the testcases replayed up to then; and those replayed up to the
\* saturation time, but not those up to an earlier row, reach its final value.
GrowthIsAnalysis ==
  Read => \A m \in Metrics, k \in 1..Len(rows) :
    LET sat == saturation(m)
        known_at(t) == analyze(UpTo(replayed, t), truth)[m]
    IN /\ ShownAt(curve(m), rows[k].seconds) = known_at(rows[k].seconds)
       /\ known_at(sat) = known_at(Last(rows).seconds)
       /\ rows[k].seconds < sat => known_at(rows[k].seconds) < known_at(sat)

\* plot_feedback.py:79-96: the covered total never falls, counts no state that was
\* not discovered or is not in the ground truth, and without one counts all.
CoverageWithinTruth ==
  \A k \in 1..Len(rows) : LET r == rows[k] IN
    /\ r.covered_total <= r.discovered_total
    /\ r.ground_truth_total = NoTruth => r.covered_total = r.discovered_total
    /\ r.ground_truth_total # NoTruth => r.covered_total <= r.ground_truth_total
    /\ k > 1 => rows[k - 1].covered_total <= r.covered_total
                /\ rows[k - 1].seconds <= r.seconds
================================================================================
