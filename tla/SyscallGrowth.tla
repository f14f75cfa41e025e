----------------------------- MODULE SyscallGrowth -----------------------------
(***************************************************************************)
(* PoC one's scripts/plot_feedback.py as it runs: the series of every path *)
(* on the command line is built file by file, while the queue directories  *)
(* may be removed (reset_experiments.sh, a new campaign); then the rows    *)
(* are extended, exported and drawn.                                       *)
(***************************************************************************)
EXTENDS GrowthCurve, FiniteSets

CONSTANTS
  CommandLines,        \* the paths: sequences of [at, campaign]
  Options,             \* [extend_to, csv, no_plot, matplotlib]
  NoCsv,               \* no CSV file
  MaxOps,              \* MAX_OPS of analyze_queue.py
  MaxRemoved           \* bound: files removed while the script runs

\* A directory holds finitely many files, of bytes, with one name each.
ASSUME CommandLineAssumption ==
  /\ MaxOps \in Nat
  /\ \A o \in Options : o.extend_to # NoTime => o.extend_to \in Int
  /\ \A line \in CommandLines :
       /\ Len(line) \in Nat
       /\ \A i \in 1..Len(line) : LET found == line[i].campaign.files IN
            /\ line[i].at \in {"testcase", "queue", "instance", "root", "missing"}
            /\ IsFiniteSet(found)
            /\ \A f \in found : f.mtime \in Int /\ f.name \in Int /\ f.data \in Seq(0..255)
                                /\ (f.afl # NoTime => f.afl \in Int)
            /\ \A f, g \in found : f.name = g.name => f = g

Analysis == INSTANCE QueueAnalysis WITH MAX_OPS <- MaxOps

VARIABLES
  paths, options,      \* the command line
  removed,             \* files no longer on disk
  listed,              \* unsorted_files of every path listed so far
  files,               \* those of the path under way that are still to read
  seen,                \* seen_syscalls, seen_seq2, seen_seq3
  rows_by_input,       \* a series for every path listed so far
  csv, png,            \* what has been written
  exit                 \* "running", or main's status

vars == <<paths, options, removed, listed, files, seen, rows_by_input, csv, png, exit>>

Nothing == [syscalls |-> {}, seq2 |-> {}, seq3 |-> {}]
Metrics == {"unique_syscalls", "unique_seq2", "unique_seq3"}

Init ==
  /\ paths \in CommandLines /\ options \in Options
  /\ removed = {} /\ listed = <<>> /\ files = <<>> /\ seen = Nothing
  /\ rows_by_input = <<>> /\ csv = NoCsv /\ png = FALSE /\ exit = "running"

\* Somebody removes a testcase.
RemoveFile ==
  /\ exit = "running" /\ Cardinality(removed) < MaxRemoved
  /\ \E f \in paths[1].campaign.files : removed' = removed \union {f}
  /\ UNCHANGED <<paths, options, listed, files, seen, rows_by_input, csv, png, exit>>

\* FileNotFoundError of a path or of a testcase: nothing has been written yet.
Fail ==
  /\ exit' = "2"
  /\ UNCHANGED <<paths, options, removed, listed, files, seen, rows_by_input, csv, png>>

\* The head of series_for_path for the next path: list, find the start, sort.
ListFiles ==
  /\ exit = "running" /\ files = <<>> /\ Len(listed) < Len(paths)
  /\ LET path == paths[Len(listed) + 1]
         found == Analysis!afl_queue_files(path) \ removed
     IN IF path.at = "missing" THEN Fail
        ELSE /\ listed' = Append(listed, found)
             /\ files' = in_time_order(found)
             /\ seen' = Nothing
             /\ rows_by_input' = Append(rows_by_input, <<>>)
             /\ UNCHANGED <<paths, options, removed, csv, png, exit>>

\* The seen_* sets once a file's operations are added.
found_by(ops) ==
  [ syscalls |-> seen.syscalls \union Analysis!syscalls(ops),
    seq2 |-> seen.seq2 \union Analysis!seq2(ops),
    seq3 |-> seen.seq3 \union Analysis!seq3(ops) ]

\* The loop of series_for_path: one file, one row.
CountFile ==
  /\ exit = "running" /\ files # <<>>
  /\ LET file == Head(files)
         n == Len(rows_by_input)
     IN IF file \in removed THEN Fail
        ELSE /\ seen' = found_by(Analysis!decode_bytes(file.data))
             /\ rows_by_input' = [ rows_by_input EXCEPT ![n] = Append(@,
                  [ seconds |-> queue_entry_seconds(file, start_time(listed[n])),
                    queued_files |-> Len(@) + 1,
                    unique_syscalls |-> Cardinality(seen'.syscalls),
                    unique_seq2 |-> Cardinality(seen'.seq2),
                    unique_seq3 |-> Cardinality(seen'.seq3) ]) ]
             /\ files' = Tail(files)
             /\ UNCHANGED <<paths, options, removed, listed, csv, png, exit>>

\* A mutant: the report starts once the last path is listed.
all_read_early == Len(listed) = Len(paths)

all_read == files = <<>> /\ Len(listed) = Len(paths)

\* The rest of main: plateaus, CSV, picture.  Without matplotlib the CSV is
\* written and the status is 2 all the same.
Report ==
  /\ exit = "running" /\ all_read
  /\ LET extended == [ i \in 1..Len(paths) |->
                         extend_rows_to_duration(rows_by_input[i], options.extend_to) ]
     IN /\ rows_by_input' = extended
        /\ csv' = IF options.csv THEN FlattenSeq(extended) ELSE csv
  /\ png' = (~options.no_plot /\ options.matplotlib)
  /\ exit' = IF options.no_plot \/ options.matplotlib THEN "0" ELSE "2"
  /\ UNCHANGED <<paths, options, removed, listed, files, seen>>

Next == RemoveFile \/ ListFiles \/ CountFile \/ Report

Spec == Init /\ [][Next]_vars

-----------------------------------------------------------------------------
(* Properties.                                                             *)

Complete(i) == i < Len(listed) \/ files = <<>>
Done == { i \in 1..Len(listed) : Complete(i) }

\* plot_feedback.py:103-110: keeping only the points where a metric changes
\* "preserves the growth curve while avoiding [...] backtracking line segments".
CurvesKept ==
  \A i \in Done, m \in Metrics : CurveKept(rows_by_input[i], m)

\* plot_feedback.py:145-152, 185-193: the time to saturation is that of the
\* drawn curve, and the plateau of --extend-to does not move it.
SaturationTimes ==
  \A i \in Done, m \in Metrics : SaturatesOnce(rows_by_input[i], m, options.extend_to)

\* What the files of a queue found up to a time.
DiscoveredBy(found, t) ==
  Analysis!aggregate({ Analysis!summarize_case(f.data, [timed_out |-> TRUE]) :
    f \in { g \in found : queue_entry_seconds(g, start_time(found)) <= t } })

Times(found) == { queue_entry_seconds(f, start_time(found)) : f \in found }

\* plot_feedback.py:57-97: whatever the names, the modification times and the
\* order of the directory, a curve shows at every time what the testcases
\* queued up to then have found; at its end, what analyze_queue.py reports.
CurveIsDiscovery ==
  \A i \in Done, m \in Metrics :
    \A t \in Times(listed[i]) :
      ShownAt(AllPoints(rows_by_input[i], m), t) = DiscoveredBy(listed[i], t)[m]

\* analyze_queue.py:100-107: the output root, the instance directory and the
\* queue of a single-instance campaign name the same testcases.
NamedAnyWay ==
  \A i, j \in Done :
    (/\ removed = {} /\ paths[i].campaign = paths[j].campaign
     /\ {paths[i].at, paths[j].at} \subseteq {"root", "instance", "queue"}
     /\ paths[i].campaign.instance = "default")
      => rows_by_input[i] = rows_by_input[j]

\* plot_feedback.py:267-277: a CSV or a picture is of whole queues: no series in it
\* lacks a testcase that was listed, even when files vanish under the script.
ReportsAllOrNothing ==
  (csv # NoCsv \/ png \/ exit = "0") =>
    /\ Len(rows_by_input) = Len(paths)
    /\ \A i \in 1..Len(paths) :
         \/ rows_by_input[i] = <<>> /\ listed[i] = {}
         \/ /\ rows_by_input[i] # <<>>
            /\ Last(rows_by_input[i]).queued_files = Cardinality(listed[i])
================================================================================
