------------------------------ MODULE GrowthCurve ------------------------------
(***************************************************************************)
(* The curves PoC one's scripts/plot_feedback.py draws: the time of a      *)
(* queue file, the order files are read in, and what is kept of a series   *)
(* of rows.  A row is a record with the field seconds and one field for    *)
(* each metric.  Times are integers; a file whose name carries no time:    *)
(* field has afl = NoTime.  PoC two's script has a copy of each function.  *)
(***************************************************************************)
EXTENDS Integers, Sequences, FiniteSetsExt, SequencesExt

CONSTANT NoTime        \* "None": no time in the name, no --extend-to

queue_entry_seconds(file, mtime_start) ==
  IF file.afl = NoTime THEN file.mtime - mtime_start ELSE file.afl

\* min(..., default=0.0) over the files listed
start_time(files) == IF files = {} THEN 0 ELSE Min({ f.mtime : f \in files })

\* The sort key, compared from left to right; names in a directory differ.
before(f, g, start) ==
  LET s == queue_entry_seconds(f, start)
      t == queue_entry_seconds(g, start)
  IN \/ s < t
     \/ s = t /\ f.mtime < g.mtime
     \/ s = t /\ f.mtime = g.mtime /\ f.name < g.name

\* The elements of S in an order of them, given as a set of pairs: the n-th
\* has n - 1 before it.
ordered(S, R) ==
  [ n \in 1..Cardinality(S) |-> CHOOSE x \in S : Cardinality({ y \in S : <<y, x>> \in R }) = n - 1 ]

\* A mutant: the files in the order the directory gives them.
in_time_order_by_name(files) == ordered(files, { p \in files \X files : p[1].name < p[2].name })

in_time_order(files) ==
  ordered(files, { p \in files \X files : before(p[1], p[2], start_time(files)) })

point(row, metric) == <<row.seconds, row[metric]>>

\* The first row and every row whose value differs from the one before it.
changes(rows, metric) ==
  { k \in 1..Len(rows) : k = 1 \/ rows[k][metric] # rows[k - 1][metric] }

\* Their points, in order.
change_points(rows, metric) ==
  LET kept == ordered(changes(rows, metric), { p \in (1..Len(rows)) \X (1..Len(rows)) : p[1] < p[2] })
  IN [ i \in DOMAIN kept |-> point(rows[kept[i]], metric) ]

\* A mutant: the curve ends at the last change.
metric_change_points_short(rows, metric) == change_points(rows, metric)

\* The changes, then the last row unless it is there already.
metric_change_points(rows, metric) ==
  LET points == change_points(rows, metric)
  IN IF rows # <<>> /\ Last(points) # point(Last(rows), metric)
       THEN Append(points, point(Last(rows), metric)) ELSE points

\* One series of rows_by_input.
extend_rows_to_duration(rows, duration) ==
  IF duration # NoTime /\ rows # <<>> /\ Last(rows).seconds < duration
    THEN Append(rows, [ Last(rows) EXCEPT !.seconds = duration ]) ELSE rows

\* A mutant: the time of the last point drawn.
saturation_seconds_last(rows, metric) ==
  IF rows = <<>> THEN 0
  ELSE Last(metric_change_points(rows, metric))[1]

saturation_seconds(rows, metric) ==
  IF rows = <<>> THEN 0
  ELSE rows[Min({ k \in 1..Len(rows) : rows[k][metric] = Last(rows)[metric] })].seconds

-----------------------------------------------------------------------------
(* What the curves are for; used by the properties only.                   *)

\* The value a step curve (where="post") shows at time t: that of the last
\* point at or before t, -1 before the first, where nothing is drawn.
ShownAt(points, t) ==
  LET reached == { i \in 1..Len(points) : points[i][1] <= t }
  IN IF reached = {} THEN -1 ELSE points[Max(reached)][2]

AllPoints(rows, metric) == [ i \in 1..Len(rows) |-> point(rows[i], metric) ]

\* The points kept draw the curve all rows would draw, from the same first to
\* the same last time, and never run backwards.
CurveKept(rows, metric) ==
  LET kept == metric_change_points(rows, metric)
      all == AllPoints(rows, metric)
  IN /\ \A i \in 1..Len(all) : ShownAt(kept, all[i][1]) = ShownAt(all, all[i][1])
     /\ rows # <<>> => kept[1] = all[1] /\ Last(kept) = Last(all)
     /\ \A i \in 2..Len(kept) : kept[i - 1][1] <= kept[i][1]

\* At the saturation time the curve shows the final value, at any earlier time
\* a smaller one; the plateau drawn up to the end of the campaign moves
\* neither the curve before it nor the saturation time.
SaturatesOnce(rows, metric, duration) ==
  LET sat == saturation_seconds(rows, metric)
      extended == extend_rows_to_duration(rows, duration)
      all == AllPoints(rows, metric)
  IN /\ saturation_seconds(extended, metric) = sat
     /\ rows # <<>> => /\ ShownAt(all, sat) = Last(rows)[metric]
                       /\ \A t \in 0..(sat - 1) : ShownAt(all, t) < Last(rows)[metric]
     /\ \A t \in 0..(IF rows = <<>> THEN 0 ELSE Last(rows).seconds) :
          ShownAt(AllPoints(extended, metric), t) = ShownAt(all, t)
     /\ rows # <<>> /\ duration # NoTime => Last(extended).seconds >= duration
================================================================================
