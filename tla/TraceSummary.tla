----------------------------- MODULE TraceSummary -----------------------------
(***************************************************************************)
(* PoC three's trace arithmetic: what scripts/analyze_trace.py reads in a  *)
(* trace, how scripts/analyze_queue.py scores it, and what the reports     *)
(* (summarize_experiments.py, compare_queue_runs.py) make of the rows.     *)
(* An event is a member of Events; SubsystemOf tells under which of        *)
(* PREFIXES its name falls.  A trace is a sequence of lines, of which      *)
(* those that name no event (headers) are outside Events.                  *)
(***************************************************************************)
EXTENDS Integers, Sequences, FiniteSets, FiniteSetsExt, SequencesExt

CONSTANTS Events, SubsystemOf

ASSUME SubsystemAssumption ==
  SubsystemOf \in [Events -> {"cgroup", "vfs", "proc_sysfs", "socket_netlink", "none"}]

Subsystems == {"cgroup", "vfs", "proc_sysfs", "socket_netlink"}
PREFIXES == [ s \in Subsystems |-> { e \in Events : SubsystemOf[e] = s } ]

\* The elements of a sequence at some of its positions, in order.
at(positions, s) ==
  [ n \in 1..Cardinality(positions) |->
      s[CHOOSE i \in positions : Cardinality({ j \in positions : j < i }) = n - 1] ]

\* The sum of a sequence of numbers.
total(numbers) ==
  LET sum[n \in 0..Len(numbers)] == IF n = 0 THEN 0 ELSE sum[n - 1] + numbers[n]
  IN sum[Len(numbers)]

parse_trace(lines) == at({ i \in DOMAIN lines : lines[i] \in Events }, lines)

summarize(funcs) ==
  [ events |-> ToSet(funcs),
    event_pairs |-> { <<funcs[i], funcs[i + 1]>> : i \in 1..(Len(funcs) - 1) },
    subsystem_functions |-> [ s \in Subsystems |-> ToSet(funcs) \intersect PREFIXES[s] ] ]

\* What the loop of analyze_queue.py has seen so far.
NothingSeen == [events |-> {}, pairs |-> {}, subsystems |-> [s \in Subsystems |-> {}]]

seen_with(seen, summary) ==
  [ events |-> seen.events \union summary.events,
    pairs |-> seen.pairs \union summary.event_pairs,
    subsystems |-> [ s \in Subsystems |->
                       seen.subsystems[s] \union summary.subsystem_functions[s] ] ]

Points == [cgroup |-> 25, vfs |-> 20, socket_netlink |-> 20, proc_sysfs |-> 15]

\* The points for functions of every subsystem.
subsystem_points(functions) ==
  LET worth(s) == Points[s] * Cardinality(functions[s])
  IN worth("cgroup") + worth("vfs") + worth("socket_netlink") + worth("proc_sysfs")

\* A mutant: the subsystem points are given again for events seen before.
score_again(summary, seen) ==
  10 * Cardinality(summary.events \ seen.events)
  + subsystem_points(summary.subsystem_functions)
  + 5 * Cardinality(summary.event_pairs \ seen.pairs)

score(summary, seen) ==
  10 * Cardinality(summary.events \ seen.events)
  + subsystem_points([ s \in Subsystems |-> summary.subsystem_functions[s] \ seen.events ])
  + 5 * Cardinality(summary.event_pairs \ seen.pairs)

\* What a row of the report holds.
Rows ==
  [ score : Nat, new_events : Nat, new_event_pairs : Nat,
    total_seen_events : Nat, total_seen_event_pairs : Nat, total_seen : [Subsystems -> Nat] ]

\* A row of the report, given what had been seen before it.
row(summary, seen) ==
  LET now == seen_with(seen, summary) IN
    [ score |-> score(summary, seen),
      new_events |-> Cardinality(summary.events \ seen.events),
      new_event_pairs |-> Cardinality(summary.event_pairs \ seen.pairs),
      total_seen_events |-> Cardinality(now.events),
      total_seen_event_pairs |-> Cardinality(now.pairs),
      total_seen |-> [ s \in Subsystems |-> Cardinality(now.subsystems[s]) ] ]

\* summarize_experiments.py, of a CSV that has rows.
queue_row(rows) ==
  [ unique_events |-> Last(rows).total_seen_events,
    unique_event_pairs |-> Last(rows).total_seen_event_pairs,
    subsystems |-> Last(rows).total_seen,
    queue_inputs |-> Len(rows),
    final_score |-> total([ i \in DOMAIN rows |-> rows[i].score ]) ]

\* compare_queue_runs.py, of the same CSV.
compared(rows) ==
  [ queue_inputs |-> Len(rows),
    unique_events |-> Last(rows).total_seen_events,
    unique_event_pairs |-> Last(rows).total_seen_event_pairs,
    aggregate_score |-> total([ i \in DOMAIN rows |-> rows[i].score ]),
    subsystems |-> Last(rows).total_seen ]

\* score_key, compared as tuples are.
score_key(r) == <<r.unique_events, r.unique_event_pairs, r.final_score>>

below(a, b) ==
  \E i \in DOMAIN a : a[i] < b[i] /\ \A j \in 1..(i - 1) : a[j] = b[j]

\* A mutant: the round with the highest score, whatever it has seen.
best_round_by_score(csvs) ==
  Min({ r \in DOMAIN csvs : \A q \in DOMAIN csvs :
          queue_row(csvs[q]).final_score <= queue_row(csvs[r]).final_score })

\* max(rows, key=score_key): the first of the best rounds.
best_round(csvs) ==
  Min({ r \in DOMAIN csvs :
          \A q \in DOMAIN csvs : ~below(score_key(queue_row(csvs[r])), score_key(queue_row(csvs[q]))) })
================================================================================
