----------------------------- MODULE TraceScoring -----------------------------
(***************************************************************************)
(* PoC three's scripts/analyze_queue.py at work: it replays the testcases  *)
(* of a queue in order, each under a new scripts/collect_ftrace.sh, and    *)
(* scores the traces the collectors leave.  The kernel's tracing is shared *)
(* by the whole host and outlives every process; so do the trace files.    *)
(* The operator may interrupt the analysis anywhere and start it again,    *)
(* with or without the root rights the collector wants.                    *)
(***************************************************************************)
EXTENDS TraceSummary

CONSTANTS
  Queue,               \* number of testcases, named 1..Queue in sorted order
  Header,              \* a line of a trace that names no event
  OldTraces,           \* what a trace file of an earlier analysis may hold
  NoTrace,             \* no trace file
  BufferSize,          \* lines the kernel's ring buffer holds
  MaxEvents,           \* bound: events of one replay
  MaxAttempts          \* bound: times the analysis is started

Lines == Events \union {Header}

ASSUME BoundsAssumption ==
  /\ Queue \in Nat /\ BufferSize \in Nat /\ MaxEvents \in Nat /\ MaxAttempts \in Nat \ {0}
  /\ Header \notin Events
  /\ OldTraces \subseteq Seq(Lines) \union {NoTrace}

VARIABLES
  tracing_on, buffer,  \* the kernel's switch and trace
  trace_files,         \* of every testcase
  root, attempt,       \* may the collector trace; how often the analysis started
  step, testcase,      \* where the analysis is
  seen, rows,          \* its seen_* sets and its rows
  csv,                 \* the report; NoTrace while there is none of this attempt
  emitted,             \* history: the events of the replay under way
  replayed             \* history: testcases replayed in this attempt

kernel == <<tracing_on, buffer>>
analysis == <<root, attempt, seen, rows, csv>>
vars == <<kernel, trace_files, analysis, step, testcase, emitted, replayed>>

Init ==
  /\ tracing_on \in BOOLEAN /\ buffer = <<>>
  /\ trace_files \in [1..Queue -> OldTraces]
  /\ root \in BOOLEAN /\ attempt = 1
  /\ step = "next" /\ testcase = 1 /\ seen = NothingSeen /\ rows = <<>> /\ csv = NoTrace
  /\ emitted = <<>> /\ replayed = {}

\* The newest events of a sequence, as many as the ring buffer holds.
newest(s) == IF Len(s) <= BufferSize THEN s
             ELSE SubSeq(s, Len(s) - BufferSize + 1, Len(s))

\* Something the filters let through happens on the host: the replayed
\* command, what an earlier one left running, or anything else.
Emit ==
  /\ tracing_on /\ Len(emitted) < MaxEvents
  /\ \E e \in Events :
       /\ buffer' = newest(Append(buffer, e))
       /\ emitted' = IF step \in {"replay", "stop"} THEN Append(emitted, e) ELSE emitted
  /\ UNCHANGED <<tracing_on, trace_files, analysis, step, testcase, replayed>>

Step(from, to) == step = from /\ step' = to

\* A mutant: only testcases that have no trace yet are replayed.
collector_traces_once == root /\ trace_files[testcase] = NoTrace

collector_traces == root

\* The next testcase: the container is reset, whether or not that works, and
\* the collector is started; without root it touches nothing.
StartCollector ==
  /\ testcase <= Queue
  /\ Step("next", IF collector_traces THEN "off" ELSE "score")
  /\ UNCHANGED <<kernel, trace_files, analysis, testcase, emitted, replayed>>

TracingOff ==
  /\ Step("off", "clear")
  /\ tracing_on' = FALSE
  /\ UNCHANGED <<buffer, trace_files, analysis, testcase, emitted, replayed>>

\* A mutant: the trace is not truncated.
cleared_trace_kept == buffer

cleared_trace == <<>>

ClearTrace ==
  /\ Step("clear", "on")
  /\ buffer' = cleared_trace
  /\ UNCHANGED <<tracing_on, trace_files, analysis, testcase, emitted, replayed>>

\* Tracing is switched on and the command is started.
Replay ==
  /\ Step("on", "replay")
  /\ tracing_on' = TRUE /\ emitted' = <<>>
  /\ UNCHANGED <<buffer, trace_files, analysis, testcase, replayed>>

\* The command ends by itself, or it never does.
CommandEnds ==
  /\ Step("replay", "stop")
  /\ UNCHANGED <<kernel, trace_files, analysis, testcase, emitted, replayed>>

\* A mutant: REPLAY_TIMEOUT=0, no timeout.
time_is_up_never == FALSE

time_is_up == step = "replay"

\* timeout ends the command, with SIGKILL if it has to.
TimeoutEnds ==
  /\ time_is_up /\ Step("replay", "stop")
  /\ UNCHANGED <<kernel, trace_files, analysis, testcase, emitted, replayed>>

StopTracing ==
  /\ Step("stop", "save")
  /\ tracing_on' = FALSE
  /\ UNCHANGED <<buffer, trace_files, analysis, testcase, emitted, replayed>>

\* What reading the kernel's trace gives.
trace_text == <<Header>> \o buffer

SaveTrace ==
  /\ Step("save", "score")
  /\ trace_files' = [trace_files EXCEPT ![testcase] = trace_text]
  /\ replayed' = replayed \union {testcase}
  /\ UNCHANGED <<kernel, analysis, testcase, emitted>>

\* The collector's status is not looked at: whatever trace file there is is
\* scored, and without one the analysis dies with a traceback.
Score ==
  /\ step = "score"
  /\ IF trace_files[testcase] = NoTrace
       THEN step' = "dead" /\ UNCHANGED <<seen, rows, testcase>>
       ELSE LET summary == summarize(parse_trace(trace_files[testcase]))
            IN /\ rows' = Append(rows, row(summary, seen))
               /\ seen' = seen_with(seen, summary)
               /\ testcase' = testcase + 1
               /\ step' = "next"
  /\ UNCHANGED <<kernel, trace_files, root, attempt, csv, emitted, replayed>>

\* All testcases are scored: JSON and CSV.
WriteReport ==
  /\ Step("next", "done") /\ testcase > Queue
  /\ csv' = rows
  /\ UNCHANGED <<kernel, trace_files, root, attempt, seen, rows, testcase, emitted, replayed>>

\* The analysis and its collector are interrupted, and started again; a trace
\* that was being saved is cut short.
Interrupt ==
  /\ attempt < MaxAttempts /\ step # "done"
  /\ attempt' = attempt + 1 /\ root' \in BOOLEAN
  /\ step' = "next" /\ testcase' = 1 /\ seen' = NothingSeen /\ rows' = <<>> /\ csv' = NoTrace
  /\ emitted' = <<>> /\ replayed' = {}
  /\ \/ UNCHANGED trace_files
     \/ /\ step = "save"
        /\ \E n \in 0..Len(trace_text) :
             trace_files' = [trace_files EXCEPT ![testcase] = SubSeq(trace_text, 1, n)]
  /\ UNCHANGED kernel

Collector == TracingOff \/ ClearTrace \/ Replay \/ TimeoutEnds \/ StopTracing \/ SaveTrace

Analyzer == StartCollector \/ Collector \/ Score \/ WriteReport

Next == Emit \/ CommandEnds \/ Analyzer \/ Interrupt

\* The scripts run on, and the timeout of the collector does not wait for the
\* command; nobody promises that a command ends.
Spec == Init /\ [][Next]_vars /\ WF_vars(Analyzer)

-----------------------------------------------------------------------------
(* Properties.                                                             *)

TypeOK ==
  /\ tracing_on \in BOOLEAN /\ root \in BOOLEAN
  /\ buffer \in Seq(Events) /\ emitted \in Seq(Events)
  /\ trace_files \in [1..Queue -> Seq(Lines) \union {NoTrace}]
  /\ attempt \in 1..MaxAttempts /\ testcase \in 1..(Queue + 1)
  /\ replayed \subseteq 1..Queue
  /\ step \in {"next", "off", "clear", "on", "replay", "stop", "save", "score", "done", "dead"}

\* collect_ftrace.sh:26-39: what is saved is what happened from the moment
\* tracing was switched on for this testcase to the moment it was switched
\* off, as far as the kernel's buffer holds it, and nothing else: nothing of
\* an earlier replay, of the reset before it or of the time an interrupted
\* collector left tracing on.
TraceIsOfTheReplay ==
  (root /\ step = "score") => trace_files[testcase] = <<Header>> \o newest(emitted)

\* analyze_queue.py:76-82: with a collector that can trace, every row is of a
\* replay of this attempt, never of a trace an earlier analysis left.
RowsAreOfThisAttempt ==
  root => 1..Len(rows) \subseteq replayed

\* The points of everything a set of traces holds.
Worth(traces) ==
  LET summaries == { summarize(parse_trace(t)) : t \in traces }
      events == UNION { s.events : s \in summaries }
  IN 10 * Cardinality(events)
     + subsystem_points([ s \in Subsystems |-> events \intersect PREFIXES[s] ])
     + 5 * Cardinality(UNION { s.event_pairs : s \in summaries })

\* analyze_queue.py:23-40, summarize_experiments.py:56-76, compare_queue_runs.py:17-32:
\* the aggregate score of a report is the worth of its traces together: it
\* counts each event and each pair once, so that it does not depend on the
\* order of the queue, and both reports say the same of it.
ScoreIsWorth ==
  rows # <<>> =>
    LET traces == { trace_files[n] : n \in 1..Len(rows) }
        events == UNION { ToSet(parse_trace(t)) : t \in traces }
    IN /\ queue_row(rows).final_score = Worth(traces)
       /\ compared(rows).aggregate_score = Worth(traces)
       /\ queue_row(rows).unique_events = Cardinality(events)
       /\ \A s \in Subsystems :
            compared(rows).subsystems[s] = Cardinality(events \intersect PREFIXES[s])

\* collect_ftrace.sh:29-35: a command that hangs does not keep the analysis
\* from its end: a report, or a traceback for want of a trace.
AnalysisEnds == <>(step \in {"done", "dead"})
================================================================================
