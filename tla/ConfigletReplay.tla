-------------------------- MODULE ConfigletReplay --------------------------
(***************************************************************************)
(* PoC two's scripts/analyze_queue.py: analyze replays the files of a      *)
(* queue one after the other, each in a fresh process of the target with a *)
(* log file of its own, and a second for each.                             *)
(***************************************************************************)
EXTENDS Configlet

CONSTANT Queues        \* queue directories, sorted

ASSUME QueuesAssumption == Queues \subseteq Seq(Inputs)

VARIABLES
  queue, replayed,     \* the files, and how many are done
  tmp,                 \* the log file of the replay under way; NoFile between them
  leaked,              \* log files that were never unlinked
  discovered           \* all_features, all_combos and all_deps

analyzerVars == <<queue, replayed, tmp, leaked, discovered>>
vars == <<targetVars, analyzerVars>>

NoFile == << <<"no file">> >>

ReplayInit ==
  /\ Init
  /\ queue \in Queues
  /\ replayed = 0 /\ tmp = NoFile /\ leaked = 0 /\ discovered = {}

\* A mutant: one long-lived process reads file after file and starts each with
\* the configuration the last one left.
fresh_process_kept ==
  /\ pc' = "idle" /\ input' = <<>> /\ out' = "none"
  /\ block' = 0 /\ unlocked' = {} /\ log' = <<>>
  /\ line' = 0
  /\ UNCHANGED configVars

\* A new process for every file: nothing of the last one's memory is left.
fresh_process ==
  /\ pc' = "idle" /\ input' = <<>> /\ out' = "none"
  /\ block' = 0 /\ unlocked' = {} /\ log' = <<>>
  /\ line' = 0
  /\ flag' = [k \in FlagKeys |-> FALSE]
  /\ enum' = EnumDefault
  /\ int' = [k \in IntKeys |-> 0]
  /\ tx_step' = 0 /\ tx_sequence' = FALSE

next_file ==
  /\ replayed' = replayed + 1
  /\ tmp' = NoFile
  /\ fresh_process
  /\ UNCHANGED queue

\* A temporary file is created, then the target is started on the testcase.
RunInput ==
  /\ tmp = NoFile /\ replayed < Len(queue)
  /\ tmp' = <<>>
  /\ Main(queue[replayed + 1]) \/ MainFails
  /\ UNCHANGED <<queue, replayed, leaked, discovered>>

\* The target cannot be executed: the file is skipped, its log file stays.
CannotRun ==
  /\ tmp = NoFile /\ replayed < Len(queue)
  /\ leaked' = leaked + 1
  /\ next_file
  /\ UNCHANGED discovered

\* The target goes on; its log is buffered until feedback_close.
TargetRuns ==
  /\ tmp # NoFile
  /\ Target
  /\ tmp' = IF pc' = "exited" /\ out = "file" THEN tmp \o log ELSE tmp
  /\ UNCHANGED <<queue, replayed, leaked, discovered>>

\* A mutant: subprocess.run without a timeout waits for the target to exit.
wait_is_over_at_exit == tmp # NoFile /\ pc = "exited"

\* subprocess.run waits for the target, but a second at most.
wait_is_over == tmp # NoFile

\* TimeoutExpired: the target is killed, the exception leaves run_input before
\* the log is read or unlinked, and analyze goes on with the next file.
TimeoutExpired ==
  /\ wait_is_over
  /\ leaked' = leaked + 1
  /\ next_file
  /\ UNCHANGED discovered

\* The log is read, the file unlinked.
Collect ==
  /\ tmp # NoFile /\ pc = "exited"
  /\ discovered' = discovered \union { tmp[n] : n \in 1..Len(tmp) }
  /\ UNCHANGED leaked
  /\ next_file

ReplayNext == RunInput \/ CannotRun \/ TargetRuns \/ TimeoutExpired \/ Collect

\* The analyzer is a loop that starts every replay, and the timeout of
\* subprocess.run ends each of them, whatever the target does.
ReplaySpec ==
  /\ ReplayInit /\ [][ReplayNext]_vars
  /\ WF_vars(RunInput \/ CannotRun)
  /\ WF_vars(TimeoutExpired \/ Collect)

-----------------------------------------------------------------------------
(* Properties.                                                             *)

Oracle == INSTANCE ReplayOracle WITH Covers <- Coverage

\* analyze_queue.py:96-105: a replay counts a testcase with all of its coverage or not at all, never
\* with the part a killed run had logged or with what another run left.
ReplaysAllOrNothing == Oracle!Spec

\* analyze_queue.py:66 timeout=1: the analysis comes to its end even when the
\* target hangs on every file.
AnalysisEnds == <>(replayed = Len(queue))
=============================================================================
