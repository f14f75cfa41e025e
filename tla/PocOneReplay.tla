---------------------------- MODULE PocOneReplay ----------------------------
(***************************************************************************)
(* The exerciser beside the offline analysis of the file it executes: the  *)
(* numbers analyze_queue.py and plot_feedback.py report about a corpus     *)
(* stand for what the feedback build showed AFL++ while it ran.            *)
(***************************************************************************)
EXTENDS SyscallExerciser

Analysis == INSTANCE QueueAnalysis WITH MAX_OPS <- MaxOps

analysed(p) ==
  Analysis!summarize_case(buf[p], [timed_out |-> FALSE, stderr |-> trace[p]])

\* For a run that reached its end, the offline analysis finds exactly the
\* features the target recorded: the two decoders, the two operation tables
\* and the two derivations of errno agree.  For a run SIGALRM killed, the
\* script counts the whole file, so it may report more n-grams than were
\* recorded, but never fewer; the trace lines, of a part of the file, name no
\* error that was not recorded (the last one recorded may have no line yet).
AnalysisMatchesFeedback ==
  \A p \in Procs : (build[p].feedback /\ pc[p] \in {"exited", "killed"}) =>
    LET a == analysed(p)
        static == a.syscalls \union a.seq2 \union a.seq3
    IN IF pc[p] = "exited"
         THEN seen[p] = static \union a.syscall_errno
         ELSE /\ { f \in seen[p] : f[1] # "ERRNO" } \subseteq static
              /\ a.syscall_errno \subseteq seen[p]
=============================================================================
