---------------------------- MODULE MCTraceScoring ----------------------------
(***************************************************************************)
(* Two testcases, one event with a subsystem's prefix and one without,     *)
(* up to three of them in a replay, a buffer of two, one interruption.     *)
(***************************************************************************)
EXTENDS TraceScoring

CONSTANTS cgroup_attach, openat

MCEvents == {cgroup_attach, openat}
MCSubsystemOf == [e \in MCEvents |-> IF e = cgroup_attach THEN "cgroup" ELSE "none"]
MCOldTraces == {NoTrace, <<Header, openat, cgroup_attach>>}
================================================================================
