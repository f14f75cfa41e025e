\* Two testcases, up to three events in a replay, a ring buffer of two, one interruption.
SPECIFICATION Spec
CONSTANTS
  cgroup_attach = cgroup_attach
  openat = openat
  Events <- MCEvents
  SubsystemOf <- MCSubsystemOf
  Queue = 2
  OldTraces <- MCOldTraces
  NoTrace = NoTrace
  Header = Header
  BufferSize = 2
  MaxEvents = 3
  MaxAttempts = 2
INVARIANTS
  TraceIsOfTheReplay
  RowsAreOfThisAttempt
  ScoreIsWorth
PROPERTIES
  AnalysisEnds
CHECK_DEADLOCK FALSE
