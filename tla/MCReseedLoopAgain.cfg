\* The claim about the next seeds, under a second start on the same directory.
SPECIFICATION Spec
CONSTANTS
  cgroup_attach = cgroup_attach
  openat = openat
  read = read
  Events <- MCEvents
  SubsystemOf <- MCSubsystemOf
  Experiments <- MCExperiments
  InitialSeeds <- MCInitialSeeds
  NoCsv = NoCsv
  NoSummary = NoSummary
INVARIANTS
  OnlySelectedSeeds
CHECK_DEADLOCK FALSE
