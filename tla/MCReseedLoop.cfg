\* Selections over one round, restarts over two.
SPECIFICATION Spec
CONSTANTS
  cgroup_attach = cgroup_attach
  openat = openat
  read = read
  Events <- MCEvents
  SubsystemOf <- MCSubsystemOf
  Experiments <- MCExperiments
  InitialSeeds <- MCInitialSeeds
  NoCsv = NoCsv
  NoSummary = NoSummary
INVARIANTS
  PreselectionRepresents
  ShapeStandsForRun
  SignatureIsObserved
  FamiliesKept
  SeedsOfTheRoundBefore
  SummaryOfWholeRounds
CHECK_DEADLOCK FALSE
