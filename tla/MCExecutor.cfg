SPECIFICATION Spec
CONSTANTS
  Campaign = c1
  Procs <- MCProcs
  Inputs <- MCInputs
  Builds <- MCBuilds
  FeatureHash <- MCFeatureHash
  MaxInput = 8
  MaxOps = 2
  MapSize = 3
  CellMod = 256
  MaxRuns = 5
INVARIANTS
  NothingHeldBetweenOps
  ErrnoOfTheFailure
  SelfHealing
  AnalysisMatchesFeedback
CHECK_DEADLOCK FALSE
