SPECIFICATION Spec
CONSTANTS
  Base = c1
  Fb = c2
  Procs <- MCProcs
  Inputs <- MCInputs
  Builds <- MCBuilds
  FeatureHash <- MCFeatureHash
  MaxInput = 8
  MaxOps = 1
  MapSize = 2
  CellMod = 256
  MaxRuns = 2
INVARIANT
  CampaignsIndependent
CHECK_DEADLOCK FALSE
