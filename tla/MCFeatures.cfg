SPECIFICATION FairSpec
CONSTANTS
  Campaign = c1
  Procs <- MCProcs
  Inputs <- MCInputs
  Builds <- MCBuilds
  FeatureHash <- MCFeatureHash
  MaxInput = 16
  MaxOps = 3
  MapSize = 3
  CellMod = 12
  MaxRuns = 1
INVARIANTS
  TypeOK
  NgramFeatures
  MapKeepsFeatures
  IdZeroReserved
  AnalysisMatchesFeedback
PROPERTY
  EveryRunEnds
\* A campaign stops after its last run.
CHECK_DEADLOCK FALSE
