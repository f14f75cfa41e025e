\* Any replay may fail, at most one testcase is removed meanwhile.
SPECIFICATION Spec
CONSTANTS
  NoTime = NoTime
  NoTruth = NoTruth
  Paths <- MCPaths
  TruthFiles <- MCTruthFiles
  Durations <- MCDurations
  MaxRemoved = 1
INVARIANTS
  GrowthIsAnalysis
  CoverageWithinTruth
CHECK_DEADLOCK FALSE
