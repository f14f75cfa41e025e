\* Two references to one campaign, at most one testcase removed meanwhile.
SPECIFICATION Spec
CONSTANTS
  NoTime = NoTime
  CommandLines <- MCCommandLines
  Options <- MCOptions
  MaxOps = 3
  MaxRemoved = 1
  NoCsv = NoCsv
INVARIANTS
  CurvesKept
  SaturationTimes
  CurveIsDiscovery
  NamedAnyWay
  ReportsAllOrNothing
CHECK_DEADLOCK FALSE
