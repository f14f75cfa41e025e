SPECIFICATION ReplaySpec
CONSTANTS
  Inputs <- MCInputs
  Numeral <- MCNumeral
  IntMin <- MCIntMin
  IntMax = 65535
  Queues <- MCQueues
PROPERTIES
  ReplaysAllOrNothing
  AnalysisEnds
\* The analysis ends with the last file of the queue.
CHECK_DEADLOCK FALSE
