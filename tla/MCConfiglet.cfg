SPECIFICATION Spec
CONSTANTS
  Inputs <- MCInputs
  Numeral <- MCNumeral
  IntMin <- MCIntMin
  IntMax = 65535
INVARIANTS
  TypeOK
  TxSequenceExact
  LastWriterWins
  NumbersCompareAsWritten
  LoggedAfterItsFeatures
  LogIsCoverage
\* A process ends.
CHECK_DEADLOCK FALSE
