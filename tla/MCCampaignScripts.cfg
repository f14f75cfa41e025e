\* Two terminals, four scripts typed in all.
SPECIFICATION Spec
CONSTANTS
  Terminals = {t1, t2}
  NoFile = NoFile
  MaxScripts = 4
SYMMETRY Symmetry
INVARIANTS
  TargetsOfTheirKind
  CleanSlate
CHECK_DEADLOCK FALSE
