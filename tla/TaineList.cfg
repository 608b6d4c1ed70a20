SPECIFICATION Spec
SYMMETRY Symmetry
CONSTANTS
  MaxPid = 2
  MaxAddr = 2
  Pids = {p1, p2, p3}
  Codes = {a, b, c}
  MaxNum = 2
  MaxAnalysed = 4
INVARIANTS
  ListedWasAnalysed
  OneEntryPerPid
PROPERTIES
  LiveLosesOnlyWhenFull
  LosesLeastHit
CHECK_DEADLOCK FALSE
