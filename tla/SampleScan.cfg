SPECIFICATION FairSpec
CONSTANTS
  Procs = {a, b}
  Size = 4
  Limit = 2
  Wrap = 8
  Samples <- MCSamples
INVARIANTS
  ScanIsComplete
  ChargedToItsOwner
PROPERTY ScanEnds
CHECK_DEADLOCK FALSE
