SPECIFICATION FairSpec
CONSTANT NumCpus = 2
INVARIANTS
  FaultHasCause
  SamplesIntoStore
  OffLeavesNothing
  OnMatchesWhatFailed
PROPERTY CommandEnds
CHECK_DEADLOCK FALSE
