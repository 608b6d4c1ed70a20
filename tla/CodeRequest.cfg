SPECIFICATION FairSpec
CONSTANTS
  Workers = {w1, w2}
  Others = {o1}
  NumIds = 1
  QCap = 2
  MaxJobs = 3
INVARIANTS
  OwnEntry
  OwnReplies
PROPERTIES
  RequestEnds
  StopEndsWithExit
CHECK_DEADLOCK FALSE
