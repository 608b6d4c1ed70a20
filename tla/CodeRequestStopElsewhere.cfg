SPECIFICATION FairSpec
CONSTANTS
  Workers = {w1, w2}
  Others = {o1}
  NumIds = 1
  QCap = 4
  MaxJobs = 1
PROPERTIES
  StopEnds
CHECK_DEADLOCK FALSE
