SPECIFICATION FairSpec
CONSTANTS
  MaxSize = 4
  MaxDepth = 3
  MaxCycle = 2
  Page = 16
  Before = 1
  After = 2
  Branch = 1
  MaxCode = 4
  MaxLen = 2
  Starts = {2, 9}
  Subs = {2, 3, 9}
INVARIANTS
  OwnPath
  AttackIsHandedUp
  CopiesAccounted
  NullIsSecondFork
  CallsAdvance
  JudgesMissedBranch
  EndsClean
PROPERTY AnalysisEnds
CHECK_DEADLOCK FALSE
