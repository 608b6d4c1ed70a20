SPECIFICATION Spec
CONSTANTS
  Half = 16
  HeapSize = 8
  HeapAddrs = {"h"}
  Program <- MCProgram
  Junk <- MCJunk
  Leftovers <- MCLeftovers
  MaxSteps = 2
INVARIANTS
  JudgesWhatItDependsOn
  AnswersSettled
PROPERTY ImplementsStore
CHECK_DEADLOCK FALSE
