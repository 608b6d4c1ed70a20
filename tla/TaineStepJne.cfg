SPECIFICATION Spec
CONSTANTS
  Half = 16
  HeapSize = 8
  HeapAddrs = {"h"}
  Program <- MCProgram
  Junk <- MCJunk
  Leftovers <- MCLeftovers
  MaxSteps = 2
INVARIANT JneTaken
CHECK_DEADLOCK FALSE
