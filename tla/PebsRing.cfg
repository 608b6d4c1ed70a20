SPECIFICATION FairSpec
CONSTANTS
 NumCpus = 2
 N = 3
 P = 1
 A = 2
 Pids = {p1}
 Codes = {a}
 MaxRec = 4
PROPERTIES
 SettledKeepsAll
 SettledIsRead
CHECK_DEADLOCK FALSE
