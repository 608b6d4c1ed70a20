SPECIFICATION Spec
SYMMETRY Symmetry
CONSTANTS
 NumCpus = 2
 N = 3
 P = 2
 A = 1
 Pids = {p1, p2, p3}
 Codes = {a}
 MaxRec = 3
INVARIANTS
 OneSlotPerPart
 TableIsPublished
CHECK_DEADLOCK FALSE
