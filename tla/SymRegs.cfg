SPECIFICATION SymSpec
CONSTANTS
  Taints = {t}
  Registers <- MCRegisters
  MaxWrites <- MCMaxWrites
INVARIANTS
  NumbersAreTrue
  TaintKept
  HolesAreKnown
CHECK_DEADLOCK FALSE
