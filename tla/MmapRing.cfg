SPECIFICATION FairSpec
CONSTANTS
  M = 4
  Readers = {r1, r2}
  MaxMsg = 5
INVARIANTS
  TypeOK
  NoDataRace
  RoomAfterJudge
PROPERTIES
  ImplementsChannel
  EveryMessageRead
CHECK_DEADLOCK FALSE
