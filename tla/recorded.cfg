SPECIFICATION Spec
CONSTANTS
  Clients <- TwoClients
  Growing <- First
  Length = 1
  RealTime = 1
  Tries = 2
  MaxCalls = 4
  MaxLosses = 1
  MaxTime = 2
  MaxEvents = 1
INVARIANTS TypeOK ReadsRightBytes PositionsAgree NoOpenFiles GoesOn PausesAreCounted
CHECK_DEADLOCK FALSE
