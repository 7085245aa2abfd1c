SPECIFICATION Spec
CONSTANTS
  Day = 6
  MaxDiff = 1
  Wide = 16
  Lifetimes <- TheLifetimes
  Slots <- TheSlots
  FirstId = 100
  MaxRecs = 2
  MaxRules = 2
  MaxCalls = 2
  MaxEvents = 2
  IgnoreDuplicates = TRUE
  ChannelFirst = TRUE
  Malformed = FALSE
INVARIANTS TypeOK KodiAgrees RightTimer StopsGracefully DeletedIsGone ShownAsSet
CHECK_DEADLOCK FALSE
