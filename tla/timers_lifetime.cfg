SPECIFICATION Spec
CONSTANTS
  Day = 6
  MaxDiff = 1
  Wide = 16
  Lifetimes <- TheLifetimes
  Slots <- TheSlots
  FirstId = 100
  MaxRecs = 2
  MaxRules = 2
  MaxCalls = 1
  MaxEvents = 0
  IgnoreDuplicates = TRUE
  ChannelFirst = TRUE
  Malformed = FALSE
INVARIANTS LifetimeKept
CHECK_DEADLOCK FALSE
