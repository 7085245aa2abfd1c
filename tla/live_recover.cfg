SPECIFICATION Spec
CONSTANTS
  MaxCalls = 2
  MaxLosses = 1
  MaxNet = 1
  MaxBuffer = 1
  Calls = {"open", "close", "seek", "speed"}
  Events = {"stall", "timeout"}
CHECK_DEADLOCK FALSE
PROPERTY ComesBack
