SPECIFICATION Spec
CONSTANTS
  MaxCalls = 4
  MaxLosses = 0
  MaxNet = 2
  MaxBuffer = 2
  Calls <- AllCalls
  Events = {"abort", "refuse"}
CHECK_DEADLOCK FALSE
INVARIANTS TypeOK NoStalePackets NoOrphans
