SPECIFICATION FairSpec
CONSTANTS
  Clients = {c1}
  Reg = reg
  Queries = 2
  MaxSeq = 1
  Events = {"loss", "unreachable", "error", "stop", "calm"}
INVARIANTS ReadyIsReported
PROPERTIES CallsReturn StopEnds Recovers
\* After Stop the connection thread has ended and the bound allows no new call.
CHECK_DEADLOCK FALSE
