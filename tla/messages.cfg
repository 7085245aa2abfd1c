SPECIFICATION Spec
CONSTANTS
  Long = 2
  Short = 1
  Entries <- ThePackets
  Poppers = {"kodi", "flush"}
  MaxSize = 100
  Encode <- TheBytes
  Decode <- TheMessage
  Samples <- TheSamples
  MaxSent = 2
  MaxRequests = 2
  MaxLosses = 1
INVARIANTS HandedOnAsSent OneOwner NobodySleeps
CHECK_DEADLOCK FALSE
