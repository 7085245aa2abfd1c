SPECIFICATION Spec
CONSTANTS
  Tuners = 2
  Channels <- TheChannels
  Numbers <- TheNumbers
  FirstList <- TheList
  CloseDelay = 1
  MaxTunes = 2
  MaxEvents = 1
  MaxTime = 3
INVARIANTS TypeOK NoDuplicates PlaysWhatWasAsked WeightOrder ServerAgrees
PROPERTIES ExpiredGoes
CHECK_DEADLOCK FALSE
