SPECIFICATION Spec
CONSTANTS
  Tags = {}
  Channels <- OneChannel
  Recordings = {}
  Programmes <- TheProgrammes
  Initially = {"c1"}
  GuideFrom = 0
  AsyncEpg = TRUE
  MaxConns = 2
  MaxChanges = 1
  Events = {"loss"}
INVARIANTS NoGhosts
CHECK_DEADLOCK FALSE
