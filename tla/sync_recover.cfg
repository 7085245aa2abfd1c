SPECIFICATION FairSpec
CONSTANTS
  Tags <- TheTags
  Channels <- OneChannel
  Recordings <- TheRecordings
  Programmes = {}
  Initially = {"c1", "r1"}
  GuideFrom = 0
  AsyncEpg = TRUE
  MaxConns = 2
  MaxChanges = 1
  Events = {"loss", "timeout", "days"}
INVARIANTS TypeOK NothingMissed
PROPERTIES Synced
\* Once the last connection is in sync and the server's changes are used up.
CHECK_DEADLOCK FALSE
