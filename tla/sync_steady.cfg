SPECIFICATION Spec
CONSTANTS
  Tags <- TheTags
  Channels <- TwoChannels
  Recordings <- TheRecordings
  Programmes <- TheProgrammes
  Initially = {"t1", "c1", "r1", "p1"}
  GuideFrom = 4
  AsyncEpg = TRUE
  MaxConns = 1
  MaxChanges = 2
  Events = {"guide"}
INVARIANTS NoGhosts KodiInformed ChannelsComplete
\* Once the sync is complete and the server's changes are used up.
CHECK_DEADLOCK FALSE
