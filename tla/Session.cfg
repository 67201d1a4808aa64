CONSTANTS
  u1 = u1  u2 = u2  s1 = s1  s2 = s2  s3 = s3
  NoServer = NoServer
  None = None
  Url <- TwoUrls
  EntryKinds = {"none", "connect", "join"}
  EntryUrl = u1
  HasIdentity = TRUE
  AutoSync = TRUE
  Brought = {}
  MayFail = {"ready", "read", "write", "round"}
  Slot <- ThreeRounds
  MaxSaves = 3
  MaxBoots = 1
SPECIFICATION FairSpec
INVARIANTS TypeOK OneRound  StoppedStaysDown
PROPERTIES DownloadSettles EveryRemoteIsSynced
CHECK_DEADLOCK FALSE
