CONSTANTS
  u1 = u1  u2 = u2  s1 = s1  s2 = s2  s3 = s3
  NoServer = NoServer
  None = None
  Url <- TwoUrls
  EntryKinds = {"join"}
  EntryUrl = u1
  HasIdentity = TRUE
  AutoSync = TRUE
  Brought = {}
  MayFail = {"round"}
  Slot <- ThreeRounds
  MaxSaves = 0
  MaxBoots = 0
SPECIFICATION Spec
INVARIANT DownloadLanded
CHECK_DEADLOCK FALSE
