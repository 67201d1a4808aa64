CONSTANTS
  a = a  b = b  c1 = c1  c2 = c2  f = f  none = none
  Absent = Absent
  NoHead = NoHead
  Device <- Devices
  FileId <- Devices
  Path <- OneFile
  Content <- TwoContents
  Name <- Names
  copyOf <- CopyOf
  Declines <- KeepAll
  Deleters = {a, b}
  Mergeable = {}
  MaxRetries = 2
  MaxEdits = 3
  MaxFaults = 0
  MaxRollbacks = 1
SPECIFICATION SyncedSpec
INVARIANTS TypeOK PublishesOnTop MergeOutcome ClosedFormsAgree AnchorKept
PROPERTIES VersionsKept
CHECK_DEADLOCK FALSE
