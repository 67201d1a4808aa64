CONSTANTS
  a = a  b = b  c1 = c1  c2 = c2  f = f  none = none
  Absent = Absent
  NoHead = NoHead
  Device <- Devices
  FileId <- Devices
  Path <- OneFile
  Content <- TwoContents
  Name <- Names
  copyOf <- CopyOf
  Declines <- BDeclines
  Deleters = {a}
  Mergeable <- OneFile
  MaxRetries = 2
  MaxEdits = 2
  MaxFaults = 1
  MaxRollbacks = 0
SPECIFICATION LiveSpec
INVARIANTS RemoteClosed LocalClosed NoFalseAlarm OnlyUsersDelete Publishable
PROPERTIES ImplementsSharedHistory SettlesInStep
