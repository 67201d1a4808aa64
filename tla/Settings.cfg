CONSTANTS
  a = a  b = b  dk = dk  sk = sk  bk = bk  v0 = v0  v1 = v1
  Unset = Unset
  None = None
  Section <- TwoSections
  Key <- Keys
  keysOf <- KeysOf
  DeviceKey = {dk}
  Value <- TwoValues
  Default = v0
  MaxEdits = 2
  Shared = {a}
  MaxOthers = 1
  MaxFaults = 1
SPECIFICATION SmallSpec
PROPERTIES MovesOnlyWhatItLists PendingUntilWritten
CHECK_DEADLOCK FALSE
