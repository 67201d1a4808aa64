CONSTANTS
  m1 = m1  b1 = b1  b2 = b2  c1 = c1  l1 = l1  s1 = s1  s2 = s2
  None = None
  Phrase <- Phrases
  Minted <- MintedHere
  Six <- SixDigits
  Longer <- LongerCodes
  Server <- Servers
  MaxSalts = 2
  MaxKills = 1
SPECIFICATION Spec
SYMMETRY Alike
INVARIANT ResumesUnfinished
CHECK_DEADLOCK FALSE
