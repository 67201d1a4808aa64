CONSTANTS
  j1 = j1  j2 = j2  k1 = k1
  None = None
  Run <- TwoRuns
  Joiner <- TwoJoiners
  Code <- OneCode
  MaxOpen = 1
  MaxFaults = 1
SPECIFICATION FairSpec
INVARIANTS TypeOK CodesConsistent DigitsAgree HandedOnBothWords DoneMeansOpened
PROPERTIES OneClaimant PollsEnd
CONSTRAINT OneMishap
CHECK_DEADLOCK FALSE
