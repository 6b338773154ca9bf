SPECIFICATION FairSpec
CONSTANTS
  j1 = j1
  j2 = j2
  j3 = j3
  None = None
  Journals = {j1, j2, j3}
  MaxFrames = 2
  MaxTime = 3
  MaxLeaves = 2
INVARIANT TypeOK
INVARIANT ExactlyOnce
PROPERTY AllDelivered
CHECK_DEADLOCK FALSE
