SPECIFICATION FairSpec
CONSTANTS
  r1 = r1
  PageSize = 6
  PageHeader = 1
  FrameHeader = 1
  DataLengths = {0, 1}
  Readers = {r1}
  LowLatency = {}
  Reorder = FALSE
  MaxFrames = 4
  MaxPage = 3
  MaxTime = 2
  MaxCrash = 0
  MaxSkew = 0
INVARIANT TypeOK
INVARIANT NoOverrun
PROPERTY AppendOnly
PROPERTY ImplementsLog
PROPERTY Broadcast
CHECK_DEADLOCK FALSE
