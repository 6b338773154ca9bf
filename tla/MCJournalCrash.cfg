SPECIFICATION Spec
CONSTANTS
  r1 = r1
  PageSize = 6
  PageHeader = 1
  FrameHeader = 1
  DataLengths = {0, 1}
  Readers = {r1}
  LowLatency = {}
  Reorder = FALSE
  MaxFrames = 3
  MaxPage = 2
  MaxTime = 3
  MaxCrash = 1
  MaxSkew = 0
INVARIANT NoTornFrame
INVARIANT NextPageReady
INVARIANT WriterAtEnd
INVARIANT ChainInv
CHECK_DEADLOCK FALSE
