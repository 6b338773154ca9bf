SPECIFICATION Spec
CONSTANTS
  MatchModes = {"pend", "cancel", "partialfillandcancel", "partialfill", "multiple_transactions"}
  MinVolume = 2
  Requests <- MCRequests
  Holding = 2
  EagerCancel = FALSE
  MaxOrders = 2
  MaxBatches = 1
  MaxCrash = 1
INVARIANT TypeOK
INVARIANT FinalStays
INVARIANT TradesAddUp
INVARIANT BookMatches
PROPERTY Answered
CHECK_DEADLOCK FALSE
