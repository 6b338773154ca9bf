SPECIFICATION SessionSpec
CONSTANTS
  MaxDrops = 1
  Requests = {"position"}
  MaxRequests = 1
  MaxLate = 1
INVARIANT OverlapCause
PROPERTY QueueServed
PROPERTY SettlementDone
CHECK_DEADLOCK FALSE
