SPECIFICATION Spec
CONSTANTS
  MaxOrders = 2
  Volume = 2
  MaxCancels = 1
  MaxLogins = 2
  MaxCrashes = 1
INVARIANT Attributed
INVARIANT EndHeard
CHECK_DEADLOCK FALSE
