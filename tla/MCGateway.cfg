SPECIFICATION Spec
CONSTANTS
  Clients = {1, 2}
  Keys = {"rb"}
  MDs = {"md1", "md2"}
  TDs = {"td"}
  Strategies = {"st"}
  None = "none"
  Scenarios <- MCScenarios
INVARIANT TypeOK
INVARIANT ServedExactly
INVARIANT WatchedJoined
INVARIANT OwnerReachable
CHECK_DEADLOCK FALSE
PROPERTY RestartServed
