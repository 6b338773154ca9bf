SPECIFICATION Spec
CONSTANTS
  Clients = {1}
  Keys = {"rb"}
  MDs = {"md1", "md2"}
  TDs = {"td"}
  Strategies = {"st"}
  None = "none"
  Scenarios <- MCLedgerScenarios
CHECK_DEADLOCK FALSE
PROPERTY RestartServed
