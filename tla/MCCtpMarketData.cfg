SPECIFICATION Spec
CONSTANTS
  Instruments = {"rb", "cu"}
  MaxCommands = 4
  MaxDrops = 2
  MaxFailures = 2
  MaxQuotes = 2
INVARIANT TypeOK
INVARIANT FrontFollows
PROPERTY WantedFed
CHECK_DEADLOCK FALSE
