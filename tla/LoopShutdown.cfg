SPECIFICATION FairSpec
CONSTANTS
  MaxInputs = 0
  MaxIterations = 3
  MaxRetries = 1
  Grace = 1
  StallLimit = 2
  MaxCrashes = 0
PROPERTIES
  ShutdownStops
CHECK_DEADLOCK FALSE
