SPECIFICATION Spec
CONSTANTS
  MaxMessages = 3
  MaxCalls = 1
  MaxCrashes = 1
INVARIANTS
  NoDoubleLoad
CHECK_DEADLOCK FALSE
