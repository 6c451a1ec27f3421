SPECIFICATION FairSpec
CONSTANTS
  MaxInputs = 3
  MaxIterations = 3
  MaxRetries = 1
  Grace = 1
  StallLimit = 2
  MaxCrashes = 1
INVARIANTS
  TypeOK
  NoLostWakeup
  NoEmptyWakeup
  ParkedUntilInput
PROPERTIES
  IsMailbox
  InputArrives
CHECK_DEADLOCK FALSE
