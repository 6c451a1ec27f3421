SPECIFICATION Spec
CONSTANTS
  MaxMessages = 5
  MaxCalls = 2
  MaxCrashes = 2
INVARIANTS
  TypeOK
  AckedOnDisk
  RestartKeepsOrder
  StreamSurvives
  RequestWellFormed
PROPERTIES
  CompactionKeepsResults
CHECK_DEADLOCK FALSE
