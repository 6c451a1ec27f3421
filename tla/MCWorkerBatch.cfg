CONSTANT N = 2
SPECIFICATION FairSpec
INVARIANTS
  TypeOK
  AtMostOneReport
  NoSilentEnd
  ExplicitReportWins
PROPERTIES
  HardTimeoutEnds
CHECK_DEADLOCK FALSE
