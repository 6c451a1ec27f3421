CONSTANTS
  s1 = s1
  s2 = s2
  c1 = c1
  c2 = c2
  Ids = {s1, s2}
  Callers = {c1, c2}
  Resurrections = 1
  Retention = 1
  MaxRuns = 2
SPECIFICATION FairSpec
PROPERTIES
  CancelledReleases
CHECK_DEADLOCK FALSE
