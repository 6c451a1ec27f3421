SPECIFICATION FairSpec
CONSTANTS
  t1 = t1
  t2 = t2
  t3 = t3
  Threads = {t1, t2, t3}
  Nobody = Nobody
  MaxCalls = 4
  MaxTimeouts = 1
INVARIANTS TypeOK RefsAreHolders NoOrphan
PROPERTIES CallsEnd
CHECK_DEADLOCK FALSE
