CONSTANTS
  a = a
  b = b
  c = c
  d = d
  k = k
  Nodes = {a, b, c, d}
  Keys = {k}
  NoWriter = NoWriter
  Graphs <- LoopOnly
  Executors <- EventDriven
  MaxPath = 8
SPECIFICATION FairSpec
PROPERTIES
  ExecuteReturns
CHECK_DEADLOCK FALSE
