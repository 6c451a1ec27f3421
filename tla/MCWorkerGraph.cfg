CONSTANTS
  a = a
  b = b
  c = c
  d = d
  k = k
  Nodes = {a, b, c, d}
  Keys = {k}
  NoWriter = NoWriter
  Graphs <- MCGraphs
  Executors <- MCExecutors
  MaxPath = 8
SPECIFICATION FairSpec
INVARIANTS
  TypeOK
  VisitBudget
  JoinAfterBranches
  StepBudget
PROPERTIES
  FirstBranchKeepsKey
  EarnedSuccess
  QuietReturn
  RunReturns
  PolledFallbackRuns
CHECK_DEADLOCK FALSE
