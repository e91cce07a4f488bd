\* E01's runner: two GPU tasks compete for one card; a worker is killed, the
\* driver is killed or interrupted, or everything is.
CONSTANTS
  source = source
  sink = sink
  x = x
  y = y
  None = None
  Tasks <- MCTasks
  Deps <- PairDeps
  Artifacts <- MCArtifacts
  Output <- MCOutput
  Categories <- MCCategories
  MaxPacking = 1
  Request <- MCRequest
  Host <- Node
  Runner = "e01"
  Raised <- Nothing
  MortalWorkers = TRUE
  MaxDisruptions = 1
SPECIFICATION RuntimeSpec
INVARIANT HostIsShared
PROPERTY UsesLedger
CHECK_DEADLOCK FALSE
