\* The Stage 1B runner comes to a verdict, again after one kill or restart.
CONSTANTS
  source = source
  sink = sink
  x = x
  y = y
  None = None
  Tasks <- MCTasks
  Deps <- ChainDeps
  Artifacts <- MCArtifacts
  Output <- MCOutput
  Categories <- MCCategories
  MaxPacking = 1
  Request <- MCRequest
  Host <- Node
  Runner = "stage1b"
  Raised <- Transient
  MortalWorkers = FALSE
  MaxDisruptions = 1
SPECIFICATION FairRuntimeSpec
INVARIANT OneWorkerUntilDisrupted
PROPERTY RunEnds
PROPERTY LaunchesAreDue
CHECK_DEADLOCK FALSE
