\* Stage 2's runner, resumed after one kill.
CONSTANTS
  source = source
  sink = sink
  x = x
  y = y
  None = None
  Tasks <- SoloTasks
  Deps <- SoloDeps
  Artifacts <- SoloArtifacts
  Output <- SoloOutput
  Categories <- MCCategories
  MaxPacking = 1
  Request <- MCRequest
  Host <- Node
  Runner = "stage2"
  Raised <- Nothing
  MortalWorkers = FALSE
  MaxDisruptions = 1
SPECIFICATION FairRuntimeSpec
PROPERTY RunEnds
CHECK_DEADLOCK FALSE
