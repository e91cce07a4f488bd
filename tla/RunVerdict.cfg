\* Nothing is killed, executors raise a retryable error.
CONSTANTS
  source = source
  sink = sink
  x = x
  y = y
  None = None
  Tasks <- SoloTasks
  Deps <- SoloDeps
  Artifacts <- SoloArtifacts
  Output <- SoloOutput
  Categories <- MCCategories
  MaxPacking = 1
  Request <- MCRequest
  Host <- Node
  Runner = "stage1b"
  Raised <- Transient
  MortalWorkers = FALSE
  MaxDisruptions = 0
SPECIFICATION RuntimeSpec
INVARIANT FailureIsFinal
CHECK_DEADLOCK FALSE
