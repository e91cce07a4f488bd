\* Two tasks, one retry, one drop, one refused request.
CONSTANTS
  data = data
  model = model
  Plan <- MCPlan
  MaxMoves = 3
  MaxDrops = 1
  MaxFailures = 1
  MaxWaiting = 1
SPECIFICATION FairMonitorSpec
INVARIANT CompletedIsTrue
PROPERTY CatchesUp
CHECK_DEADLOCK FALSE
