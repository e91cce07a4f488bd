\* A fleet of jobs; the driver may be restarted once, workers running.
CONSTANTS
  train = train
  probe = probe
  build = build
  score = score
  Jobs <- Fleet
  Request <- FleetRequest
  Host <- Node
  MaxRestarts = 1
SPECIFICATION AdmissionSpec
CHECK_DEADLOCK FALSE
INVARIANT HostNeverOvercommitted
PROPERTY TickIsGreedy
PROPERTY QueueDrains
