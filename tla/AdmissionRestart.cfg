\* The driver is restarted while workers are running.
CONSTANTS
  train = train
  probe = probe
  build = build
  score = score
  Jobs <- Fleet
  Request <- FleetRequest
  Host <- Node
  MaxRestarts = 1
SPECIFICATION AdmissionSpec
INVARIANT PlannerAcceptsItsOwnWork
CHECK_DEADLOCK FALSE
