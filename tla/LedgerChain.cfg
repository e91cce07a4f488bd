\* The open ledger may stop for good: every task closed, nothing left to call.
CONSTANTS
  source = source
  sink = sink
  x = x
  y = y
  None = None
  Tasks <- ChainTasks
  Deps <- ChainDeps
  Artifacts <- ChainArtifacts
  Output <- ChainOutput
  Categories <- ChainCategories
  MaxPacking = 1
  MaxCalls = 2
CONSTRAINT CallsInFlight
SPECIFICATION LedgerSpec
INVARIANT LedgerInv
INVARIANT RetryFollowsLoss
INVARIANT ProvenanceStable
PROPERTY NeverRerun
PROPERTY ImplementsPromise
CHECK_DEADLOCK FALSE
