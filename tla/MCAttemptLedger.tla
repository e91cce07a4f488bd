-------------------------- MODULE MCAttemptLedger --------------------------
(* Two tasks, the second fed by the first.  An attempt can run out of       *)
(* memory, which is retried, or fail for good.  At most MaxCalls halves of  *)
(* two-step calls are in flight at a time.                                  *)
EXTENDS AttemptLedger, FiniteSets, TLC

CONSTANTS source, sink, x, y

ChainTasks == {source, sink}
ChainDeps == (source :> {}) @@ (sink :> {source})
ChainArtifacts == {x, y}
ChainOutput == (source :> {x}) @@ (sink :> {y})
ChainCategories == {"CUDA_OOM", "NONFINITE"}

CONSTANT MaxCalls
CallsInFlight == Cardinality(verified) + Cardinality(suspects) <= MaxCalls
=============================================================================
