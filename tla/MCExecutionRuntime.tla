------------------------- MODULE MCExecutionRuntime -------------------------
(* Two graphs on a one-card host: a chain whose second task consumes what   *)
(* the first produced, and a pair of independent GPU tasks of which the     *)
(* card admits one at a time.                                               *)
EXTENDS ExecutionRuntime, TLC

CONSTANTS source, sink, x, y

MCTasks == {source, sink}
MCArtifacts == {x, y}
MCOutput == (source :> {x}) @@ (sink :> {y})
MCCategories == {"TRANSIENT_IO", "WORKER_DIED", "NONFINITE"}

ChainDeps == (source :> {}) @@ (sink :> {source})
PairDeps == (source :> {}) @@ (sink :> {})

SoloTasks == {source}
SoloDeps == (source :> {})
SoloOutput == (source :> {x})
SoloArtifacts == {x}

MCRequest ==
  [t \in MCTasks |-> [cpu |-> 2, memory |-> 2, gpus |-> 1, vram |-> 2]]

Node == [physical |-> 8, reserved |-> 4, ceiling |-> 24, available |-> 4, limit |-> 200,
         cards |-> (0 :> 3), storage |-> TRUE]

Nothing == {}
Transient == {"TRANSIENT_IO"}
Mixed == {"TRANSIENT_IO", "NONFINITE"}
=============================================================================
