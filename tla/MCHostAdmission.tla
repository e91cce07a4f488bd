-------------------------- MODULE MCHostAdmission --------------------------
(* A two-card host with 8 data cores and 10 units of memory, one card       *)
(* smaller than the other.  The fleet has a job only the larger card fits,  *)
(* two that either card fits and a CPU job that needs all cores.            *)
EXTENDS HostAdmission, TLC

CONSTANTS train, probe, build, score

Req(cpu, memory, gpus, vram) == [cpu |-> cpu, memory |-> memory, gpus |-> gpus, vram |-> vram]

Node == [physical |-> 12, reserved |-> 4, ceiling |-> 24, available |-> 10, limit |-> 200,
         cards |-> (0 :> 3) @@ (1 :> 5), storage |-> TRUE]

Fleet == {train, probe, build, score}
FleetRequest ==
  (train :> Req(4, 4, 1, 5)) @@ (probe :> Req(2, 3, 1, 2)) @@ (build :> Req(8, 2, 0, 0))
  @@ (score :> Req(3, 4, 1, 2))
=============================================================================
