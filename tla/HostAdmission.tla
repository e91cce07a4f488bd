--------------------------- MODULE HostAdmission ---------------------------
(***************************************************************************)
(* The scheduler's use of plan_resources over a run: jobs queue up, every  *)
(* tick starts what the plan grants next to what is running, jobs finish,  *)
(* and the driver may be restarted, which measures the host's available    *)
(* memory anew while the workers of the previous driver are still running. *)
(* Only admission is modelled here; what happens to a job once it is       *)
(* started is ExecutionRuntime's subject.                                  *)
(***************************************************************************)
EXTENDS ResourcePlan

CONSTANTS
  Jobs,         \* job identifiers
  Request,      \* Request[j]: the job's resource request
  Host,         \* the host, idle
  MaxRestarts   \* bound on driver restarts

\* On a host without cores to give plan_resources raises whatever is asked.
ASSUME HostAssumption == IsHost(Host) /\ UsableCores(Host) > 0
\* Every job could be admitted by the CPU and memory ceilings of the idle host.
ASSUME RequestAssumption ==
  \A j \in Jobs : /\ IsRequest(Request[j]) /\ Request[j].gpus <= 1
                  /\ Request[j].cpu <= UsableCores(Host)
                  /\ Request[j].memory <= MemoryBudget(Host)
ASSUME RestartAssumption == MaxRestarts \in Nat

VARIABLES
  queue,      \* READY attempts in the order of their creation
  running,    \* grants of the RUNNING attempts
  done,       \* jobs whose worker has ended
  available,  \* available_memory_bytes as the driver measured it
  restarts    \* driver restarts so far

admissionVars == <<queue, running, done, available, restarts>>

InQueue == {queue[i] : i \in DOMAIN queue}
Running == {grant.holder : grant \in running}

\* The capacity the current driver plans with.
Capacity == [Host EXCEPT !.available = available]

\* The elements of a sequence that are in a set, in their order.
Among(seq, S) ==
  LET kept[i \in 0..Len(seq)] == IF i = 0 THEN << >>
                                ELSE IF seq[i] \in S THEN Append(kept[i - 1], seq[i])
                                ELSE kept[i - 1]
  IN kept[Len(seq)]

GpuJobs == {j \in Jobs : Request[j].gpus > 0}

\* sorted(..., key = gpu_count == 0): a stable sort, GPU requests first.
GpuFirst == Among(queue, GpuJobs) \o Among(queue, Jobs \ GpuJobs)

Requests(order) == [i \in DOMAIN order |-> Request[order[i]]]

AdmissionInit ==
  /\ queue = << >>
  /\ running = {}
  /\ done = {}
  /\ available = Host.available
  /\ restarts = 0

\* A job becomes READY; it does so once.
Submit(j) ==
  /\ j \notin InQueue \cup Running \cup done
  /\ queue' = Append(queue, j)
  /\ UNCHANGED <<running, done, available, restarts>>

\* The grants of the next plan, as those of running attempts.
NextGrants ==
  LET order == GpuFirst
      grants == PlanResources(Capacity, Requests(order), running)
  IN {[holder |-> order[grants[k].index],
       request |-> Request[order[grants[k].index]],
       cards |-> grants[k].cards] : k \in DOMAIN grants}

\* Scheduler.tick, when the planner does not raise.
Tick ==
  /\ queue # << >>
  /\ ~Refused(Capacity, Requests(GpuFirst), running)
  /\ \E started \in {NextGrants} :
       /\ running' = running \cup started
       /\ queue' = Among(queue, Jobs \ {grant.holder : grant \in started})
  /\ UNCHANGED <<done, available, restarts>>

\* A worker ends and its resources with it.
Finish(grant) ==
  /\ running' = running \ {grant}
  /\ done' = done \cup {grant.holder}
  /\ UNCHANGED <<queue, available, restarts>>

\* A new driver measures what the operating system reports as available: the
\* idle host's memory less what the surviving workers use.
Restart ==
  /\ restarts < MaxRestarts
  /\ restarts' = restarts + 1
  /\ available' = Host.available - ActiveMemory(running)
  /\ UNCHANGED <<queue, running, done>>

AdmissionNext ==
  \/ \E j \in Jobs : Submit(j)
  \/ Tick
  \/ \E grant \in running : Finish(grant)
  \/ Restart

\* The driver keeps polling and every worker comes to an end.
AdmissionSpec ==
  /\ AdmissionInit
  /\ [][AdmissionNext]_admissionVars
  /\ WF_admissionVars(Tick)
  /\ \A j \in Jobs : WF_admissionVars(\E grant \in running : grant.holder = j /\ Finish(grant))

-----------------------------------------------------------------------------
(* Properties *)

\* The running attempts never share a card, never use a card too small for
\* them and never add up to more than the idle host admits.
HostNeverOvercommitted ==
  /\ ~CardsClaimedTwice(running)
  /\ ~OverCommitted(Host, running)
  /\ \A grant \in running : \A g \in grant.cards : Host.cards[g] >= grant.request.vram

\* What a tick starts is exactly what one would start by considering the queue
\* in order and recomputing, each time from the ledger, what is left: nothing
\* that fits is left waiting and nothing overtakes a request that fits.
TickIsGreedy ==
  [][Tick =>
       LET order == GpuFirst
       IN \A i \in DOMAIN order :
            LET ahead == {order[k] : k \in 1..(i - 1)}
                before == running \cup {grant \in running' : grant.holder \in ahead}
            IN order[i] \in Running' <=>
                 Fits(Capacity, Remaining(Capacity, before), Request[order[i]])]_admissionVars

\* The planner never raises over a ledger of its own making: what it admitted
\* earlier it can account for later.
PlannerAcceptsItsOwnWork == queue # << >> => ~Refused(Capacity, Requests(GpuFirst), running)

\* No job waits for ever: under a driver that measured the idle host and is not
\* restarted, again and again everything submitted has started.
QueueDrains == [](restarts = 0) => []<>(queue = << >>)
=============================================================================
