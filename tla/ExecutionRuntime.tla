-------------------------- MODULE ExecutionRuntime --------------------------
(***************************************************************************)
(* A run of a research graph: one driver (the runner's outer loop and      *)
(* Scheduler.run_until_terminal inside it), the worker processes it        *)
(* launches, the run ledger they share and the artifact store the workers  *)
(* publish to.  Every transaction of the driver, every read it bases a     *)
(* later write on, and every phase of a worker is a step of its own.       *)
(*                                                                         *)
(* A driver may be killed, and the container with everything in it; the    *)
(* files of the ledger and of the store survive.  Workers are sessions of  *)
(* their own and outlive the driver.  The four runners share the loop and  *)
(* differ in what they do around it.                                       *)
(***************************************************************************)
EXTENDS AttemptLedger, ResourcePlan

CONSTANTS
  Runner,         \* "stage1b", "e01", "stage2" or "e02"
  Raised,         \* error categories the executors may raise
  Request,        \* Request[t]: the task's resource request
  Host,           \* the capacity the driver plans with
  MortalWorkers,  \* whether a worker alone may be killed
  MaxDisruptions  \* bound on kills and on restarts of an ended run

ASSUME RunnerAssumption == Runner \in {"stage1b", "e01", "stage2", "e02"}
ASSUME RaisedAssumption == Raised \subseteq Categories /\ {"TRANSIENT_IO", "WORKER_DIED"} \subseteq Categories
\* On a host without cores to give plan_resources raises whatever is asked.
ASSUME HostAssumption == IsHost(Host) /\ UsableCores(Host) > 0
ASSUME RequestAssumption == \A t \in Tasks : IsRequest(Request[t])
ASSUME DisruptionAssumption == MortalWorkers \in BOOLEAN /\ MaxDisruptions \in Nat

\* Mutant: no runner does.
NeverReconciles == FALSE

\* Only two of the runners call reconcile_processes.
Reconciles == Runner \in {"stage1b", "e01"}
\* The same two read completed_artifacts again to compute the ready tasks.
ReadsTwice == Runner \in {"stage1b", "e01"}
\* Only E01's runner ends its workers when it ends.
TerminatesWorkers == Runner = "e01"

\* How the driver process may end.
Ended == {"COMPLETED", "FAILED", "NO_READY_WORK", "PLAN_REFUSED", "BIND_CONFLICT", "INTERRUPTED"}
Steps == {"scan", "mark", "check", "compile", "register", "poll", "plan", "launch", "spawn",
          "bind", "lost", "retry", "retried", "judge"}

VARIABLES
  pc,          \* the driver: "down", a step, or how it ended
  manifest,    \* ready tasks still to be enqueued
  ready,       \* ready_tasks as the current tick read it
  plan,        \* granted launches still to be made, in order
  todo,        \* latest_failed_attempts still to be considered for a retry
  handles,     \* attempts whose process this driver holds
  alloc,       \* alloc[a]: the cards in attempts.allocation_json
  proc,        \* proc[a]: phase of the attempt's worker process
  made,        \* made[a]: the artifact the worker is publishing
  linked,      \* artifacts whose payload file exists in the store
  disruptions  \* kills and restarts so far

driverVars == <<manifest, ready, plan, todo, handles, alloc>>
workerVars == <<proc, made, linked>>
runtimeVars == <<ledgerVars, pc, driverVars, workerVars, disruptions>>

Phases == {"none", "starting", "working", "linked", "sealed", "checked", "gone"}
Live == {a \in Attempts : proc[a] \notin {"none", "gone"}}

RuntimeInit ==
  /\ LedgerInit
  /\ pc = "down"
  /\ manifest = {} /\ ready = {} /\ plan = << >> /\ todo = {} /\ handles = {}
  /\ alloc = [a \in Attempts |-> {}]
  /\ proc = [a \in Attempts |-> "none"]
  /\ made = [a \in Attempts |-> None]
  /\ linked = {}
  /\ disruptions = 0

-----------------------------------------------------------------------------
(* The driver: start and outer loop *)

\* A start, after a kill or on demand.  create_run and register_run_plan find
\* the same run and plan; a runner that does not reconcile goes straight on.
StartDriver ==
  /\ \/ pc = "down" /\ UNCHANGED disruptions
     \/ /\ pc \in Ended
        /\ TerminatesWorkers => handles = {}
        /\ disruptions < MaxDisruptions
        /\ disruptions' = disruptions + 1
  /\ pc' = IF Reconciles THEN "scan" ELSE "check"
  /\ handles' = {}
  /\ UNCHANGED <<ledgerVars, manifest, ready, plan, todo, alloc, workerVars>>

\* reconcile_processes: judge every RUNNING row.
Reconcile ==
  /\ pc = "scan"
  /\ pc' = "mark"
  /\ ScanRunning(Live \cap bound)
  /\ UNCHANGED <<driverVars, workerVars, disruptions>>

MarkOne ==
  /\ pc = "mark"
  /\ \E a \in suspects : MarkStalled(a)
  /\ UNCHANGED <<pc, driverVars, workerVars, disruptions>>

MarkDone ==
  /\ pc = "mark" /\ suspects = {}
  /\ pc' = "check"
  /\ UNCHANGED <<ledgerVars, driverVars, workerVars, disruptions>>

\* The uncompleted tasks whose dependencies are completed: what
\* compile_ready_manifest and its siblings return for completed_artifacts.
ReadyManifest == {t \in Tasks : ~Completed(t) /\ \A d \in Deps[t] : Completed(d)}

\* len(completed) == len(graph.nodes)
CheckCompleted ==
  /\ pc = "check"
  /\ IF \A t \in Tasks : Completed(t)
       THEN pc' = "COMPLETED" /\ UNCHANGED manifest
       ELSE IF ReadsTwice THEN pc' = "compile" /\ UNCHANGED manifest
       ELSE pc' = "register" /\ manifest' = ReadyManifest
  /\ UNCHANGED <<ledgerVars, ready, plan, todo, handles, alloc, workerVars, disruptions>>

\* _enqueue_ready_tasks reads completed_artifacts anew; no ready task is an error.
CompileReady ==
  /\ pc = "compile"
  /\ manifest' = ReadyManifest
  /\ pc' = IF ReadyManifest = {} THEN "NO_READY_WORK" ELSE "register"
  /\ UNCHANGED <<ledgerVars, ready, plan, todo, handles, alloc, workerVars, disruptions>>

\* enqueue_task for one ready task; a registered one is left as it is.
Register(t) ==
  /\ pc = "register"
  /\ t \in manifest
  /\ manifest' = manifest \ {t}
  /\ IF t \in queued THEN UNCHANGED ledgerVars
     ELSE EnqueueTask(t, [d \in Deps[t] |-> Outcome(d)], 1)
  /\ UNCHANGED <<pc, ready, plan, todo, handles, alloc, workerVars, disruptions>>

RegisterDone ==
  /\ pc = "register" /\ manifest = {}
  /\ pc' = "poll"
  /\ UNCHANGED <<ledgerVars, driverVars, workerVars, disruptions>>

-----------------------------------------------------------------------------
(* The driver: Scheduler.tick *)

\* backend.poll drops the handles of ended processes, and only those; then
\* ready_tasks is read.
ReadReady ==
  /\ pc = "poll"
  /\ handles' = handles \cap Live
  /\ ready' = {a \in Attempts : DependencyReady(a)}
  /\ pc' = "plan"
  /\ UNCHANGED <<ledgerVars, manifest, plan, todo, alloc, workerVars, disruptions>>

\* The orders in which the read rows may come: GPU requests first, otherwise by
\* creation, which the ledger's order of insertion leaves open here.
GpuFirstOrders(attempts) ==
  {order \in [1..Cardinality(attempts) -> attempts] :
     /\ \A i, j \in DOMAIN order : i # j => order[i] # order[j]
     /\ \A i, j \in DOMAIN order :
          i < j /\ Request[order[j][1]].gpus > 0 => Request[order[i][1]].gpus > 0}

\* running_attempts: the latest RUNNING attempts with their allocations.
ActiveGrants ==
  {[holder |-> a, request |-> Request[a[1]], cards |-> alloc[a]] :
     a \in {b \in Attempts : state[b] = "RUNNING" /\ b = Latest(b[1])}}

\* Mutant: the grant's place in the queue is taken for its card.
LaunchIndex(order, grant) == [attempt |-> order[grant.index], cards |-> {grant.index}]

\* The launch a grant stands for: queued[index], with the grant's cards.
LaunchOf(order, grant) == [attempt |-> order[grant.index], cards |-> grant.cards]

\* plan_resources over the rows read; nothing queued plans nothing.
PlanTick ==
  /\ pc = "plan"
  /\ ready' = {}
  /\ \E order \in GpuFirstOrders(ready) :
       LET requests == [i \in DOMAIN order |-> Request[order[i][1]]]
       IN IF ready # {} /\ Refused(Host, requests, ActiveGrants)
            THEN pc' = "PLAN_REFUSED" /\ UNCHANGED plan
            ELSE LET grants == PlanResources(Host, requests, ActiveGrants)
                 IN /\ pc' = "launch"
                    /\ plan' = [k \in DOMAIN grants |-> LaunchOf(order, grants[k])]
  /\ UNCHANGED <<ledgerVars, manifest, todo, handles, alloc, workerVars, disruptions>>

\* The row the next grant is for.
IsNext(a) == plan # << >> /\ a = Head(plan).attempt

\* claim_attempt for the next grant.  With one driver the row read as READY is
\* still READY.
ClaimNext ==
  /\ pc = "launch"
  /\ \E a \in Attempts : /\ IsNext(a)
                        /\ ClaimAttempt(a)
                        /\ alloc' = [alloc EXCEPT ![a] = Head(plan).cards]
  /\ pc' = "spawn"
  /\ UNCHANGED <<manifest, ready, plan, todo, handles, workerVars, disruptions>>

\* Popen: the worker exists before the ledger knows its process.
SpawnWorker ==
  /\ pc = "spawn"
  /\ \E a \in Attempts : IsNext(a) /\ proc' = [proc EXCEPT ![a] = "starting"]
  /\ pc' = "bind"
  /\ UNCHANGED <<ledgerVars, driverVars, made, linked, disruptions>>

\* bind_running_process; it raises when the worker has already closed its row.
BindWorker ==
  /\ pc = "bind"
  /\ \E a \in Attempts :
       /\ IsNext(a)
       /\ IF state[a] = "RUNNING"
            THEN /\ BindRunningProcess(a)
                 /\ handles' = handles \cup {a}
                 /\ plan' = Tail(plan)
                 /\ pc' = "launch"
            ELSE /\ pc' = "BIND_CONFLICT"
                 /\ plan' = << >>
                 /\ UNCHANGED <<ledgerVars, handles>>
  /\ UNCHANGED <<manifest, ready, todo, alloc, workerVars, disruptions>>

TickDone ==
  /\ pc = "launch" /\ plan = << >>
  /\ pc' = "lost"
  /\ UNCHANGED <<ledgerVars, driverVars, workerVars, disruptions>>

-----------------------------------------------------------------------------
(* The driver: Scheduler.run_until_terminal *)

LatestOf(states) == {a \in Attempts : state[a] \in states /\ a = Latest(a[1])}

\* latest_failed_attempts
ReadLost ==
  /\ pc = "lost"
  /\ todo' = LatestOf(Lost)
  /\ pc' = "retry"
  /\ UNCHANGED <<ledgerVars, manifest, ready, plan, handles, alloc, workerVars, disruptions>>

\* A lost attempt without a category is taken to be a dead worker.
LossCategory(a) == IF error[a] = None THEN "WORKER_DIED" ELSE error[a]

Retries(a) == LossCategory(a) \in Retryable /\ a[2] < 2

\* retry_attempt, which returns None for an attempt that may not be retried.
RetryOne(a) ==
  /\ pc \in {"retry", "retried"}
  /\ a \in todo
  /\ todo' = todo \ {a}
  /\ IF Retries(a)
       THEN /\ RetryAttempt(a, LossCategory(a), LossCategory(a) = "CUDA_OOM")
            /\ pc' = "retried"
       ELSE UNCHANGED <<ledgerVars, pc>>
  /\ UNCHANGED <<manifest, ready, plan, handles, alloc, workerVars, disruptions>>

RetryDone ==
  /\ pc \in {"retry", "retried"} /\ todo = {}
  /\ pc' = IF pc = "retried" THEN "poll" ELSE "judge"
  /\ UNCHANGED <<ledgerVars, driverVars, workerVars, disruptions>>

\* run_attempt_counts and the verdict on them; an undecided run is polled again
\* until maximum_wait_seconds return it to the outer loop.
Judge ==
  /\ pc = "judge"
  /\ IF queued # {} /\ \A t \in queued : state[Latest(t)] = "COMPLETED" THEN pc' = "check"
     ELSE IF LatestOf(Lost) # {} /\ LatestOf({"RUNNING"}) = {} THEN pc' = "FAILED"
     ELSE pc' \in {"poll", "check"}
  /\ UNCHANGED <<ledgerVars, driverVars, workerVars, disruptions>>

-----------------------------------------------------------------------------
(* The workers *)

\* claimed_task: a worker whose row is no longer RUNNING leaves without a word.
WorkerStarts(a) ==
  /\ proc[a] = "starting"
  /\ proc' = [proc EXCEPT ![a] = IF state[a] = "RUNNING" THEN "working" ELSE "gone"]
  /\ UNCHANGED <<ledgerVars, made, linked>>

\* Mutant: the worker closes its row whatever state it is in.
WorkerFailsAnyway(a, category) ==
  /\ state' = [state EXCEPT ![a] = "FAILED"]
  /\ error' = [error EXCEPT ![a] = category]
  /\ UNCHANGED <<queued, input, artifact, packing, bound, fresh, callVars, stored>>
  /\ proc' = [proc EXCEPT ![a] = "gone"]
  /\ UNCHANGED made

\* fail_attempt, whose conflict is suppressed; the process ends either way.
WorkerFails(a, category) ==
  /\ IF state[a] = "RUNNING" THEN FailAttempt(a, category) ELSE UNCHANGED ledgerVars
  /\ proc' = [proc EXCEPT ![a] = "gone"]
  /\ UNCHANGED made

\* The executor reports progress, which is the only heartbeat a worker sends;
\* on a row that moved on the report raises.
ReportProgress(a) ==
  /\ proc[a] = "working"
  /\ IF state[a] = "RUNNING" THEN Heartbeat(a) /\ UNCHANGED proc
     ELSE UNCHANGED ledgerVars /\ proc' = [proc EXCEPT ![a] = "gone"]
  /\ UNCHANGED <<made, linked>>

ExecutorRaises(a, category) ==
  /\ proc[a] = "working"
  /\ category \in Raised
  /\ WorkerFails(a, category)
  /\ UNCHANGED linked

\* Publication links the payload exclusively: content that is already in the
\* store, from whomever, makes it raise FileExistsError.
LinkArtifact(a, x) ==
  /\ proc[a] = "working"
  /\ x \in Output[a[1]]
  /\ IF x \in linked
       THEN WorkerFails(a, "TRANSIENT_IO") /\ UNCHANGED linked
       ELSE /\ linked' = linked \cup {x}
            /\ made' = [made EXCEPT ![a] = x]
            /\ proc' = [proc EXCEPT ![a] = "linked"]
            /\ UNCHANGED ledgerVars

\* A publication that raises after the link removes what it linked.
PublicationRaises(a) ==
  /\ proc[a] = "linked"
  /\ "TRANSIENT_IO" \in Raised
  /\ linked' = linked \ {made[a]}
  /\ WorkerFails(a, "TRANSIENT_IO")

\* Manifest and completion marker are in place, the artifact verifies and its
\* publication returns.
SealArtifact(a) ==
  /\ proc[a] = "linked"
  /\ StoreArtifact(made[a])
  /\ proc' = [proc EXCEPT ![a] = "sealed"]
  /\ UNCHANGED <<made, linked>>

\* complete_attempt, in its two halves; a conflict ends the worker silently.
CheckResult(a) ==
  /\ proc[a] = "sealed"
  /\ IF state[a] = "RUNNING"
       THEN CheckCompletion(a, made[a]) /\ proc' = [proc EXCEPT ![a] = "checked"]
       ELSE UNCHANGED ledgerVars /\ proc' = [proc EXCEPT ![a] = "gone"]
  /\ UNCHANGED <<made, linked>>

CommitResult(a) ==
  /\ proc[a] = "checked"
  /\ CommitCompletion(a, made[a]) \/ RefuseCompletion(a, made[a])
  /\ proc' = [proc EXCEPT ![a] = "gone"]
  /\ UNCHANGED <<made, linked>>

-----------------------------------------------------------------------------
(* What the surroundings do *)

CallsOf(attempts) == {call \in verified : call[1] \in attempts}

\* Killed workers leave their rows, and what they published, as they are.
Killed(attempts) ==
  [a \in Attempts |-> IF a \in attempts \cap Live THEN "gone" ELSE proc[a]]

\* E01's runner, on its way out, ends the processes it holds.
TerminateAll ==
  /\ TerminatesWorkers
  /\ pc \in Ended
  /\ handles # {}
  /\ handles' = {}
  /\ proc' = Killed(handles)
  /\ CallersDie(CallsOf(handles), {})
  /\ UNCHANGED <<pc, manifest, ready, plan, todo, alloc, made, linked, disruptions>>

Disrupt == disruptions < MaxDisruptions /\ disruptions' = disruptions + 1

ForgetDriver == manifest' = {} /\ ready' = {} /\ plan' = << >> /\ todo' = {}

\* E01's driver turns SIGTERM into an exception.
Interrupt ==
  /\ Disrupt
  /\ TerminatesWorkers
  /\ pc \in Steps
  /\ pc' = "INTERRUPTED"
  /\ ForgetDriver
  /\ CallersDie({}, suspects)
  /\ UNCHANGED <<handles, alloc, workerVars>>

\* The driver alone is killed; its workers go on.
DriverDies ==
  /\ Disrupt
  /\ pc \in Steps
  /\ pc' = "down"
  /\ handles' = {}
  /\ ForgetDriver
  /\ CallersDie({}, suspects)
  /\ UNCHANGED <<alloc, workerVars>>

\* Every process is killed.
ContainerDies ==
  /\ Disrupt
  /\ pc \in Steps \/ Live # {}
  /\ pc' = IF pc \in Steps THEN "down" ELSE pc
  /\ handles' = {}
  /\ ForgetDriver
  /\ proc' = Killed(Attempts)
  /\ CallersDie(verified, suspects)
  /\ UNCHANGED <<alloc, made, linked>>

\* One worker is killed, by the operating system for instance.
WorkerDies(a) ==
  /\ Disrupt
  /\ MortalWorkers
  /\ a \in Live
  /\ proc' = Killed({a})
  /\ CallersDie(CallsOf({a}), {})
  /\ UNCHANGED <<pc, driverVars, made, linked>>

\* Heartbeats age while nobody reports.
TimePasses(a) ==
  /\ HeartbeatExpires(a)
  /\ UNCHANGED <<pc, driverVars, workerVars, disruptions>>

-----------------------------------------------------------------------------
DriverStep ==
  \/ StartDriver
  \/ Reconcile \/ MarkOne \/ MarkDone
  \/ CheckCompleted \/ CompileReady \/ RegisterDone \/ \E t \in Tasks : Register(t)
  \/ ReadReady \/ PlanTick \/ ClaimNext \/ SpawnWorker \/ BindWorker \/ TickDone
  \/ ReadLost \/ RetryDone \/ Judge \/ \E a \in Attempts : RetryOne(a)
  \/ TerminateAll

\* What brings a worker closer to its end.
WorkerAdvances(a) ==
  /\ \/ WorkerStarts(a)
     \/ \E category \in Categories : ExecutorRaises(a, category)
     \/ \E x \in Artifacts : LinkArtifact(a, x)
     \/ PublicationRaises(a)
     \/ SealArtifact(a)
     \/ CheckResult(a)
     \/ CommitResult(a)
  /\ UNCHANGED <<pc, driverVars, disruptions>>

WorkerReports(a) == ReportProgress(a) /\ UNCHANGED <<pc, driverVars, disruptions>>

Surroundings ==
  \/ Interrupt \/ DriverDies \/ ContainerDies
  \/ \E a \in Attempts : WorkerDies(a) \/ TimePasses(a)

RuntimeNext ==
  \/ DriverStep
  \/ \E a \in Attempts : WorkerAdvances(a) \/ WorkerReports(a)
  \/ Surroundings

RuntimeSpec == RuntimeInit /\ [][RuntimeNext]_runtimeVars

\* The driver keeps running, or is resumed as the runbook asks; an executor
\* comes to an end.  No heartbeat is promised.
FairRuntimeSpec ==
  /\ RuntimeSpec
  /\ WF_runtimeVars(DriverStep)
  /\ \A a \in Attempts : WF_runtimeVars(WorkerAdvances(a))

-----------------------------------------------------------------------------
(* Properties *)

RuntimeTypeOK ==
  /\ pc \in {"down"} \cup Steps \cup Ended
  /\ manifest \in SUBSET Tasks
  /\ ready \in SUBSET Attempts
  /\ plan \in Seq([attempt : Attempts, cards : SUBSET Cards(Host)])
  /\ todo \in SUBSET Attempts
  /\ handles \in SUBSET Attempts
  /\ alloc \in [Attempts -> SUBSET Cards(Host)]
  /\ proc \in [Attempts -> Phases]
  /\ made \in [Attempts -> Artifacts \cup {None}]
  /\ linked \in SUBSET Artifacts
  /\ disruptions \in 0..MaxDisruptions

\* The driver and its workers use the ledger only as AttemptLedger allows, so
\* whatever holds of the open ledger holds of every run.
UsesLedger == LedgerSpec

\* The allocations of the RUNNING rows never share a card and never exceed the
\* host, whichever drivers planned them and whatever died in between.
RunningRowsFitTheHost == ~CardsClaimedTwice(ActiveGrants) /\ ~OverCommitted(Host, ActiveGrants)

\* What a driver, old or new, holds of the rows agrees with what the host can
\* give.  (Scheduler.tick, plan_resources)
HostIsShared == RuntimeTypeOK /\ RunningRowsFitTheHost

\* A worker is started only for an unfinished task and only when every artifact
\* frozen in its specification verifies.
LaunchesAreDue ==
  [][\A a \in Attempts : proc[a] = "none" /\ proc'[a] = "starting" =>
       /\ state[a] = "RUNNING" /\ ~Completed(a[1])
       /\ \A d \in Deps[a[1]] : input[a[1]][d] \in stored]_runtimeVars

\* No two workers are past claimed_task with the same task at the same time.
Executing == Live \ {a \in Attempts : proc[a] = "starting"}
NoDuplicateWorkers == \A a, b \in Executing : a[1] = b[1] => a = b

\* Retries alone never do that, whatever fails and whatever is retried: it
\* takes a driver that died or was started again.
OneWorkerUntilDisrupted == disruptions = 0 => NoDuplicateWorkers

\* A run is declared failed only when some lost attempt may not be retried.
FailureIsFinal ==
  pc = "FAILED" => \E a \in LatestOf(Lost) : ~Retries(a)

\* The driver never gets stuck: it comes to a verdict, again after every restart.
RunEnds == []<>(pc \in Ended)
=============================================================================
