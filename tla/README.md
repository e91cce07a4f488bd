# TARCA: a verification development

TARCA runs scientific qualification stages (Stage 0, Stage 1B, E01, Stage 2, E02) on
one machine, most of them as graphs of tasks.  A *driver* process enqueues tasks whose
inputs are ready, admits them to the machine's cores, memory and GPUs, starts a
*worker* process for each, and retries what was lost.  Driver and workers share a
SQLite *run ledger* and a content-addressed *artifact store*.  Around the runs there
are commands that operators type: they prepare, launch, resume, repair, freeze and
hand over, and they share files too.  Any of these processes may be killed at any
moment, and everything is meant to be continued from the files.

This directory holds TLA+ models of all that, the TLC configurations that check them
and the TLAPS proofs about them.  Paths below are relative to `src/src/tarca` of the
repository unless they start with `src/`.

## 1. The system

### 1.1 Components

| Component | State it keeps | Operations | What makes it correct | Module |
|---|---|---|---|---|
| **Attempt ledger** `execution/state*.py` | rows of `attempts`, in SQLite/WAL | bind, heartbeat, complete, fail, retry, reconcile | one live attempt per task; a retry only follows a loss the policy lists; a completed task never changes | `AttemptLedger` |
| **Run plan and task queue** `execution/state_plan.py` | `runs`, `run_plans`, `job_nodes`, `task_specs` | create_run, register_run_plan, enqueue, claim, transition | one graph and one feasible plan per run; frozen inputs are what the dependencies produced | `RunPlan`, `AttemptLedger` |
| **Resource planning** `execution/resources.py` | none | plan_resources | grants never exceed the host or share a card; nothing that fits waits | `ResourcePlan`, `HostAdmission` |
| **Scheduler, backends, workers, run drivers** `execution/scheduler.py`, `worker*.py`, the four runners | handles, what is being published | tick, retry, judge; execute, publish, complete | the run reaches a verdict; workers start only what is due | `ExecutionRuntime` |
| **Artifact store** `artifacts/store.py` | payload, manifest, completion marker | publish, verify, read | what verifies is whole; what was returned keeps verifying | `ArtifactPublication` |
| **Training and checkpoints** `stage1b/training*.py` | a worker's memory, two checkpoint contents in one file | epoch, save, stop, resume | a resumed training is where an uninterrupted one would be | `TrainingCheckpoints` |
| **Trajectory data** `stage1b/dataset.py`, `stage2/data.py`, `dlinear.py`, `e02/jobs.py`, `scoring.py` | the work of a process pool, published data, forecasts, scores | generate, window, publish, reload, fit folds, forecast, score | a task's data have one content; what is fitted never saw what is judged; forecasts stay beside their targets | `TrajectoryData` |
| **Source capsules** `stage1b/source_capsules.py`, `sources.py` | cache of checkouts, archive, receipts | materialize, build, import, verify | a receipt stands only in a whole cache; a killed import can be repeated | `SourceCache` |
| **Qualification** `stage1b/gates.py`, `runner.py`, `compiler.py`, `jobs.py` | comparisons, failure ledger | measure, judge, publish | both ways to the receipt judge as measured | `Qualification` |
| **Qualification receipt** `stage1b/runtime_evidence.py`, `jobs.py`, `src/scripts/run_stage1b_runtime.py` | probe, evidence, receipt, summary | probe, launch, resume, write, publish | the files agree; a failure has a reason | `QualificationReceipt` |
| **Suite freeze** `stage1b/freeze.py` | frozen directory, `active.json` | freeze, verify | an exchange is undone or finished; the named suite survives | `SuiteFreeze` |
| **Runtime receipts** `stage2/runtime.py`, `e01/v2_runtime.py`, `e02/runtime.py` | sealed receipts, grant, database | prepare, probe, preflight, launch, resume | a database holds one graph, of inputs that were checked | `StageLaunch` |
| **Stage 2 recovery** `stage2/recovery*.py` | database, its log, authorization | restore-input, repair, resume | authorized attempts exist; nothing is trained again | `DeviceRecovery` |
| **Stage 2 and E02 studies** `stage2/*.py`, `e02/*.py` | task states, manifest, grant, evidence | the jobs of both graphs | decisions follow from evidence; formal data stay sealed | `FormalStudy` |
| **E02 hand-over** `e02/server_handoff.py`, `server_preflight.py` | restored tree, receipts | restore, verify, preflight | what is called restored is the archive | `ServerHandoff` |
| **E01 gate** `e01/v2_jobs.py`, `v2_metrics.py`, `v2_carry_forward.py` | effects, reports, verdicts | generate, analyse, decide, repeat | a PASS has every seed behind it; a world has one verdict | `MechanismGate` |
| **Stage 0 contract** `stage0/*.py` | contract files, archives | freeze, decide, complete, verify | no record is lost; what verifies is certified | `ResearchContract` |
| **Monitoring** `monitoring/*.py`, `src/frontend/stage1b-monitor/src` | the page | load, subscribe, reconnect | COMPLETED is true; the page catches up | `RuntimeMonitor` |

`PROJECT.json` lists the files of each component, how far it is modelled, and what is not.

### 1.2 How they interact

```
 operator's commands: prepare, preflight, launch, resume, repair, freeze, restore
   |  receipts, grants, pointers (JSON files)        browser <-- monitor (read-only)
   v                                                               |
 driver (runner loop > Scheduler.run_until_terminal > tick)        |
   |  reconcile, enqueue, claim, bind, retry, count   Popen        |
   v                                                    v          v
 run ledger  <-- claimed_task, heartbeat, complete, fail -- worker
 (SQLite/WAL)                                             | train, publish
   |  complete_attempt verifies the artifact              v
   +------------------------------->  artifact store, checkpoints
```

* Driver and workers never exchange messages: the driver learns of a result by reading
  the ledger; `poll` only forgets handles of ended processes.
* Every ledger write is one `BEGIN IMMEDIATE` transaction, but several operations
  *decide* outside the one they write in: `complete_attempt` verifies first and then
  compares-and-sets, `reconcile_processes` judges all RUNNING rows and marks them one
  by one, a tick reads, plans and claims later, the verdict is read after the retries.
* Workers are sessions of their own and outlive a killed driver; only E01's runner
  terminates the workers it holds when it leaves.
* No command takes a lock.  A file is replaced atomically, a group of files is not.

### 1.3 What is hard

Interleavings between a decision and its write; a process dying at any step and the
work being continued on what it left; a live worker taken for lost; publications,
freezes, imports and restores that race, fail half-way and are undone; files compared
in one command and used in another; power loss; grants that expire.  `PROJECT.json`
"hazards" lists each with its line and the properties that would catch it.

## 2. The modules

`TaskOutcome` and `PublishedArtifacts` are abstract specifications: what the ledger
promises of a task, and what the store promises of a content.  `AttemptLedger`
implements the first (`ImplementsPromise`), `ArtifactPublication` the second
(`ImplementsPublished`), and `ExecutionRuntime` (which EXTENDS `AttemptLedger` and
`ResourcePlan`) implements `AttemptLedger` (`UsesLedger`).

The components around the runs share no variable with them.  They are modules of their
own, and two MC modules put several into one run: `MCStageOne` what Stage 1B keeps on
disk, `MCStageRuntime` what operators do around the runs.  A variable `part` chooses,
once, which component a behaviour is of; the others stay in their initial state, so
the state count is the sum of the components', not the product.

### 2.1 `AttemptLedger` and `RunPlan`

`state`, `artifact`, `error` and `packing` are the columns of `attempts`, indexed by
`<<task, number>>`; `"ABSENT"` is a row not inserted.  A task has at most two rows
because `retry_attempt` refuses `attempt_number >= 2`.  `queued` and `input` are
`job_nodes`/`task_specs` and the artifacts frozen there.  `bound` says whether a pid
is recorded and `fresh` whether the heartbeat is young; clocks are not modelled,
`HeartbeatExpires` may happen at any time.  `CheckCompletion` puts a call into
`verified` after its checks and `CommitCompletion`/`RefuseCompletion` is its
compare-and-set; `ScanRunning` puts rows judged lost into `suspects` and `MarkStalled`
writes one, leaving it alone if it has moved on.  `CallersDie` ends callers half-way.
Left out: worker and run identifiers, which every caller derives from the attempt, and
the validation of specifications.

`RunPlan` is `create_run` and `register_run_plan`: the validation, with its recursive
depth-first search as written, happens in the caller's memory and the rows are
compared or inserted in a later transaction.  The search is a recursive function from
searches (path, visited tasks, whether a circle was met) to what visiting each task
makes of them, so that it can be proved about.

### 2.2 `ResourcePlan` and `HostAdmission`

`PlanResources(host, queue, active)` follows the loop of `plan_resources`; `Refused`
collects the inputs for which it raises.  In `HostAdmission` jobs queue up, `Tick`
sorts GPU requests first (`Among` keeps the elements of a set in their order, which is
what a stable sort on one bit does twice), plans and starts what was granted, workers
end, and `Restart` replaces the driver, which measures `available` memory with the
survivors' use already gone.  `IsHost` and `IsRequest` are what the validators of
`ResourceCapacity` and `ResourceRequest` let through; `HostAdmission` and
`ExecutionRuntime` assume them of their constants, and a core to use.

### 2.3 `ExecutionRuntime`

`pc` is the driver's place in the runner's loop; the local variables that carry what
it read from one transaction into the next are `manifest`, `ready`, `plan`, `todo`,
`suspects`.  `proc[a]` is a worker's phase.

| Code | Actions |
|---|---|
| runner: reconcile, completed?, compile ready, enqueue | `Reconcile`, `MarkOne`, `MarkDone`, `CheckCompleted`, `CompileReady`, `Register`, `RegisterDone` |
| `tick`: poll + ready_tasks; plan; claim; Popen; bind | `ReadReady`; `PlanTick`; `ClaimNext`; `SpawnWorker`; `BindWorker`; `TickDone` |
| `run_until_terminal`: latest_failed_attempts; retry; counts | `ReadLost`; `RetryOne`, `RetryDone`; `Judge` |
| `run_worker` | `WorkerStarts`, `ReportProgress`, `ExecutorRaises`, `LinkArtifact`, `PublicationRaises`, `SealArtifact`, `CheckResult`, `CommitResult` |
| signals, kills, time | `TerminateAll`, `Interrupt`, `DriverDies`, `ContainerDies`, `WorkerDies`, `TimePasses` |

The four runners share the loop.  They differ in whether they reconcile at the start
(`Reconciles`: Stage 1B and E01), whether they read `completed_artifacts` a second
time (`ReadsTwice`: the same two) and whether they terminate their workers
(`TerminatesWorkers`: E01); `Runner` selects one.  `maximum_wait_seconds` is the
nondeterministic return of `Judge` to the outer loop.  An exception the driver does
not raise itself, a failing `Popen` for instance, leaves what `DriverDies` leaves.

### 2.4 `ArtifactPublication`

Calls are `publish_*` calls and each step touches one file.  Files are named by
content, so a payload at its path has the right bytes; a manifest is identified with
the call that wrote it.  `Raise` may interrupt a call anywhere, `Undo` removes marker,
manifest and payload in the code's order, `Kill` stops it for good.  A reader looks at
the files in the order of `_verified_payload`.  `disk` is the directory as last
written out: `_atomic_link` does not fsync it, so `WriteOut` happens when the file
system pleases and `LosePower` returns to it.  A directory is assumed to be written
out as it was at one moment.

### 2.5 What Stage 1B keeps on disk

* `TrainingCheckpoints`: training is deterministic and a checkpoint restores every
  random state, so `loss` is one function of the epoch.  A state of training is
  `[epoch, bestEpoch, stale]`; weights are identified with the epochs they have seen.
  `setup` chooses the resume mode and whether workers of the task may overlap, which
  they do when the ledger took a live one for lost.
* `TrajectoryData`: a maker is one try of a data task: it lists the work of the design,
  a pool of processes takes items in order and finishes them in any, results are
  handed over in order (`NextResult`, which is `Executor.map`), an item may raise
  and the pool or the maker may die at any time.  A trajectory is the name its seed is
  hashed from, together with its regime; a normaliser is the list of trajectories
  it was fitted on; a window is a trajectory and a start.  `PublishData` and
  `AcceptData` are the store and the ledger as the makers see them.  Stage 1B's
  artifact keeps the windows and Stage 2's and E02's the records, so the reader of
  each (`DatasetOf`, `BundleOf`) checks something else.  The hash that gives a trajectory
  its DLinear fold is any function of its identity.  What is made of the data follows: the
  out-of-fold forecasts (`FitCrossFolds`), E02's forecasts and scores, which two jobs
  line up by window (`ForecastFormal`, `ScoreFormalData`), and Stage 1B's comparison,
  which is one job (`CompareQualified`).  What the code writes as a comprehension with a
  condition is `Filtered`, one loop inside another is `FlattenSeq`.  The job that republishes a dataset unchanged
  after looking for values that are not finite is left out.
* `SourceCache`: builders and importers of an ordered list of pins, rename by rename;
  checkouts may be edited by hand.
* `Qualification`: the gates over measurements, and the two ways to a receipt: the
  loop of `run_qualification`, which notes failures and goes on, and the task graph,
  in which any failure ends the run.
* `SuiteFreeze`: the exchange of directories and of `active.json`, with the undo of
  its exception handler, for calls in turn (`alone`) and for calls that overlap.

### 2.6 What operators do around a run

* `StageLaunch`: prepare, probe, preflight, launch and resume of the three stages.
  What a graph's identity depends on is a version of the inputs and, for E02, the
  grant file.  `Edit` changes the inputs at any time; `inTurn` says whether commands
  of two operators overlap.
* `QualificationReceipt`: from the hardware probe to the returned payload, with the
  two files a worker reads, the artifact it publishes and the summary it copies.  The
  receipt's worker reports no progress, so its heartbeat is old ten seconds after it
  began: `ReconcileReceipt` may stall it while it lives, its second attempt is then
  made beside it, and both go on to the files (`doubled`).  The ledger's word is
  `row`, of the latest attempt; a report of a replaced worker changes nothing
  (`Closed`).
* `DeviceRecovery`: restore-input, repair and resume statement by statement.  The
  database is a file, which a digest sees, and a log, which only an opening sees.
* `ServerHandoff`: both loops of the restore over the archive's members, with other
  processes touching the files, and the bundle's receipts.
* `MechanismGate`: effects, seed reports and the gate, each job reading the
  configuration anew, which may be edited and put back, as the record of E01 v1 may be
  damaged and put back.  The deciding task has two tries.  The report in the store
  says nothing of its try, so a try that is repeated in a world already decided meets
  `FileExistsError` (`DecideInVain`); a try may be lost before its report is stored,
  after it, or only for the ledger while it goes on (`LoseDecision`, `DecideLate`).
  Tries of the other jobs are left out: a run in which one fails for good never decides.
* `ResearchContract`: freeze, complete and verify file by file, with documents edited
  meanwhile and commands that stop between any two file operations.

### 2.7 `FormalStudy` and `RuntimeMonitor`

`FormalStudy` has every job of the two graphs.  A job that publishes one artifact from
immutable inputs is one step; the freeze, the formal opening and the final directory,
which write elsewhere or read the clock, are several.  The ledger's part is kept as
two tries per task.  A try may report an OSError before its artifact is stored
(`TransientTry`) or after (`PublishInVain`), be rejected (`RejectTry`), or die without
a report (`DieUnreported`).  The first is repeated and may succeed.  The second is
repeated and makes the same bytes, for which the store has no room (`PublishAgain`):
the task fails.  The last leaves the row RUNNING for ever, `"stuck"`, since neither
runner reconciles.  Other branches of a run that has failed or is stuck go on.

`RuntimeMonitor` numbers the states the ledger has been through, so a snapshot is the
index of the one it was read from.  The page has promises, loads, one socket and one
timer; answers arrive in any order.

## 3. What TLC checks

| Run | Instance | Properties |
|---|---|---|
| `LedgerChain` | two dependent tasks, a retryable and a terminal error, at most 2 half-done calls (`MaxCalls`), packing level 1 (`MaxPacking`, the level every runner enqueues at) | `LedgerInv`, `RetryFollowsLoss`, `ProvenanceStable`, `NeverRerun`, `ImplementsPromise` |
| `AdmissionFleet` | four jobs (one GPU job for the larger of two cards, two for either, a CPU job needing all cores), one restart | `HostNeverOvercommitted`, `TickIsGreedy`, `QueueDrains` |
| `RunPair` | E01's runner, two independent GPU tasks, one card; one disruption (`MaxDisruptions`) of any kind, the death of a worker alone included | `HostIsShared`, `UsesLedger` |
| `RunEnding` | Stage 1B's runner, two dependent tasks, executors that may raise `TRANSIENT_IO`, one disruption | `OneWorkerUntilDisrupted`, `RunEnds`, `LaunchesAreDue` |
| `PublishRace` | three publications of one content, two readers, kills, exceptions and power loss anywhere | `PublicationInv`, `AcceptsWhatVerifies` |
| `StageOne`, training | two workers of one task, any of two losses in each of four epochs, patience 2 | `TrainingInv` |
| `StageOne`, data | two tries of Stage 1B's data at once, or Stage 2's and then E02's; pools of one or two processes that may break, makers killed, one trajectory that cannot be simulated, a world without an unseen regime, trajectories of two windows, two folds | `DataInv` |
| `StageOne`, sources | two builders, two importers, two pins; one death, one edited checkout | `CacheInv`, `InterruptedImportRepeats` |
| `StageOne`, qualification | one targeted world with two seeds and models, or five worlds of four families with one of each; any measurements and failures | `QualificationInv` |
| `StageOne`, freeze | three freezes, one of them unqualified, one kill | `FreezeSafe`, `ReplacedByAuthorization` |
| `StageOne`, publication | three publications and a reader while power lasts | `ImplementsPublished` |
| `StageCommands`, launch | three stages, two operators, one edit, two probes, two crashes | `LaunchInv`, `RunsWhatWasChecked` |
| `StageCommands`, receipt | two drivers, two troubles (kills, disk errors, repeated probes, a second driver at once); any live worker may be taken for lost | `ReceiptInv`, `FailureIsEarned`, `ReceiptReturned` |
| `StageCommands`, recovery | two shells, two kills, a lost checkpoint | `RecoveryInv` |
| `StageCommands`, contract | one edit, two stops, up to 7 freezes | `ContractInv`, `ContractEnds` |
| `StageCommands`, plan | all 512 digraphs on three tasks, three malformed plans, a rival with another order or graph | `PlanInv` |
| `StageCommands`, handoff | two restorers, two members of which one is frozen, one foreign write, one kill, one new bundle | `HandoffInv` |
| `StageCommands`, gate | three seeds of which two are required, world lags 2 and 3 edited to and fro, any sum of deviations up to 2 (`MaxBias`), two attempts of the decision; the seeds' outcomes in order, since seeds are interchangeable (`InOrder`) | `GateInv` |
| `FormalStudy` | two initializations whose frozen order is not their numeric one, two linear models, scores of two sizes, skills below, between and at the thresholds; one try that goes wrong in any way (`MaxLosses`), a grant of one hour | `StudyInv`, `FailureHasCause`, `FormalDataStaysSealed`, `StudiesEnd` |
| `Monitor` | two tasks, three moves of the ledger, one dropped socket, one refused request | `CompletedIsTrue`, `CatchesUp` |

Why the bounds are enough for the cases to happen: two tasks make a dependency or a
competition; two attempts is the code's own bound; the third publication of a content
is the first that can meet the remains of one while a second is at work; a patience of
two within four epochs lets a training stop early, be killed before and after, and be
resumed past the stop; a pool of two is the smallest that finishes out of order,
and two seeds, regimes and windows the smallest designs in which mixing them up would
show; two kills are a kill of the command and of its repetition; one
edit or touch is before, during or after each command; seven freezes are more than one
edit and two stops call for.  Trainers of one task are interchangeable, which is the
only symmetry used.

Deadlock is not checked: each of these systems may stop for good, a run when it has
ended, a store when each call has.  What must not stop is stated as liveness.

### 3.1 Fairness

* `HostAdmission`: `WF(Tick)`, since `run_until_terminal` polls as long as the driver
  runs, and weak fairness of each worker's end.  `QueueDrains` is claimed of a driver
  that is not restarted; after a restart the planner may refuse (section 4).
* `ExecutionRuntime`: `WF(DriverStep)`: the driver is a sequential loop that waits for
  nobody, and an operator resumes a killed one as the runbook asks
  (`src/README.md:143`).  `WF(WorkerAdvances(a))`: an executor ends, with a result or
  an error.  Nothing is assumed of heartbeats, of `Judge`'s choice, or of kills.
* `QualificationReceipt`: one of the drivers goes on, and one that stopped is started
  again by somebody (weak fairness of all of `DriverMoves` together).  Nothing is
  assumed of the workers.  Kills are bounded by `MaxTroubles`.
* `ResearchContract`: the operator does what the script's last message asks for, until
  it asks for nothing (`WF(ContractWork)`).
* `FormalStudy`: `WF(Jobs)`: some runnable job runs, as the scheduler does while it or
  a resume ticks.  A worker that dies unreported is given no second try: `StudiesEnd`
  says that a study ends, fails, or has such a task.  Nobody has to launch E02, and no
  try has to go wrong.
* `RuntimeMonitor`: the server sends and identity requests are answered, the browser
  opens sockets, runs their callbacks and fires its timers.  Answers to the loads need
  not come.
* The other components have safety properties only: their commands end when typed.

## 4. Where code and documents disagree

Each of these is a run with `expect: violation`; a change of the code's behaviour that
is carried into the model makes it fail.

* `AdmissionRestart`.  A restarted driver plans with the memory the operating system
  reports as available, which already excludes its surviving workers, and subtracts
  their allocations again; the planner then raises over a ledger it produced.
* `RunVerdict`.  `run_until_terminal` reads the lost attempts, and the counts in a
  later transaction.  A worker that fails in between makes the run `FAILED` although
  its error is retryable and its retry unused.
* `RunResumed`.  Stage 2 and E02 resume without `reconcile_processes`; the row of a
  worker that died with the container stays RUNNING and the run waits for ever.

### 4.1 Other observations

These follow from the models; the properties state what remains true around them.

Runs:
* `reconcile_processes` stalls a live, identified worker whose heartbeat is older than
  the timeout and the attempt is retried, so two workers execute one task, where
  `src/docs/superpowers/specs/2026-08-25-stage1b-v2-design.md:459` asks that a
  restarted scheduler not start it again.  `OneWorkerUntilDisrupted` says it takes a
  restart; the ledger stays correct (`NeverRerun`).
* A `CUDA_OOM` retry lowers the packing level to `max(1, level - 1)`, and every runner
  enqueues at level 1 (`LowerPacking`).  A GPU request no card can hold is skipped at
  every tick without an error (`Fits`).  A worker killed under a driver that stays up
  keeps its RUNNING row (`ReadReady`).  An interruption uses up a task's only retry.
* A try whose artifact is stored and whose row is not closed - its worker killed, the
  disk failing `complete_attempt`, a resume taking it for lost - makes its own retry
  fail with `FileExistsError`, an `OSError`, and the run with it, unless the artifact
  holds a time: no artifact of E01, Stage 2 and E02 does, Stage 1B's receipt does
  (`FailureHasCause`, `OneVerdict`).
* Stage 1B and E01 read `completed_artifacts` twice per round; when the last task
  completes in between, a finished run raises "no ready work before completion".  A
  later resume returns the receipt (`ReceiptReturned`).
* E01's status command compares the number of attempts with the plan's and never says
  COMPLETED after a retry (`e01/v2_runtime.py:326`).
* A publisher killed after its first link leaves a payload without manifest, which
  every later publication of the content meets as `FileExistsError`; links are not
  followed by an fsync of the directory, so power loss may undo a publication that
  has returned.

Stage 1B:
* Two drivers may run one ledger: one may dispatch the receipt before the evidence it
  reads exists.  A driver that adopts a running receipt worker rewrites the evidence
  behind it.  A hardware probe repeated during a run fails the receipt job for good.
* The receipt's worker never reports progress (`stage1b/jobs.py:562`), so a driver that
  starts ten seconds after it did replaces it alive.  The first attempt may then write
  its summary after the second has completed: the summary is not the receipt the
  ledger names (`SummaryIsReceipt` says when).  Two such drivers use up both attempts
  and fail the receipt although no worker was lost (`FailureIsEarned`).
* `run_qualification` goes on over an auxiliary world that fails a structural check,
  where the graph's health job ends the run.

Commands:
* Stage 2 compiles its graph at launch and at resume and compares it with nothing:
  after an edit a resume opens a second run, where
  `src/docs/superpowers/plans/2026-08-31-stage2-e02-local-runtime.md:748` says
  "`resume` uses the same run ID and preserves all attempts."  Stage 2 and E02 launch
  with a prepared receipt that an edit has made stale.
* A repair killed between its commit and its receipt leaves READY attempts, which an
  ordinary resume runs without the device override.  A driver that opens the database,
  or the repair's own `CREATE TABLE`, changes its digest, so the repair is refused
  until restore-input; a leftover write-ahead log makes one such restore ineffective.
* Restore passes over a file that appeared between its two loops without hashing it.
  A second bundle is refused until the first one's receipt is removed, and the
  preflight does not hash the checkout again.
* Every job of E01 reads the configuration: the world may change in the middle of a
  run, and the final report names the one of the aggregation.  A run may end FAILED
  with a verdict in the store, the verdict of a lost try.
* A crash during an authorized overwrite of the Stage 0 contract lets the next freeze
  replace it without authorization or receipt, where
  `src/docs/auth/TARCA_STAGE0_HANDOFF_SNAPSHOT_2026-08-20.md:37` demands both;
  left-over old records make verify and complete fail until another overwrite.

Studies:
* An expired grant raises `PermissionError`, an `OSError`, which is `TRANSIENT_IO` and
  retried once (`execution/worker.py:32`).  `Stage2FreezeRejected` wraps write errors,
  so a transient one is not retried; a freeze lost after its directory was made is
  refused by its own retry.  A complete freeze directory lets E02 launch although its
  Stage 2 run FAILED.  The decision NOT_EVALUABLE cannot be reached by the jobs.

Monitor:
* An identity request that is refused while its socket stays open stays cached and
  leaves the page with its error (`CatchesUp`).

## 5. What TLAPS proves

All theorems hold for every value of the constants the assumptions allow: any sets of
tasks, artifacts, workers, operators, drivers, freezes, calls, and any bounds.

| Module | Theorems | Argument |
|---|---|---|
| `AttemptLedgerProofs` | `LedgerInvariant`, `LedgerTypeCorrect`, `RetryIsSafe`, `ProvenanceIsStable`, `OutcomesAreVerified`, `CompletedIsFinal`, `LedgerImplementsPromise` | `RetryFollowsLoss` is not inductive alone: a completion call in flight may commit to a row that a stall verdict and a retry have passed by, and one has to know that the compare-and-set sees a row that is no longer RUNNING.  `ProvenanceStable` needs that a dependency's outcome cannot change, hence that no second attempt stands beside a completed first one, that completed rows name artifacts (`RowsAreVerified`) and that calls between their halves hold verified ones (`CallsAreVerified`). |
| `ExecutionRuntimeProofs` | `RuntimeInvariant`, `RuntimeUsesLedger`, `RunsNeverRerun`, `RunsKeepPromise`, `LaunchesAreAlwaysDue`, `OneWorkerAtATime`, `HostIsAlwaysShared` | The ledger's invariant and what it needs of the workers; every step of driver, workers and surroundings is a ledger step or leaves the ledger alone, so the ledger's theorems hold of every run.  Until a disruption the only driver has reconciled an empty ledger, so a row is lost only when its own worker says so and ends (`UndisruptedOK`): a retry never meets a live worker.  That RUNNING rows fit the host is not inductive: between a plan and its claims a driver holds grants no row shows.  `SharingOK` says it of what is *promised*, the grants of the rows together with the launches still to be made; a claim moves a grant from one to the other, and a plan is made of what both leave. |
| `AdmissionProofs` | `NeverOvercommitted`, `TicksAreGreedy`, `SearchFindsCircles`, `OnePlanEver` | Of the host: a restarted driver may measure less memory than there is, never more (`MemoryOK`), so what fits its capacity fits the host; queue, running jobs and grants stay apart (`QueueOK`, `GrantsOK`), so a plan starts what nothing runs yet; the rest is what a plan grants (below).  Of the plan: the search's recursive function exists because a call's path is longer than its caller's (`Right`, by the depth that is left); every task on the path waits for one on it or for the next (`LeadsTo`), so a task met again closes a circle, and what has been visited is closed under dependencies and free of circles (`Settled`).  Drivers past `create_run` found their graph, those past the validation have a feasible plan (`BindingInv`), and rows are written once. |
| `ResourcePlanProofs` | (lemmas) | Sums over finite sets, the planner's loop as a recursive function, and that what it grants fits next to what runs, request by request. |
| `StudyProofs` | `TrainingTyped`, `TrainingIsStraight`, `TrainingIsSafe`, `StudiesInOrder`, `FormalDataAreSealed`, `FailuresHaveCauses`, `VerdictsAreEarned` | Of `TrainingInv`'s three parts `StraightTraining` is inductive with the types: one more epoch of a straight state is straight, and files and memories only hold such states.  For when a training stops, the stopping epoch exists and is the only one of its kind (`StopEpochStops`), and each worker's position is known relative to it (`PlannedInv`); for the receipt, whose file it is while workers do not overlap (`OwnedInv`).  Of the studies: what is done stays done and follows its dependencies, so the material of the frozen suite is complete, and its manifest is what the selection says, before E02 can verify it (`FrozenInOrder`).  A second try is after one that went wrong or was refused the data, a stored artifact without its row comes of one that went wrong (`Mishaps`), causes stay, and the final directory is the decision's, made once (`TriesOK`).  For the verdict, the primary initialization is the one best (`BestIsChosen`, `OneIsBest`), a manifest with a primary is a written one and names the selection, and the decision is made once of evidence that does not change any more (`ChosenOK`). |
| `StageOneProofs` | `FreezeTyped`, `FreezeInvariant`, `ExchangesAreUndone`, `NamedSuiteAlwaysSurvives`, `FreezeIsSafe`, `ReplacementsAreAuthorized`, `SourcesInvariant`, `RecordedImportsAreWhole`, `ImportsCanBeRepeated`, `QualificationIsRight`, `DataAreAsDesigned` | In turn, the position of the one busy call (`Position`) determines what stands in the directory, in the pointer and aside.  Of the capsules: nothing removes a checkout, so an import keeps what it has passed (`Informed`), and a receipt that mixes two builds names a builder whose archive is written and no longer there, so no later archive can match it (`Harmless`).  Of the qualification: once every candidate was tried, the gates' checks succeed exactly for those that earned it (`SuccessIsDeserved`, where `Earned` names all of the thresholds), and what is decided then rests on nothing that changes any more (`FairForGood`); a finished task is behind everything it needs, and everything is needed for the receipt (`Studied`, `WholeGraph`).  Of the data: `DataInv` speaks of artifacts and scores only, and is not inductive; `DataIInv` says of every maker at work that its items are those of the design, in order, and its records the first of them, none of which failed (`InTheMidst`), so a complete list of records is `WorkItems` (`RecordsAreWork`).  Store and accepted artifacts are then the one artifact a task can have (`Good`): whichever pool, try or reader it went through, it reads back as published (`ReloadedIs`), its windows meet the design (`DesignedIsMet`, where regimes taken in turn are used evenly, `TurnsAreEven`), and forecasts and targets are the same windows in the same order (`ForecastFine`, `ScoreFine`), which scoring never has to refuse. |
| `CommandProofs` | `CommandsInvariant`, `OneGraphPerLedger`, `RunsWereChecked`, `RepairInvariant`, `RepairIsKept`, `RestoresAreHonest`, `CompletedIsNeverEarly`, `GateIsSound` | What a database can hold is decided before it exists: by the prepared receipt in E01 (`PreparedInv`), by the one busy command and its launch receipt in E02 (`ReceiptDecides`), by the inputs in Stage 2 (`GraphsInv`).  Of the repair: the one busy command knows whether it is authorized (`BusyInv`), and attempts in the ledger have an authorization, a repair at work or a killed one as their cause (`AttemptsHaveCause`).  Of the restore: what it has passed or looked at is archived or was changed by others meanwhile (`Knows`), and files become foreign only by a foreign hand (`ForeignHand`).  Of the dashboard: every snapshot on its way to the page is of the ledger's past (`ViewsOK`), and a ledger that was complete once does not move any more (`ShownInv`).  Of the gate: a report made by and of one configuration has the criteria its seed has met (`ReportsOK`); no verdict is made before all reports are there, and reports do not change any more, so every verdict of a world is what they make of it, whichever try made it and however often the world was edited to and fro (`VerdictsOK`); a run out of tries has lost both or met a stored verdict; two criteria that each fail on few seeds hold together on the rest (`TwoMargins`, `CountedIsMeasured`). |
| `RecordProofs` | `AgreeInvariant`, `ReceiptsAgree`, `FailuresAreEarned`, `RecordsInvariant`, `ContractsAreAccountable`, `PublicationInvariant`, `AcceptedIsWhole`, `ReturnedKeepsVerifying`, `StoreImplementsPublished` | Of the Stage 1B receipt: only a worker that was taken for lost is at work beside the row's own, or after it, and what a worker has published is a receipt before it is a summary (`RowsInv`); with one driver at a time and one probe the evidence names that probe before a worker is launched, no job refuses it, and every lost attempt - or running row that its driver has left - has a trouble of its own (`EarnedInv`); what that driver measured is what its worker publishes, while no driver adopts a worker (`StaysInv`).  Of the Stage 0 contract: what a command has written when it is at a step (`StepInv`); a published record leaves its file only for the archive made for this freeze (`KeptInv`); receipts lead from archive to archive while nothing stops (`TrailInv`).  Of the store: the payload file is a lock (`OneAtWork`), so files appear and disappear in a fixed order, on disk too; a manifest read under a marker can only be the marker's.  Its last two assume `~PowerFails`. |

The assumptions are those of the modules that declare the constants: what the code's
validators and configuration files let through (`HostAssumption`,
`RequestAssumption`, `PlansAssumption`, `MeasurementsAssumption`,
`OutcomesAssumption`), that a plan is a sequence and no fingerprint is the mark of
absence (`OffersAssumption`), and finite sets where the code has a list.  Those of the
data are what the configurations enforce: regimes unique in a world
(`RegimeAssumption`, `stage1b/config.py:396`), seeds without repetition
(`stage1b/config.py:667`, `stage2/config.py:111`, `e02/config.py:148`) and positive
counts (`stage1b/config.py:544`) in `DesignAssumption`, a trajectory long enough for a
window in `LengthAssumption`.  `AssignmentAssumption` keeps Stage 1B's comparison and
E02's scores, which share a variable, in behaviours of their own.  TLC evaluates each of
them on the run of its module.

Sums, folds, the planner's loop and the search are recursive functions.  The library's
induction theorems cannot be instantiated, so existence and values are proved without
them: of the subsets (or numbers) for which a claim fails take a smallest one
(`SmallestSet`, `LeastNumber`), and the claim for its parts refutes it.

Filters and nested loops are `FlattenSeq` of the community modules, a fold.  What it
returns is proved the same way (`FlattenSeqIs`, `FilteredIs`): which elements it has, and that
none comes twice when no two parts share one.  The order of the elements is nowhere
needed beyond that two readers cut the same sequence.

**Only model-checked.**  Liveness (`QueueDrains`, `RunEnds`, `ReceiptReturned`,
`ContractEnds`, `StudiesEnd`, `CatchesUp`) is beyond the prover.  Every invariant and every
action property that a passing run checks is also a theorem.

## 6. Plan and limits

Worth doing next: a second driver inside `ExecutionRuntime` (it is in
`QualificationReceipt` and `RunPlan` for what they keep).

Not modelled, and why:

* progress, resource samples and alerts: rows that nothing in the scheduler reads back;
* the capsules of `recover_stage2`: no command reads them;
* the numeric parts (the equations of the worlds, models, estimators, oracles, bootstrap, metrics, probes):
  functions without shared state, which appear as any of a few values;
* `artifacts/freeze.py`: a list of paths;
* `decide_gpu_packing`, `select_ddp_mode`, `select_precision`: pure thresholds;
* contracts, data access, registry, argument parsing, deployment scripts: immutable
  value types and glue.

## 7. Running it

```
tlc -workers 2 -config RunEnding.cfg MCExecutionRuntime
tlc -workers 2 -config StageCommands.cfg MCStageRuntime
tlapm AdmissionProofs.tla
```

The largest run, `StageOne`, has about 768,000 distinct states and `StageCommands`
about 749,000; each takes a few minutes with two workers.
