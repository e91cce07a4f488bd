----------------------- MODULE ExecutionRuntimeProofs -----------------------
(***************************************************************************)
(* Every step of a driver, of a worker or of their surroundings is, to the *)
(* run ledger, one operation of the open ledger or no step at all.  What   *)
(* AttemptLedgerProofs proves of the open ledger therefore holds of every  *)
(* run, whatever is killed and restarted.                                  *)
(***************************************************************************)
EXTENDS ExecutionRuntime, AttemptLedgerProofs, ResourcePlanProofs

\* A worker in the midst of publishing holds a real artifact.
WorkersOK ==
  /\ proc \in [Attempts -> Phases]
  /\ made \in [Attempts -> Artifacts \cup {None}]
  /\ \A a \in Attempts : proc[a] = "linked" => made[a] \in Artifacts

RuntimeInv == LedgerInv /\ WorkersOK

LEMMA RuntimeInitInv == RuntimeInit => RuntimeInv
<1>1. RuntimeInit => LedgerInv
  BY InitInv DEF RuntimeInit
<1>2. RuntimeInit => WorkersOK
  BY DEF RuntimeInit, WorkersOK, Phases
<1> QED
  BY <1>1, <1>2 DEF RuntimeInv

-----------------------------------------------------------------------------
(* Each step is a ledger operation or leaves the ledger alone. *)

\* What the driver registers, it registers with completed artifacts.
LEMMA RegisterIsLedgerStep ==
  ASSUME LedgerInv, NEW t \in Tasks, Register(t)
  PROVE  [LedgerNext]_ledgerVars
<1>1. CASE t \in queued
  BY <1>1 DEF Register
<1>2. CASE t \notin queued
  <2> DEFINE ins == [d \in Deps[t] |-> Outcome(d)]
  <2>1. EnqueueTask(t, ins, 1)
    BY <1>2 DEF Register
  <2>2. \A d \in Deps[t] : d \in Tasks /\ Outcome(d) # None
    BY <2>1, DepsAssumption DEF EnqueueTask
  <2>3. ins \in [Deps[t] -> Artifacts]
    BY <2>2, RowsOfTask DEF Outcome, LedgerInv, TypeOK
  <2>4. 1 \in Levels
    BY PackingAssumption DEF Levels
  <2> QED
    BY <2>1, <2>3, <2>4 DEF LedgerNext
<1> QED
  BY <1>1, <1>2

\* What the driver retries, it retries with a category of the ledger.
LEMMA RetryIsLedgerStep ==
  ASSUME LedgerInv, NEW a \in Attempts, RetryOne(a)
  PROVE  [LedgerNext]_ledgerVars
<1>1. CASE Retries(a)
  <2>1. RetryAttempt(a, LossCategory(a), LossCategory(a) = "CUDA_OOM")
    BY <1>1 DEF RetryOne
  <2>2. LossCategory(a) \in Categories
    BY RaisedAssumption DEF LossCategory, LedgerInv, TypeOK
  <2>3. (LossCategory(a) = "CUDA_OOM") \in BOOLEAN
    OBVIOUS
  <2> QED
    BY <2>1, <2>2, <2>3 DEF LedgerNext
<1>2. CASE ~Retries(a)
  BY <1>2 DEF RetryOne
<1> QED
  BY <1>1, <1>2

LEMMA DriverIsLedgerStep ==
  ASSUME LedgerInv, DriverStep
  PROVE  [LedgerNext]_ledgerVars
<1> USE DEF LedgerInv, TypeOK
<1>1. CASE StartDriver \/ MarkDone \/ CheckCompleted \/ CompileReady \/ RegisterDone
  BY <1>1 DEF StartDriver, MarkDone, CheckCompleted, CompileReady, RegisterDone
<1>2. CASE ReadReady \/ PlanTick \/ SpawnWorker \/ TickDone
  BY <1>2 DEF ReadReady, PlanTick, SpawnWorker, TickDone
<1>3. CASE ReadLost \/ RetryDone \/ Judge
  BY <1>3 DEF ReadLost, RetryDone, Judge
<1>4. CASE Reconcile
  <2>1. Live \cap bound \in SUBSET bound /\ ScanRunning(Live \cap bound)
    BY <1>4 DEF Reconcile
  <2> QED
    BY <2>1 DEF LedgerNext
<1>5. CASE MarkOne
  BY <1>5 DEF MarkOne, LedgerNext
<1>6. CASE \E t \in Tasks : Register(t)
  BY <1>6, RegisterIsLedgerStep
<1>7. CASE ClaimNext
  BY <1>7 DEF ClaimNext, LedgerNext
<1>8. CASE BindWorker
  BY <1>8 DEF BindWorker, LedgerNext
<1>9. CASE \E a \in Attempts : RetryOne(a)
  BY <1>9, RetryIsLedgerStep
<1>10. CASE TerminateAll
  <2>1. CallsOf(handles) \in SUBSET verified /\ {} \in SUBSET suspects
    BY DEF CallsOf
  <2>2. CallersDie(CallsOf(handles), {})
    BY <1>10 DEF TerminateAll
  <2> QED
    BY <2>1, <2>2 DEF LedgerNext
<1> QED
  BY <1>1, <1>2, <1>3, <1>4, <1>5, <1>6, <1>7, <1>8, <1>9, <1>10 DEF DriverStep

\* A worker that fails closes its own row, if that is still running.
LEMMA FailureIsLedgerStep ==
  ASSUME NEW a \in Attempts, NEW category \in Categories, WorkerFails(a, category)
  PROVE  [LedgerNext]_ledgerVars
BY DEF WorkerFails, LedgerNext

LEMMA WorkerIsLedgerStep ==
  ASSUME RuntimeInv, NEW a \in Attempts, WorkerAdvances(a) \/ WorkerReports(a)
  PROVE  [LedgerNext]_ledgerVars
<1> USE DEF RuntimeInv, LedgerInv, TypeOK
<1>1. CASE WorkerStarts(a)
  BY <1>1 DEF WorkerStarts
<1>2. CASE \E category \in Categories : ExecutorRaises(a, category)
  BY <1>2, FailureIsLedgerStep DEF ExecutorRaises
<1>3. ASSUME NEW x \in Artifacts, LinkArtifact(a, x) PROVE [LedgerNext]_ledgerVars
  BY <1>3, FailureIsLedgerStep, RaisedAssumption DEF LinkArtifact
<1>4. CASE PublicationRaises(a)
  BY <1>4, FailureIsLedgerStep, RaisedAssumption DEF PublicationRaises
<1>5. CASE SealArtifact(a)
  BY <1>5 DEF SealArtifact, WorkersOK, LedgerNext
<1>6. CASE CheckResult(a)
  <2>1. CASE state[a] = "RUNNING"
    <3>1. CheckCompletion(a, made[a])
      BY <1>6, <2>1 DEF CheckResult
    <3>2. made[a] \in Artifacts
      BY <3>1 DEF CheckCompletion
    <3> QED
      BY <3>1, <3>2 DEF LedgerNext
  <2>2. CASE state[a] # "RUNNING"
    BY <1>6, <2>2 DEF CheckResult
  <2> QED
    BY <2>1, <2>2
<1>7. CASE CommitResult(a)
  <2>1. CommitCompletion(a, made[a]) \/ RefuseCompletion(a, made[a])
    BY <1>7 DEF CommitResult
  <2>2. made[a] \in Artifacts
    BY <2>1 DEF CommitCompletion, RefuseCompletion
  <2> QED
    BY <2>1, <2>2 DEF LedgerNext
<1>8. CASE WorkerReports(a)
  BY <1>8 DEF WorkerReports, ReportProgress, LedgerNext
<1> QED
  BY <1>1, <1>2, <1>3, <1>4, <1>5, <1>6, <1>7, <1>8 DEF WorkerAdvances

LEMMA SurroundingsAreLedgerStep ==
  ASSUME Surroundings
  PROVE  [LedgerNext]_ledgerVars
<1>1. \A attempts : CallsOf(attempts) \in SUBSET verified
  BY DEF CallsOf
<1>2. \A calls \in SUBSET verified, verdicts \in SUBSET suspects :
        CallersDie(calls, verdicts) => LedgerNext
  BY DEF LedgerNext
<1>3. CASE Interrupt \/ DriverDies
  BY <1>2, <1>3 DEF Interrupt, DriverDies
<1>4. CASE ContainerDies
  BY <1>2, <1>4 DEF ContainerDies
<1>5. CASE \E a \in Attempts : WorkerDies(a)
  BY <1>1, <1>2, <1>5 DEF WorkerDies
<1>6. CASE \E a \in Attempts : TimePasses(a)
  BY <1>6 DEF TimePasses, LedgerNext
<1> QED
  BY <1>3, <1>4, <1>5, <1>6 DEF Surroundings

LEMMA StepIsLedgerStep ==
  ASSUME RuntimeInv, [RuntimeNext]_runtimeVars
  PROVE  [LedgerNext]_ledgerVars
<1>1. CASE DriverStep
  BY <1>1, DriverIsLedgerStep DEF RuntimeInv
<1>2. CASE \E a \in Attempts : WorkerAdvances(a) \/ WorkerReports(a)
  BY <1>2, WorkerIsLedgerStep
<1>3. CASE Surroundings
  BY <1>3, SurroundingsAreLedgerStep
<1>4. CASE UNCHANGED runtimeVars
  BY <1>4 DEF runtimeVars
<1> QED
  BY <1>1, <1>2, <1>3, <1>4 DEF RuntimeNext

-----------------------------------------------------------------------------
(* The invariant of the composition. *)

\* A publishing worker keeps the artifact it linked until it ends.
LEMMA WorkersStep ==
  ASSUME RuntimeInv, [RuntimeNext]_runtimeVars
  PROVE  WorkersOK'
<1> USE DEF RuntimeInv, WorkersOK
<1>1. ASSUME UNCHANGED workerVars PROVE WorkersOK'
  BY <1>1 DEF workerVars
<1>2. ASSUME NEW attempts, proc' = Killed(attempts), UNCHANGED made PROVE WorkersOK'
  BY <1>2 DEF Killed, Phases
<1>3. CASE DriverStep
  <2>1. CASE SpawnWorker
    BY <2>1 DEF SpawnWorker, Phases
  <2>2. CASE TerminateAll
    BY <1>2, <2>2 DEF TerminateAll
  <2> QED
    BY <1>1, <1>3, <2>1, <2>2 DEF DriverStep, StartDriver, Reconcile, MarkOne, MarkDone, CheckCompleted,
       CompileReady, RegisterDone, Register, ReadReady, PlanTick, ClaimNext, BindWorker, TickDone,
       ReadLost, RetryDone, Judge, RetryOne
<1>4. ASSUME NEW a \in Attempts, WorkerAdvances(a) PROVE WorkersOK'
  <2>1. CASE WorkerStarts(a)
    BY <2>1 DEF WorkerStarts, Phases
  <2>2. ASSUME NEW category, WorkerFails(a, category) PROVE WorkersOK'
    BY <2>2 DEF WorkerFails, Phases
  <2>3. CASE \E category \in Categories : ExecutorRaises(a, category)
    BY <2>2, <2>3 DEF ExecutorRaises
  <2>4. ASSUME NEW x \in Artifacts, LinkArtifact(a, x) PROVE WorkersOK'
    BY <2>2, <2>4 DEF LinkArtifact, Phases
  <2>5. CASE PublicationRaises(a)
    BY <2>2, <2>5 DEF PublicationRaises
  <2>6. CASE SealArtifact(a) \/ CheckResult(a) \/ CommitResult(a)
    BY <2>6 DEF SealArtifact, CheckResult, CommitResult, Phases
  <2> QED
    BY <1>4, <2>1, <2>3, <2>4, <2>5, <2>6 DEF WorkerAdvances
<1>5. ASSUME NEW a \in Attempts, WorkerReports(a) PROVE WorkersOK'
  BY <1>5 DEF WorkerReports, ReportProgress, Phases
<1>6. CASE Surroundings
  <2>1. CASE Interrupt \/ DriverDies \/ \E a \in Attempts : TimePasses(a)
    BY <1>1, <2>1 DEF Interrupt, DriverDies, TimePasses
  <2>2. CASE ContainerDies \/ \E a \in Attempts : WorkerDies(a)
    BY <1>2, <2>2 DEF ContainerDies, WorkerDies
  <2> QED
    BY <1>6, <2>1, <2>2 DEF Surroundings
<1>7. CASE UNCHANGED runtimeVars
  BY <1>1, <1>7 DEF runtimeVars
<1> QED
  BY <1>3, <1>4, <1>5, <1>6, <1>7 DEF RuntimeNext

\* The ledger's invariant holds throughout every run.
THEOREM RuntimeInvariant == RuntimeSpec => []RuntimeInv
<1>1. RuntimeInv /\ [RuntimeNext]_runtimeVars => RuntimeInv'
  <2> SUFFICES ASSUME RuntimeInv, [RuntimeNext]_runtimeVars PROVE RuntimeInv'
    OBVIOUS
  <2>1. [LedgerNext]_ledgerVars
    BY StepIsLedgerStep
  <2>2. LedgerInv'
    BY <2>1, TypeStep, RetryStep, VerifiedStep, ProvenanceStep DEF RuntimeInv, LedgerInv
  <2> QED
    BY <2>2, WorkersStep DEF RuntimeInv
<1> QED
  BY <1>1, RuntimeInitInv, PTL DEF RuntimeSpec

\* Drivers and workers use the ledger only as AttemptLedger allows, for every
\* graph, runner, host and number of kills.
THEOREM RuntimeUsesLedger == RuntimeSpec => UsesLedger
<1>1. RuntimeInit => LedgerInit
  BY DEF RuntimeInit
<1>2. RuntimeInv /\ [RuntimeNext]_runtimeVars => [LedgerNext]_ledgerVars
  BY StepIsLedgerStep
<1> QED
  BY <1>1, <1>2, RuntimeInvariant, PTL DEF RuntimeSpec, UsesLedger, LedgerSpec

\* No kill, restart or retry changes what a completed task produced or makes
\* any of its rows move again.
THEOREM RunsNeverRerun == RuntimeSpec => NeverRerun
BY RuntimeUsesLedger, CompletedIsFinal, PTL DEF UsesLedger

\* Every run keeps the promise made to the research graph.
THEOREM RunsKeepPromise == RuntimeSpec => ImplementsPromise
BY RuntimeUsesLedger, LedgerImplementsPromise, PTL DEF UsesLedger

-----------------------------------------------------------------------------
(* A worker is only started for a row that is due. *)

\* A row that nobody claimed has no process, and between the claim and the
\* start of its worker nothing touches the claimed row.
ClaimsOK ==
  /\ \A a \in Attempts : state[a] \in {"ABSENT", "READY"} => proc[a] = "none"
  /\ pc = "spawn" => \E a \in Attempts : IsNext(a) /\ state[a] = "RUNNING" /\ proc[a] = "none"

\* A worker moves no row but its own, which has a process.
LEMMA WorkerMovesItsRow ==
  ASSUME RuntimeInv, NEW a \in Attempts, WorkerAdvances(a) \/ WorkerReports(a)
  PROVE  /\ proc[a] # "none"
         /\ \A b \in Attempts : b # a => state'[b] = state[b] /\ proc'[b] = proc[b]
         /\ state'[a] \in {"ABSENT", "READY"} => state[a] \in {"ABSENT", "READY"}
         /\ state'[a] = "RUNNING" => state[a] = "RUNNING"
         /\ UNCHANGED <<queued, pc, plan>>
<1> DEFINE Goal == /\ proc[a] # "none"
                   /\ \A b \in Attempts : b # a => state'[b] = state[b] /\ proc'[b] = proc[b]
                   /\ state'[a] \in {"ABSENT", "READY"} => state[a] \in {"ABSENT", "READY"}
                   /\ state'[a] = "RUNNING" => state[a] = "RUNNING"
                   /\ UNCHANGED queued
<1> USE DEF RuntimeInv, LedgerInv, TypeOK, WorkersOK
<1>1. UNCHANGED <<pc, plan>>
  BY DEF WorkerAdvances, WorkerReports, driverVars
<1> SUFFICES Goal
  BY <1>1
<1>2. CASE WorkerStarts(a)
  BY <1>2 DEF WorkerStarts, ledgerVars, attemptVars
<1>3. ASSUME NEW category, WorkerFails(a, category), proc[a] # "none" PROVE Goal
  BY <1>3 DEF WorkerFails, FailAttempt, ledgerVars, attemptVars
<1>4. CASE \E category \in Categories : ExecutorRaises(a, category)
  BY <1>3, <1>4 DEF ExecutorRaises
<1>5. ASSUME NEW x \in Artifacts, LinkArtifact(a, x) PROVE Goal
  BY <1>3, <1>5 DEF LinkArtifact, ledgerVars, attemptVars
<1>6. CASE PublicationRaises(a)
  BY <1>3, <1>6 DEF PublicationRaises
<1>7. CASE SealArtifact(a)
  BY <1>7 DEF SealArtifact, StoreArtifact, attemptVars
<1>8. CASE CheckResult(a)
  BY <1>8 DEF CheckResult, CheckCompletion, ledgerVars, attemptVars
<1>9. CASE CommitResult(a)
  BY <1>9 DEF CommitResult, CommitCompletion, RefuseCompletion, attemptVars
<1>10. CASE WorkerReports(a)
  BY <1>10 DEF WorkerReports, ReportProgress, Heartbeat, ledgerVars, attemptVars
<1> QED
  BY <1>2, <1>4, <1>5, <1>6, <1>7, <1>8, <1>9, <1>10 DEF WorkerAdvances

LEMMA ClaimsStep ==
  ASSUME RuntimeInv, ClaimsOK, [RuntimeNext]_runtimeVars
  PROVE  ClaimsOK'
<1> USE DEF RuntimeInv, LedgerInv, TypeOK, WorkersOK, ClaimsOK
<1>1. ASSUME UNCHANGED <<state, proc>>, pc' # "spawn" PROVE ClaimsOK'
  BY <1>1
<1>2. CASE DriverStep
  <2>1. CASE StartDriver \/ MarkDone \/ CheckCompleted \/ CompileReady \/ RegisterDone
    BY <1>1, <2>1 DEF StartDriver, MarkDone, CheckCompleted, CompileReady, RegisterDone,
       ledgerVars, attemptVars, workerVars
  <2>2. CASE ReadReady \/ PlanTick \/ TickDone \/ ReadLost \/ RetryDone \/ Judge
    BY <1>1, <2>2 DEF ReadReady, PlanTick, TickDone, ReadLost, RetryDone, Judge,
       ledgerVars, attemptVars, workerVars
  <2>3. CASE Reconcile
    BY <1>1, <2>3 DEF Reconcile, ScanRunning, attemptVars, workerVars
  <2>4. CASE MarkOne
    BY <2>4 DEF MarkOne, MarkStalled, workerVars
  <2>5. ASSUME NEW t \in Tasks, Register(t) PROVE ClaimsOK'
    <3>1. CASE t \in queued
      BY <1>1, <2>5, <3>1 DEF Register, ledgerVars, attemptVars, workerVars
    <3>2. CASE t \notin queued
      <4>1. state[<<t, 1>>] = "ABSENT" /\ proc[<<t, 1>>] = "none"
        BY <3>2, RowsOfTask DEF RowsAreQueued
      <4>2. state' = [state EXCEPT ![<<t, 1>>] = "READY"] /\ UNCHANGED proc /\ pc' # "spawn"
        BY <2>5, <3>2 DEF Register, EnqueueTask, workerVars
      <4> QED
        BY <4>1, <4>2
    <3> QED
      BY <3>1, <3>2
  <2>6. CASE ClaimNext
    <3>1. PICK a \in Attempts : IsNext(a) /\ ClaimAttempt(a)
      BY <2>6 DEF ClaimNext
    <3>2. state[a] = "READY" /\ state' = [state EXCEPT ![a] = "RUNNING"] /\ UNCHANGED <<plan, proc>>
      BY <2>6, <3>1 DEF ClaimNext, ClaimAttempt, DependencyReady, workerVars
    <3> QED
      BY <3>1, <3>2 DEF IsNext
  <2>7. CASE SpawnWorker
    <3>1. PICK a \in Attempts : IsNext(a) /\ proc' = [proc EXCEPT ![a] = "starting"]
      BY <2>7 DEF SpawnWorker
    <3>2. state[a] = "RUNNING" /\ UNCHANGED state /\ pc' = "bind"
      BY <2>7, <3>1 DEF SpawnWorker, IsNext, ledgerVars, attemptVars
    <3> QED
      BY <3>1, <3>2
  <2>8. CASE BindWorker
    <3>1. PICK a \in Attempts : \/ BindRunningProcess(a) /\ state[a] = "RUNNING"
                                \/ UNCHANGED ledgerVars
      BY <2>8 DEF BindWorker
    <3>2. UNCHANGED state /\ UNCHANGED proc /\ pc' # "spawn"
      BY <2>8, <3>1 DEF BindWorker, BindRunningProcess, ledgerVars, attemptVars, workerVars
    <3> QED
      BY <1>1, <3>2
  <2>9. ASSUME NEW a \in Attempts, RetryOne(a) PROVE ClaimsOK'
    <3>1. CASE Retries(a)
      <4>1. /\ state[<<a[1], 2>>] = "ABSENT"
            /\ state' = [state EXCEPT ![<<a[1], 2>>] = "READY"]
            /\ UNCHANGED proc
            /\ pc' # "spawn"
        BY <2>9, <3>1 DEF RetryOne, RetryAttempt, workerVars
      <4> QED
        BY <4>1, RowsOfTask
    <3>2. CASE ~Retries(a)
      BY <1>1, <2>9, <3>2 DEF RetryOne, ledgerVars, attemptVars, workerVars
    <3> QED
      BY <3>1, <3>2
  <2>10. CASE TerminateAll
    BY <2>10 DEF TerminateAll, Ended, Killed, Live, CallersDie, attemptVars
  <2> QED
    BY <1>2, <2>1, <2>2, <2>3, <2>4, <2>5, <2>6, <2>7, <2>8, <2>9, <2>10 DEF DriverStep
<1>3. ASSUME NEW a \in Attempts, WorkerAdvances(a) \/ WorkerReports(a) PROVE ClaimsOK'
  BY <1>3, WorkerMovesItsRow DEF IsNext
<1>4. CASE Surroundings
  <2>1. CASE Interrupt \/ DriverDies
    BY <1>1, <2>1 DEF Interrupt, DriverDies, CallersDie, attemptVars, workerVars
  <2>2. CASE ContainerDies
    BY <2>2 DEF ContainerDies, CallersDie, attemptVars, Killed, Live, Steps
  <2>3. CASE \E a \in Attempts : WorkerDies(a)
    BY <2>3 DEF WorkerDies, CallersDie, attemptVars, Killed, Live, driverVars, IsNext
  <2>4. CASE \E a \in Attempts : TimePasses(a)
    BY <2>4 DEF TimePasses, HeartbeatExpires, attemptVars, driverVars, workerVars, IsNext
  <2> QED
    BY <1>4, <2>1, <2>2, <2>3, <2>4 DEF Surroundings
<1>5. CASE UNCHANGED runtimeVars
  BY <1>5 DEF runtimeVars, ledgerVars, attemptVars, driverVars, workerVars, IsNext
<1> QED
  BY <1>2, <1>3, <1>4, <1>5 DEF RuntimeNext

\* The other row of a task with a RUNNING row is no obstacle: it is lost or
\* absent.
LEMMA RunningIsUnfinished ==
  ASSUME LedgerInv, NEW a \in Attempts, state[a] = "RUNNING"
  PROVE  a[1] \in Tasks /\ ~Completed(a[1])
<1>1. PICK t \in Tasks, n \in Numbers : a = <<t, n>>
  BY DEF Attempts
<1>2. n = 1 \/ n = 2
  BY DEF Numbers
<1>3. state[<<t, 2>>] # "ABSENT" => state[<<t, 1>>] \in Lost
  BY DEF LedgerInv, RetryFollowsLoss
<1>4. state[<<t, 1>>] # "COMPLETED" /\ state[<<t, 2>>] # "COMPLETED"
  BY <1>1, <1>2, <1>3 DEF Lost
<1> QED
  BY <1>1, <1>4 DEF Completed, Numbers

\* The inputs of a registered task verify.
LEMMA InputsAreStored ==
  ASSUME LedgerInv, NEW t \in queued, NEW d \in Deps[t]
  PROVE  input[t][d] \in stored
<1>1. t \in Tasks /\ d \in Tasks
  BY DepsAssumption DEF LedgerInv, TypeOK
<1>2. input[t][d] = Outcome(d) /\ Outcome(d) # None
  BY DEF LedgerInv, ProvenanceStable
<1> QED
  BY <1>1, <1>2, RowsOfTask DEF Outcome, LedgerInv, RowsAreVerified

\* No worker is started for a finished task or on inputs that do not verify.
THEOREM LaunchesAreAlwaysDue == RuntimeSpec => LaunchesAreDue
<1>1. RuntimeInit => ClaimsOK
  BY DEF RuntimeInit, ClaimsOK
<1>2. RuntimeInv /\ ClaimsOK /\ [RuntimeNext]_runtimeVars => ClaimsOK'
  BY ClaimsStep
<1> DEFINE Due == \A a \in Attempts : proc[a] = "none" /\ proc'[a] = "starting" =>
                    /\ state[a] = "RUNNING" /\ ~Completed(a[1])
                    /\ \A d \in Deps[a[1]] : input[a[1]][d] \in stored
<1>3. RuntimeInv /\ ClaimsOK /\ [RuntimeNext]_runtimeVars => [Due]_runtimeVars
  <2> SUFFICES ASSUME RuntimeInv, ClaimsOK, [RuntimeNext]_runtimeVars,
                      NEW a \in Attempts, proc[a] = "none", proc'[a] = "starting"
               PROVE  state[a] = "RUNNING"
    <3> SUFFICES ASSUME RuntimeInv, ClaimsOK, [RuntimeNext]_runtimeVars,
                        NEW a \in Attempts, state[a] = "RUNNING"
                 PROVE  /\ ~Completed(a[1])
                        /\ \A d \in Deps[a[1]] : input[a[1]][d] \in stored
      OBVIOUS
    <3>1. PICK t \in Tasks, n \in {1, 2} : a = <<t, n>>
      BY DEF Attempts, Numbers
    <3>2. a[1] \in queued
      BY <3>1 DEF RuntimeInv, LedgerInv, RowsAreQueued
    <3> QED
      BY <3>2, RunningIsUnfinished, InputsAreStored DEF RuntimeInv
  <2> USE DEF RuntimeInv, WorkersOK
  <2>1. CASE DriverStep
    <3>1. CASE SpawnWorker
      BY <3>1 DEF SpawnWorker, ClaimsOK, IsNext
    <3>2. CASE TerminateAll
      BY <3>2 DEF TerminateAll, Killed
    <3> QED
      BY <2>1, <3>1, <3>2 DEF DriverStep, StartDriver, Reconcile, MarkOne, MarkDone, CheckCompleted,
         CompileReady, RegisterDone, Register, ReadReady, PlanTick, ClaimNext, BindWorker, TickDone,
         ReadLost, RetryDone, Judge, RetryOne, workerVars
  <2>2. ASSUME NEW b \in Attempts, WorkerAdvances(b) \/ WorkerReports(b) PROVE FALSE
    BY <2>2, WorkerMovesItsRow
  <2>3. CASE Surroundings
    BY <2>3 DEF Surroundings, Interrupt, DriverDies, ContainerDies, WorkerDies, TimePasses, Killed, workerVars
  <2>4. CASE UNCHANGED runtimeVars
    BY <2>4 DEF runtimeVars, workerVars
  <2> QED
    BY <2>1, <2>2, <2>3, <2>4 DEF RuntimeNext
<1> QED
  BY <1>1, <1>2, <1>3, RuntimeInvariant, PTL DEF RuntimeSpec, LaunchesAreDue

-----------------------------------------------------------------------------
(* Retries alone never give a task two workers. *)

\* Until something is disrupted the only driver has reconciled an empty ledger,
\* so a row is lost only when its own worker says so, and then that worker ends.
UndisruptedOK ==
  /\ disruptions \in Nat
  /\ disruptions = 0 =>
       /\ suspects = {}
       /\ pc \in {"down", "scan"} => \A a \in Attempts : state[a] = "ABSENT"
       /\ \A a \in Attempts : state[a] \in Lost => proc[a] \in {"none", "gone"}

\* A worker closes its row only when it ends.
LEMMA WorkerLosesItsRow ==
  ASSUME RuntimeInv, NEW a \in Attempts, WorkerAdvances(a) \/ WorkerReports(a)
  PROVE  /\ UNCHANGED <<disruptions, suspects>>
         /\ state'[a] \in Lost => state[a] \in Lost \/ proc'[a] = "gone"
         /\ proc'[a] \in {"none", "gone"} \/ proc[a] \notin {"none", "gone"}
<1> DEFINE Goal == /\ UNCHANGED suspects
                   /\ state'[a] \in Lost => state[a] \in Lost \/ proc'[a] = "gone"
<1>1. UNCHANGED disruptions
  BY DEF WorkerAdvances, WorkerReports
<1>2. proc[a] \notin {"none", "gone"}
  BY DEF WorkerAdvances, WorkerReports, WorkerStarts, ExecutorRaises, LinkArtifact, PublicationRaises,
     SealArtifact, CheckResult, CommitResult, ReportProgress
<1> SUFFICES Goal
  BY <1>1, <1>2
<1> USE DEF RuntimeInv, LedgerInv, TypeOK, WorkersOK
<1>3. CASE WorkerStarts(a)
  BY <1>3 DEF WorkerStarts, ledgerVars, attemptVars, callVars
<1>4. ASSUME NEW category, WorkerFails(a, category) PROVE Goal
  BY <1>4 DEF WorkerFails, FailAttempt, ledgerVars, attemptVars, callVars
<1>5. CASE \E category \in Categories : ExecutorRaises(a, category)
  BY <1>4, <1>5 DEF ExecutorRaises
<1>6. ASSUME NEW x \in Artifacts, LinkArtifact(a, x) PROVE Goal
  BY <1>4, <1>6 DEF LinkArtifact, ledgerVars, attemptVars, callVars
<1>7. CASE PublicationRaises(a)
  BY <1>4, <1>7 DEF PublicationRaises
<1>8. CASE SealArtifact(a)
  BY <1>8 DEF SealArtifact, StoreArtifact, attemptVars, callVars
<1>9. CASE CheckResult(a)
  BY <1>9 DEF CheckResult, CheckCompletion, ledgerVars, attemptVars, callVars
<1>10. CASE CommitResult(a)
  BY <1>10 DEF CommitResult, CommitCompletion, RefuseCompletion, attemptVars, Lost
<1>11. CASE WorkerReports(a)
  BY <1>11 DEF WorkerReports, ReportProgress, Heartbeat, ledgerVars, attemptVars, callVars
<1> QED
  BY <1>3, <1>5, <1>6, <1>7, <1>8, <1>9, <1>10, <1>11 DEF WorkerAdvances

LEMMA UndisruptedStep ==
  ASSUME RuntimeInv, ClaimsOK, UndisruptedOK, [RuntimeNext]_runtimeVars
  PROVE  UndisruptedOK'
<1>0. disruptions' \in {disruptions, disruptions + 1}
  BY DEF RuntimeNext, DriverStep, StartDriver, Reconcile, MarkOne, MarkDone, CheckCompleted, CompileReady,
     RegisterDone, Register, ReadReady, PlanTick, ClaimNext, SpawnWorker, BindWorker, TickDone,
     ReadLost, RetryDone, Judge, RetryOne, TerminateAll, WorkerAdvances, WorkerReports, Surroundings,
     Interrupt, DriverDies, ContainerDies, WorkerDies, TimePasses, Disrupt, runtimeVars
<1> SUFFICES ASSUME disruptions' = 0, disruptions = 0 PROVE UndisruptedOK'
  BY <1>0 DEF UndisruptedOK
<1> DEFINE Begun == pc \notin {"down", "scan"}
           Begins == pc' \notin {"down", "scan"}
<1> USE DEF RuntimeInv, LedgerInv, TypeOK, WorkersOK, UndisruptedOK, Lost
<1>1. ASSUME UNCHANGED <<disruptions, suspects, state, proc>>,
             Begins \/ pc' = pc \/ pc = "down"
      PROVE  UndisruptedOK'
  BY <1>1
<1>2. CASE DriverStep
  <2>1. CASE StartDriver
    BY <2>1 DEF StartDriver, Ended, ledgerVars, attemptVars, callVars, workerVars
  <2>2. CASE MarkDone \/ CheckCompleted \/ CompileReady \/ RegisterDone
    BY <1>1, <2>2 DEF MarkDone, CheckCompleted, CompileReady, RegisterDone,
       ledgerVars, attemptVars, callVars, workerVars
  <2>3. CASE ReadReady \/ PlanTick \/ TickDone \/ ReadLost \/ RetryDone \/ Judge
    BY <1>1, <2>3 DEF ReadReady, PlanTick, TickDone, ReadLost, RetryDone, Judge,
       ledgerVars, attemptVars, callVars, workerVars
  <2>4. CASE Reconcile
    <3>1. pc = "scan" /\ pc' = "mark" /\ UNCHANGED <<disruptions, state, proc>>
      BY <2>4 DEF Reconcile, ScanRunning, attemptVars, workerVars
    <3>2. suspects = {} /\ \A a \in Attempts : state[a] # "RUNNING"
      BY <3>1
    <3>3. suspects' = suspects \cup {a \in Attempts : /\ state[a] = "RUNNING"
                                                   /\ ~(a \in fresh /\ a \in bound \cap (Live \cap bound))}
      BY <2>4 DEF Reconcile, ScanRunning
    <3>4. suspects' = {}
      BY <3>2, <3>3
    <3> QED
      BY <3>1, <3>4
  <2>5. CASE MarkOne
    <3>1. disruptions = 0 /\ suspects # {}
      BY <2>5 DEF MarkOne, MarkStalled
    <3> QED
      BY <3>1
  <2>6. ASSUME NEW t \in Tasks, Register(t) PROVE UndisruptedOK'
    <3>1. CASE t \in queued
      BY <1>1, <2>6, <3>1 DEF Register, ledgerVars, attemptVars, callVars, workerVars
    <3>2. CASE t \notin queued
      <4>1. /\ state' = [state EXCEPT ![<<t, 1>>] = "READY"]
            /\ UNCHANGED <<disruptions, suspects, proc>> /\ Begins
        BY <2>6, <3>2 DEF Register, EnqueueTask, callVars, workerVars
      <4> QED
        BY <4>1, RowsOfTask
    <3> QED
      BY <3>1, <3>2
  <2>7. CASE ClaimNext
    <3>1. PICK a \in Attempts : IsNext(a) /\ ClaimAttempt(a)
      BY <2>7 DEF ClaimNext
    <3>2. /\ state' = [state EXCEPT ![a] = "RUNNING"]
          /\ UNCHANGED <<disruptions, suspects, proc>> /\ Begins
      BY <2>7, <3>1 DEF ClaimNext, ClaimAttempt, callVars, workerVars
    <3> QED
      BY <3>2
  <2>8. CASE SpawnWorker
    <3>1. PICK a \in Attempts : IsNext(a) /\ proc' = [proc EXCEPT ![a] = "starting"]
      BY <2>8 DEF SpawnWorker
    <3>2. state[a] = "RUNNING" /\ UNCHANGED <<disruptions, suspects, state>> /\ Begins
      BY <2>8, <3>1 DEF SpawnWorker, ClaimsOK, IsNext, ledgerVars, attemptVars, callVars
    <3> QED
      BY <3>1, <3>2
  <2>9. CASE BindWorker
    <3>1. PICK a \in Attempts : \/ BindRunningProcess(a) /\ state[a] = "RUNNING"
                                \/ UNCHANGED ledgerVars
      BY <2>9 DEF BindWorker
    <3>2. UNCHANGED <<disruptions, suspects, state, proc>> /\ Begins
      BY <2>9, <3>1 DEF BindWorker, BindRunningProcess, ledgerVars, attemptVars, callVars, workerVars
    <3> QED
      BY <1>1, <3>2
  <2>10. ASSUME NEW a \in Attempts, RetryOne(a) PROVE UndisruptedOK'
    <3>1. CASE Retries(a)
      <4>1. /\ state' = [state EXCEPT ![<<a[1], 2>>] = "READY"]
            /\ UNCHANGED <<disruptions, suspects, proc>> /\ Begins
        BY <2>10, <3>1 DEF RetryOne, RetryAttempt, callVars, workerVars
      <4> QED
        BY <4>1, RowsOfTask
    <3>2. CASE ~Retries(a)
      BY <1>1, <2>10, <3>2 DEF RetryOne, ledgerVars, attemptVars, callVars, workerVars
    <3> QED
      BY <3>1, <3>2
  <2>11. CASE TerminateAll
    BY <2>11 DEF TerminateAll, Ended, Killed, Live, CallersDie, attemptVars
  <2> QED
    BY <1>2, <2>1, <2>2, <2>3, <2>4, <2>5, <2>6, <2>7, <2>8, <2>9, <2>10, <2>11 DEF DriverStep
<1>3. ASSUME NEW a \in Attempts, WorkerAdvances(a) \/ WorkerReports(a) PROVE UndisruptedOK'
  BY <1>3, WorkerMovesItsRow, WorkerLosesItsRow DEF ClaimsOK
<1>4. CASE Surroundings
  <2>1. CASE \E a \in Attempts : TimePasses(a)
    BY <1>1, <2>1 DEF TimePasses, HeartbeatExpires, attemptVars, callVars, driverVars, workerVars
  <2>2. CASE Interrupt \/ DriverDies \/ ContainerDies \/ \E a \in Attempts : WorkerDies(a)
    BY <2>2 DEF Interrupt, DriverDies, ContainerDies, WorkerDies, Disrupt
  <2> QED
    BY <1>4, <2>1, <2>2 DEF Surroundings
<1>5. CASE UNCHANGED runtimeVars
  BY <1>1, <1>5 DEF runtimeVars, ledgerVars, attemptVars, callVars, workerVars
<1> QED
  BY <1>2, <1>3, <1>4, <1>5 DEF RuntimeNext

\* However often executors fail and are retried, no task has two workers at
\* work before a process is killed or a driver started again.
THEOREM OneWorkerAtATime == RuntimeSpec => []OneWorkerUntilDisrupted
<1>1. RuntimeInit => ClaimsOK /\ UndisruptedOK
  BY DEF RuntimeInit, LedgerInit, ClaimsOK, UndisruptedOK, Lost
<1>2. RuntimeInv /\ ClaimsOK /\ UndisruptedOK /\ [RuntimeNext]_runtimeVars => (ClaimsOK /\ UndisruptedOK)'
  BY ClaimsStep, UndisruptedStep
<1>3. RuntimeInv /\ ClaimsOK /\ UndisruptedOK => OneWorkerUntilDisrupted
  <2> SUFFICES ASSUME RuntimeInv, ClaimsOK, UndisruptedOK, disruptions = 0,
                      NEW t \in Tasks, <<t, 1>> \in Live, <<t, 2>> \in Live
               PROVE  FALSE
    BY DEF OneWorkerUntilDisrupted, NoDuplicateWorkers, Executing, Live, Attempts, Numbers
  <2>1. <<t, 1>> \in Attempts /\ <<t, 2>> \in Attempts
    BY RowsOfTask
  <2>2. state[<<t, 2>>] # "ABSENT"
    BY <2>1 DEF ClaimsOK, Live
  <2>3. state[<<t, 1>>] \in Lost
    BY <2>2 DEF RuntimeInv, LedgerInv, RetryFollowsLoss
  <2> QED
    BY <2>1, <2>3 DEF UndisruptedOK, Live
<1> QED
  BY <1>1, <1>2, <1>3, RuntimeInvariant, PTL DEF RuntimeSpec

-----------------------------------------------------------------------------
(* What the driver holds has its type. *)

DriverOK ==
  /\ pc \in {"down"} \cup Steps \cup Ended
  /\ manifest \in SUBSET Tasks
  /\ ready \in SUBSET Attempts
  /\ todo \in SUBSET Attempts
  /\ handles \in SUBSET Attempts
  /\ linked \in SUBSET Artifacts
  /\ disruptions \in 0..MaxDisruptions

LEMMA DriverTypeStep ==
  ASSUME RuntimeInv, DriverOK, [RuntimeNext]_runtimeVars
  PROVE  DriverOK'
<1> USE DisruptionAssumption DEF DriverOK, Steps, Ended
<1>1. CASE DriverStep
  <2>1. CASE StartDriver \/ Reconcile \/ MarkOne \/ MarkDone
    BY <2>1 DEF StartDriver, Reconcile, MarkOne, MarkDone, driverVars, workerVars
  <2>2. CASE CheckCompleted \/ CompileReady \/ RegisterDone
    BY <2>2 DEF CheckCompleted, CompileReady, RegisterDone, ReadyManifest, driverVars, workerVars
  <2>3. CASE \E t \in Tasks : Register(t)
    BY <2>3 DEF Register, workerVars
  <2>4. CASE ReadReady \/ TickDone
    BY <2>4 DEF ReadReady, TickDone, driverVars, workerVars
  <2>5. CASE PlanTick
    BY <2>5 DEF PlanTick, workerVars
  <2>6. CASE ClaimNext \/ SpawnWorker
    BY <2>6 DEF ClaimNext, SpawnWorker, driverVars, workerVars
  <2>7. CASE BindWorker
    BY <2>7 DEF BindWorker, workerVars
  <2>8. CASE ReadLost \/ RetryDone \/ Judge
    BY <2>8 DEF ReadLost, RetryDone, Judge, LatestOf, driverVars, workerVars
  <2>9. CASE \E a \in Attempts : RetryOne(a)
    BY <2>9 DEF RetryOne, workerVars
  <2>10. CASE TerminateAll
    BY <2>10 DEF TerminateAll
  <2> QED
    BY <1>1, <2>1, <2>2, <2>3, <2>4, <2>5, <2>6, <2>7, <2>8, <2>9, <2>10 DEF DriverStep
<1>2. ASSUME NEW a \in Attempts, WorkerAdvances(a) \/ WorkerReports(a) PROVE DriverOK'
  <2>1. UNCHANGED <<pc, manifest, ready, todo, handles, disruptions>>
    BY <1>2 DEF WorkerAdvances, WorkerReports, driverVars
  <2>2. linked' \in SUBSET Artifacts
    BY <1>2 DEF WorkerAdvances, WorkerReports, WorkerStarts, ExecutorRaises, LinkArtifact, PublicationRaises,
       SealArtifact, CheckResult, CommitResult, ReportProgress
  <2> QED
    BY <2>1, <2>2
<1>3. CASE Surroundings
  <2>1. CASE Interrupt \/ DriverDies
    BY <2>1 DEF Interrupt, DriverDies, Disrupt, ForgetDriver, workerVars
  <2>2. CASE ContainerDies
    BY <2>2 DEF ContainerDies, Disrupt, ForgetDriver
  <2>3. CASE \E a \in Attempts : WorkerDies(a)
    BY <2>3 DEF WorkerDies, Disrupt, driverVars
  <2>4. CASE \E a \in Attempts : TimePasses(a)
    BY <2>4 DEF TimePasses, driverVars, workerVars
  <2> QED
    BY <1>3, <2>1, <2>2, <2>3, <2>4 DEF Surroundings
<1>4. CASE UNCHANGED runtimeVars
  BY <1>4 DEF runtimeVars, driverVars, workerVars
<1> QED
  BY <1>1, <1>2, <1>3, <1>4 DEF RuntimeNext

-----------------------------------------------------------------------------
(* What is promised of the host. *)

RowGrant(a) == [holder |-> a, request |-> Request[a[1]], cards |-> alloc[a]]
LaunchGrant(launch) ==
  [holder |-> launch.attempt, request |-> Request[launch.attempt[1]], cards |-> launch.cards]

\* The grants of the RUNNING rows, and those of the launches still to be made.
Promised ==
  {RowGrant(a) : a \in {b \in Attempts : state[b] = "RUNNING"}}
    \cup {LaunchGrant(plan[k]) : k \in 1..Len(plan)}

Launches == [attempt : Attempts, cards : SUBSET Cards(Host)]

\* The driver holds launches only while it makes them, and what it plans over
\* does not run.  A claim fulfils a promise and every other step but a plan at
\* most drops one; that the plan keeps to what is left is the planner's merit.
SharingOK ==
  /\ plan \in Seq(Launches)
  /\ alloc \in [Attempts -> SUBSET Cards(Host)]
  /\ pc \in {"launch", "spawn", "bind"} \/ plan = << >>
  /\ pc = "plan" => IsFiniteSet(ready) /\ \A a \in ready : state[a] # "RUNNING"
  /\ IsFiniteSet(queued)
  /\ IsGrants(Promised)
  /\ ~CardsClaimedTwice(Promised) /\ ~OverCommitted(Host, Promised)

\* A RUNNING row is its task's latest.
LEMMA RunningIsLatest ==
  ASSUME LedgerInv, NEW a \in Attempts, state[a] = "RUNNING"
  PROVE  a = Latest(a[1])
<1>1. PICK t \in Tasks, n \in {1, 2} : a = <<t, n>>
  BY DEF Attempts, Numbers
<1>2. state[<<t, 2>>] # "ABSENT" => state[<<t, 1>>] \in Lost
  BY DEF LedgerInv, RetryFollowsLoss
<1> QED
  BY <1>1, <1>2 DEF Latest, Lost

LEMMA ActiveIsPromised ==
  ASSUME LedgerInv
  PROVE  /\ \A grant : grant \in ActiveGrants <=> \E a \in Attempts : state[a] = "RUNNING" /\ grant = RowGrant(a)
         /\ ActiveGrants \subseteq Promised
         /\ plan = << >> => ActiveGrants = Promised
<1>1. ActiveGrants = {RowGrant(a) : a \in {b \in Attempts : state[b] = "RUNNING"}}
  BY RunningIsLatest DEF ActiveGrants, RowGrant
<1>2. plan = << >> => {LaunchGrant(plan[k]) : k \in 1..Len(plan)} = {}
  OBVIOUS
<1> QED
  BY <1>1, <1>2 DEF Promised

\* Rows that do not start, and launches that are only dropped, promise nothing new.
LEMMA PromisesDropped ==
  ASSUME \A a \in Attempts : state'[a] = "RUNNING" => state[a] = "RUNNING" /\ alloc'[a] = alloc[a],
         \A k \in 1..Len(plan') : \E j \in 1..Len(plan) : plan'[k] = plan[j]
  PROVE  Promised' \subseteq Promised
<1>1. \A a \in Attempts : alloc'[a] = alloc[a] => RowGrant(a)' = RowGrant(a)
  BY DEF RowGrant
<1>2. \A launch : LaunchGrant(launch)' = LaunchGrant(launch)
  BY DEF LaunchGrant
<1>3. ASSUME NEW grant \in Promised' PROVE grant \in Promised
  <2>1. CASE \E a \in Attempts : state'[a] = "RUNNING" /\ grant = RowGrant(a)'
    BY <1>1, <2>1 DEF Promised
  <2>2. CASE \E k \in 1..Len(plan') : grant = LaunchGrant(plan'[k])
    BY <2>2 DEF Promised
  <2> QED
    BY <1>2, <1>3, <2>1, <2>2 DEF Promised
<1> QED
  BY <1>3

LEMMA HostOffers == CanOffer(Host) /\ 0 <= UsableCores(Host) /\ 0 <= MemoryBudget(Host)
<1> DEFINE ids == DOMAIN Host.cards
<1>1. /\ ids \subseteq Nat
      /\ Host \in [physical : Nat \ {0}, reserved : Nat, ceiling : Nat, available : Nat \ {0}, limit : Nat,
                   cards : [ids -> Nat \ {0}], storage : BOOLEAN]
  BY HostAssumption DEF IsHost
<1>2. /\ Host.ceiling \in Int /\ Host.physical - Host.reserved \in Int
      /\ Host.limit \in Nat /\ Host.available \in Nat
  BY <1>1
<1>3. UsableCores(Host) \in Int
  BY <1>2, LesserOfTwo DEF UsableCores
<1>4. MemoryBudget(Host) \in Nat
  BY <1>2, LesserOfTwo DEF MemoryBudget
<1> QED
  BY <1>1, <1>3, <1>4, HostAssumption DEF CanOffer, Cards

LEMMA TasksAsk == \A a \in Attempts : Asks(Request[a[1]])
<1> SUFFICES ASSUME NEW t \in Tasks PROVE Asks(Request[t])
  BY DEF Attempts
<1> QED
  BY RequestAssumption DEF IsRequest, Asks

\* What the driver asks the planner is what the planner can plan.
LEMMA ReadyIsPlannable ==
  ASSUME LedgerInv, DriverOK, SharingOK, pc = "plan", NEW order \in GpuFirstOrders(ready),
         NEW requests, requests = [i \in DOMAIN order |-> Request[order[i][1]]]
  PROVE  /\ Len(requests) = Cardinality(ready) /\ Len(requests) \in Nat
         /\ order \in [1..Len(requests) -> ready]
         /\ \A i \in 1..Len(requests) : requests[i] = Request[order[i][1]]
         /\ IsGrants(ActiveGrants)
         /\ ~Refused(Host, requests, ActiveGrants) => Plannable(Host, requests, ActiveGrants, order)
<1> DEFINE n == Cardinality(ready)
<1>1. n \in Nat
  BY FS_CardinalityType DEF SharingOK
<1>2. /\ order \in [1..n -> ready]
      /\ \A i, j \in 1..n : i # j => order[i] # order[j]
  BY DEF GpuFirstOrders
<1> HIDE DEF n
<1>3. requests = [i \in 1..n |-> Request[order[i][1]]]
  BY <1>2
<1>4. Len(requests) = n /\ DOMAIN requests = 1..n /\ \A i \in 1..n : requests[i] = Request[order[i][1]]
  BY <1>1, <1>3
<1>5. \A i \in 1..n : order[i] \in ready /\ order[i] \in Attempts
  <2>1. ready \subseteq Attempts
    BY DEF DriverOK
  <2> QED
    BY <1>2, <2>1
<1>6. IsQueue(requests)
  BY <1>1, <1>4, <1>5, TasksAsk DEF IsQueue
<1>7. Waiting(order, requests, ActiveGrants)
  <2>1. \A grant \in ActiveGrants : grant.holder \in Attempts /\ state[grant.holder] = "RUNNING"
    BY ActiveIsPromised DEF RowGrant
  <2> QED
    BY <1>2, <1>4, <1>5, <2>1 DEF Waiting, SharingOK
<1>8. IsGrants(ActiveGrants)
  BY ActiveIsPromised DEF SharingOK
<1> QED
  BY <1>1, <1>2, <1>4, <1>6, <1>7, <1>8, HostOffers DEF Plannable, n

LaunchesOf(order, grants) == [k \in DOMAIN grants |-> LaunchOf(order, grants[k])]

\* The launches of a plan are of the type plan has, and promise what it grants.
LEMMA LaunchesOfPlan ==
  ASSUME NEW order, NEW requests, NEW n \in Nat, order \in [1..n -> Attempts],
         \A i \in 1..n : requests[i] = Request[order[i][1]],
         NEW grants, IsPlanOf(Host, requests, n, grants),
         NEW launches, launches = LaunchesOf(order, grants)
  PROVE  /\ launches \in Seq(Launches)
         /\ {LaunchGrant(launches[k]) : k \in 1..Len(launches)} = Started(order, requests, grants)
<1> DEFINE S == [index : 1..n, cards : SUBSET Cards(Host)]
<1>1. grants \in Seq(S)
  BY DEF IsPlanOf
<1>2. DOMAIN grants = 1..Len(grants) /\ Len(grants) \in Nat /\ \A k \in 1..Len(grants) : grants[k] \in S
  <2> HIDE DEF S
  <2> QED
    BY <1>1
<1>3. ASSUME NEW k \in 1..Len(grants)
      PROVE  /\ grants[k].index \in 1..n
             /\ LaunchOf(order, grants[k]) \in Launches
             /\ LaunchGrant(LaunchOf(order, grants[k]))
                  = [holder |-> order[grants[k].index], request |-> requests[grants[k].index],
                     cards |-> grants[k].cards]
  <2>1. grants[k].index \in 1..n /\ grants[k].cards \in SUBSET Cards(Host)
    BY <1>2
  <2>2. order[grants[k].index] \in Attempts /\ requests[grants[k].index] = Request[order[grants[k].index][1]]
    BY <2>1
  <2> QED
    BY <2>1, <2>2 DEF LaunchOf, LaunchGrant, Launches
<1>4. launches = [k \in 1..Len(grants) |-> LaunchOf(order, grants[k])]
  BY <1>2 DEF LaunchesOf
<1> HIDE DEF S
<1>5. launches \in Seq(Launches) /\ Len(launches) = Len(grants)
  BY <1>2, <1>3, <1>4
<1>6. \A k \in 1..Len(grants) : launches[k] = LaunchOf(order, grants[k])
  BY <1>4
<1>7. {LaunchGrant(launches[k]) : k \in 1..Len(launches)} = Started(order, requests, grants)
  BY <1>2, <1>3, <1>5, <1>6 DEF Started
<1> QED
  BY <1>5, <1>7

\* A plan promises what still fits next to what runs.
LEMMA PlanKeepsToTheHost ==
  ASSUME LedgerInv, DriverOK, SharingOK, PlanTick
  PROVE  /\ plan' \in Seq(Launches)
         /\ IsGrants(Promised') /\ ~CardsClaimedTwice(Promised') /\ ~OverCommitted(Host, Promised')
<1>1. pc = "plan" /\ plan = << >> /\ UNCHANGED <<state, alloc>>
  BY DEF PlanTick, SharingOK, ledgerVars, attemptVars
<1> DEFINE asked(order) == [i \in DOMAIN order |-> Request[order[i][1]]]
<1>2. PICK order \in GpuFirstOrders(ready) :
        IF ready # {} /\ Refused(Host, asked(order), ActiveGrants) THEN UNCHANGED plan
        ELSE LET grants == PlanResources(Host, asked(order), ActiveGrants)
             IN plan' = LaunchesOf(order, grants)
  BY DEF PlanTick, LaunchesOf
<1> DEFINE requests == asked(order)
           n == Len(requests)
           grants == PlanResources(Host, requests, ActiveGrants)
<1>3. /\ n = Cardinality(ready) /\ n \in Nat
      /\ order \in [1..n -> ready]
      /\ \A i \in 1..n : requests[i] = Request[order[i][1]]
      /\ ~Refused(Host, requests, ActiveGrants) => Plannable(Host, requests, ActiveGrants, order)
  BY <1>1, ReadyIsPlannable
<1>4. \A a : RowGrant(a)' = RowGrant(a) /\ \A launch : LaunchGrant(launch)' = LaunchGrant(launch)
  BY <1>1 DEF RowGrant, LaunchGrant
<1>5. Promised' = ActiveGrants \cup {LaunchGrant(plan'[k]) : k \in 1..Len(plan')}
  <2>1. {RowGrant(a) : a \in {b \in Attempts : state[b] = "RUNNING"}} = ActiveGrants
    BY ActiveIsPromised
  <2> QED
    BY <1>1, <1>4, <2>1 DEF Promised
<1> HIDE DEF requests, n, grants, asked
<1>6. CASE plan' = << >>
  <2>1. plan' \in Seq(Launches) /\ Promised' = ActiveGrants
    BY <1>5, <1>6
  <2>2. ActiveGrants = Promised
    BY <1>1, ActiveIsPromised
  <2> QED
    BY <2>1, <2>2 DEF SharingOK
<1>7. CASE ready = {} /\ plan' = LaunchesOf(order, grants)
  <2>1. n = 0
    BY <1>3, <1>7, FS_EmptySet
  <2>2. grants = << >>
    BY <2>1, AfterSteps DEF grants, PlanResources, Remaining, n
  <2> QED
    BY <1>6, <1>7, <2>2 DEF LaunchesOf
<1>8. CASE ~Refused(Host, requests, ActiveGrants) /\ plan' = LaunchesOf(order, grants)
  <2>1. Balanced(Host, requests, ActiveGrants, order, n)
    BY <1>3, <1>8, PlanBalances DEF n
  <2>2. grants = After(Host, requests, ActiveGrants, n).grants
    BY DEF grants, PlanResources, n
  <2>3. IsPlanOf(Host, requests, n, grants)
    BY <2>1, <2>2 DEF Balanced
  <2>4. order \in [1..n -> Attempts]
    BY <1>3 DEF DriverOK
  <2>5. /\ plan' \in Seq(Launches)
        /\ {LaunchGrant(plan'[k]) : k \in 1..Len(plan')} = Started(order, requests, grants)
    <3>1. PICK launches : launches = LaunchesOf(order, grants)
      OBVIOUS
    <3>2. n \in Nat /\ \A i \in 1..n : requests[i] = Request[order[i][1]]
      BY <1>3
    <3>3. /\ launches \in Seq(Launches)
          /\ {LaunchGrant(launches[k]) : k \in 1..Len(launches)} = Started(order, requests, grants)
      BY <2>3, <2>4, <3>1, <3>2, LaunchesOfPlan
    <3>4. plan' = launches
      BY <1>8, <3>1
    <3> QED
      BY <3>3, <3>4
  <2>6. Promised' = Now(Host, requests, ActiveGrants, order, n)
    BY <1>5, <2>2, <2>5 DEF Now
  <2> QED
    BY <2>1, <2>5, <2>6 DEF Balanced
<1> QED
  BY <1>1, <1>2, <1>6, <1>7, <1>8 DEF requests, grants

\* Every other step keeps the promises that are left.
LEMMA SharingKept ==
  ASSUME SharingOK, Promised' \subseteq Promised,
         plan' \in Seq(Launches), alloc' \in [Attempts -> SUBSET Cards(Host)],
         pc' \in {"launch", "spawn", "bind"} \/ plan' = << >>,
         pc' = "plan" => IsFiniteSet(ready') /\ \A a \in ready' : state'[a] # "RUNNING",
         IsFiniteSet(queued')
  PROVE  SharingOK'
<1>1. /\ IsGrants(Promised')
      /\ ActiveCores(Promised') \in Nat /\ ActiveCores(Promised) \in Nat
      /\ ActiveMemory(Promised') \in Nat /\ ActiveMemory(Promised) \in Nat
      /\ ActiveCores(Promised') <= ActiveCores(Promised)
      /\ ActiveMemory(Promised') <= ActiveMemory(Promised)
  BY FewerGrants DEF SharingOK
<1>2. ~OverCommitted(Host, Promised')
  BY <1>1, HostOffers DEF SharingOK, OverCommitted, CanOffer
<1>3. ~CardsClaimedTwice(Promised')
  BY DEF SharingOK, CardsClaimedTwice
<1> QED
  BY <1>1, <1>2, <1>3 DEF SharingOK

\* No row starts, nothing is allocated, and of the launches none are left or all.
LEMMA NothingStarts ==
  ASSUME SharingOK, UNCHANGED alloc,
         \A a \in Attempts : state'[a] = "RUNNING" => state[a] = "RUNNING",
         IsFiniteSet(queued'),
         plan' = << >> \/ (UNCHANGED plan /\ (pc' = pc \/ pc' \in {"launch", "spawn", "bind"} \/ plan = << >>)),
         pc' = "plan" => pc = "plan" /\ UNCHANGED ready, DriverOK
  PROVE  SharingOK'
<1>1. plan' \in Seq(Launches) /\ \A k \in 1..Len(plan') : \E j \in 1..Len(plan) : plan'[k] = plan[j]
  <2>1. CASE plan' = << >>
    BY <2>1
  <2>2. CASE UNCHANGED plan
    BY <2>2 DEF SharingOK
  <2> QED
    BY <2>1, <2>2
<1>2. Promised' \subseteq Promised
  BY <1>1, PromisesDropped
<1>3. pc' = "plan" => IsFiniteSet(ready') /\ \A a \in ready' : state'[a] # "RUNNING"
  BY DEF SharingOK, DriverOK
<1> QED
  BY <1>1, <1>2, <1>3, SharingKept DEF SharingOK

\* A claim gives a row what its launch was promised.
LEMMA ClaimFulfils ==
  ASSUME LedgerInv, SharingOK, ClaimNext
  PROVE  SharingOK'
<1>1. PICK a \in Attempts : IsNext(a) /\ ClaimAttempt(a) /\ alloc' = [alloc EXCEPT ![a] = Head(plan).cards]
  BY DEF ClaimNext
<1>2. UNCHANGED <<plan, queued>> /\ pc' = "spawn" /\ state' = [state EXCEPT ![a] = "RUNNING"]
  BY <1>1 DEF ClaimNext, ClaimAttempt
<1>3. 1 \in 1..Len(plan) /\ plan[1] = Head(plan) /\ Head(plan).attempt = a /\ Head(plan) \in Launches
  BY <1>1 DEF IsNext, SharingOK
<1>4. alloc' \in [Attempts -> SUBSET Cards(Host)]
  BY <1>1, <1>3 DEF SharingOK, Launches
<1>5. RowGrant(a)' = LaunchGrant(plan[1])
  BY <1>1, <1>3 DEF RowGrant, LaunchGrant, SharingOK
<1>6. \A b \in Attempts : b # a => RowGrant(b)' = RowGrant(b) /\ state'[b] = state[b]
  BY <1>1, <1>2 DEF RowGrant, SharingOK, LedgerInv, TypeOK
<1>7. \A launch : LaunchGrant(launch)' = LaunchGrant(launch)
  BY DEF LaunchGrant
<1>8. ASSUME NEW grant \in Promised' PROVE grant \in Promised
  <2>1. CASE \E b \in Attempts : state'[b] = "RUNNING" /\ grant = RowGrant(b)'
    BY <1>3, <1>5, <1>6, <2>1 DEF Promised
  <2>2. CASE \E k \in 1..Len(plan') : grant = LaunchGrant(plan'[k])
    BY <1>2, <2>2 DEF Promised
  <2> QED
    BY <1>7, <1>8, <2>1, <2>2 DEF Promised
<1> QED
  BY <1>2, <1>4, <1>8, SharingKept DEF SharingOK

\* Only registered tasks have rows, so only finitely many are ready.
LEMMA ReadyIsFinite ==
  ASSUME LedgerInv, SharingOK, ReadReady
  PROVE  SharingOK'
<1>1. /\ pc = "poll" /\ pc' = "plan" /\ ready' = {a \in Attempts : DependencyReady(a)}
      /\ UNCHANGED <<queued, state, alloc, plan>>
  BY DEF ReadReady, ledgerVars, attemptVars
<1>2. plan = << >>
  BY <1>1 DEF SharingOK
<1>3. ready' \subseteq queued \X {1, 2}
  <2> SUFFICES ASSUME NEW a \in Attempts, state[a] = "READY" PROVE a \in queued \X {1, 2}
    BY <1>1 DEF DependencyReady
  <2>1. PICK t \in Tasks, n \in {1, 2} : a = <<t, n>>
    BY DEF Attempts, Numbers
  <2>2. t \in queued
    BY <2>1 DEF LedgerInv, RowsAreQueued
  <2> QED
    BY <2>1, <2>2
<1>4. IsFiniteSet({1, 2})
  <2>1. IsFiniteSet({1}) /\ {1, 2} = {1} \cup {2}
    BY FS_Singleton
  <2> QED
    BY <2>1, FS_AddElement
<1>5. IsFiniteSet(ready')
  BY <1>3, <1>4, FS_Product, FS_Subset DEF SharingOK
<1>6. \A a \in ready' : state'[a] # "RUNNING"
  BY <1>1 DEF DependencyReady
<1>7. Promised' \subseteq Promised
  BY <1>1, PromisesDropped
<1> QED
  BY <1>1, <1>2, <1>5, <1>6, <1>7, SharingKept DEF SharingOK

LEMMA DriverShares ==
  ASSUME RuntimeInv, DriverOK, SharingOK, DriverStep
  PROVE  SharingOK'
<1> USE DEF RuntimeInv, LedgerInv, TypeOK
<1>0. IsFiniteSet(queued) /\ (pc \notin {"launch", "spawn", "bind"} => plan = << >>)
  BY DEF SharingOK
<1>1. CASE StartDriver \/ MarkDone \/ CheckCompleted \/ CompileReady \/ RegisterDone
  BY <1>0, <1>1, NothingStarts DEF StartDriver, MarkDone, CheckCompleted, CompileReady, RegisterDone, Ended,
     ledgerVars, attemptVars, driverVars
<1>2. CASE TickDone \/ ReadLost \/ RetryDone \/ Judge \/ SpawnWorker
  BY <1>0, <1>2, NothingStarts DEF TickDone, ReadLost, RetryDone, Judge, SpawnWorker,
     ledgerVars, attemptVars, driverVars
<1>3. CASE Reconcile
  BY <1>0, <1>3, NothingStarts DEF Reconcile, ScanRunning, attemptVars, driverVars
<1>4. CASE MarkOne
  BY <1>0, <1>4, NothingStarts DEF MarkOne, MarkStalled, driverVars
<1>5. ASSUME NEW t \in Tasks, Register(t) PROVE SharingOK'
  <2>1. UNCHANGED <<pc, plan, alloc, ready>> /\ pc = "register"
    BY <1>5 DEF Register
  <2>2. CASE t \in queued
    BY <1>0, <1>5, <2>1, <2>2, NothingStarts DEF Register, ledgerVars, attemptVars
  <2>3. CASE t \notin queued
    <3>1. queued' = queued \cup {t} /\ state' = [state EXCEPT ![<<t, 1>>] = "READY"]
      BY <1>5, <2>3 DEF Register, EnqueueTask
    <3>2. IsFiniteSet(queued')
      BY <1>0, <3>1, FS_AddElement
    <3> QED
      BY <1>0, <2>1, <3>1, <3>2, NothingStarts
  <2> QED
    BY <2>2, <2>3
<1>6. CASE ReadReady
  BY <1>6, ReadyIsFinite
<1>7. CASE PlanTick
  <2>1. /\ UNCHANGED <<queued, alloc>>
        /\ pc' \in {"launch", "PLAN_REFUSED"} /\ (pc' = "PLAN_REFUSED" => UNCHANGED plan) /\ pc = "plan"
    BY <1>7 DEF PlanTick, ledgerVars
  <2> QED
    BY <1>0, <1>7, <2>1, PlanKeepsToTheHost DEF SharingOK
<1>8. CASE ClaimNext
  BY <1>8, ClaimFulfils
<1>9. CASE BindWorker
  <2>1. PICK a \in Attempts :
          /\ IsNext(a)
          /\ \/ /\ state[a] = "RUNNING" /\ BindRunningProcess(a) /\ plan' = Tail(plan) /\ pc' = "launch"
             \/ UNCHANGED ledgerVars /\ plan' = << >> /\ pc' = "BIND_CONFLICT"
    BY <1>9 DEF BindWorker
  <2>2. UNCHANGED <<queued, state, alloc>> /\ pc' # "plan"
    BY <1>9, <2>1 DEF BindWorker, BindRunningProcess, ledgerVars, attemptVars
  <2>3. plan' \in Seq(Launches) /\ \A k \in 1..Len(plan') : \E j \in 1..Len(plan) : plan'[k] = plan[j]
    <3>1. CASE plan' = << >>
      BY <3>1
    <3>2. CASE plan' = Tail(plan)
      <4>1. plan \in Seq(Launches) /\ plan # << >>
        BY <2>1 DEF IsNext, SharingOK
      <4>2. plan' \in Seq(Launches) /\ Len(plan') = Len(plan) - 1 /\ \A k \in 1..Len(plan') : plan'[k] = plan[k + 1]
        BY <3>2, <4>1
      <4> QED
        BY <4>1, <4>2
    <3> QED
      BY <2>1, <3>1, <3>2
  <2>4. Promised' \subseteq Promised
    BY <2>2, <2>3, PromisesDropped
  <2> QED
    BY <1>0, <2>1, <2>2, <2>3, <2>4, SharingKept DEF SharingOK
<1>10. ASSUME NEW a \in Attempts, RetryOne(a) PROVE SharingOK'
  <2>1. UNCHANGED <<plan, alloc, ready>> /\ pc \in {"retry", "retried"} /\ pc' \in {"retry", "retried"}
    BY <1>10 DEF RetryOne
  <2>2. UNCHANGED queued /\ \A b \in Attempts : state'[b] = "RUNNING" => state[b] = "RUNNING"
    BY <1>10 DEF RetryOne, RetryAttempt, ledgerVars, attemptVars
  <2> QED
    BY <1>0, <2>1, <2>2, NothingStarts
<1>11. CASE TerminateAll
  BY <1>0, <1>11, NothingStarts DEF TerminateAll, Ended, CallersDie, attemptVars
<1> QED
  BY <1>1, <1>2, <1>3, <1>4, <1>5, <1>6, <1>7, <1>8, <1>9, <1>10, <1>11 DEF DriverStep

LEMMA SharingStep ==
  ASSUME RuntimeInv, DriverOK, SharingOK, [RuntimeNext]_runtimeVars
  PROVE  SharingOK'
<1>0. IsFiniteSet(queued)
  BY DEF SharingOK
<1>1. CASE DriverStep
  BY <1>1, DriverShares
<1>2. ASSUME NEW a \in Attempts, WorkerAdvances(a) \/ WorkerReports(a) PROVE SharingOK'
  <2>1. UNCHANGED <<queued, pc, plan>> /\ \A b \in Attempts : state'[b] = "RUNNING" => state[b] = "RUNNING"
    BY <1>2, WorkerMovesItsRow
  <2>2. UNCHANGED <<alloc, ready>>
    BY <1>2 DEF WorkerAdvances, WorkerReports, driverVars
  <2> QED
    BY <1>0, <2>1, <2>2, NothingStarts
<1>3. CASE Surroundings
  <2>1. CASE Interrupt \/ DriverDies
    BY <1>0, <2>1, NothingStarts DEF Interrupt, DriverDies, ForgetDriver, CallersDie, attemptVars
  <2>2. CASE ContainerDies
    <3>1. plan' = << >> /\ UNCHANGED <<queued, state, alloc>>
      BY <2>2 DEF ContainerDies, ForgetDriver, CallersDie, attemptVars
    <3>2. pc' # "plan"
      BY <2>2 DEF ContainerDies, Steps
    <3> QED
      BY <1>0, <3>1, <3>2, NothingStarts
  <2>3. CASE \E a \in Attempts : WorkerDies(a)
    BY <1>0, <2>3, NothingStarts DEF WorkerDies, CallersDie, attemptVars, driverVars
  <2>4. CASE \E a \in Attempts : TimePasses(a)
    BY <1>0, <2>4, NothingStarts DEF TimePasses, HeartbeatExpires, attemptVars, driverVars
  <2> QED
    BY <1>3, <2>1, <2>2, <2>3, <2>4 DEF Surroundings
<1>4. CASE UNCHANGED runtimeVars
  BY <1>0, <1>4, NothingStarts DEF runtimeVars, ledgerVars, attemptVars, driverVars
<1> QED
  BY <1>1, <1>2, <1>3, <1>4 DEF RuntimeNext

LEMMA SharingStarts == RuntimeInit => DriverOK /\ SharingOK
<1> SUFFICES ASSUME RuntimeInit PROVE DriverOK /\ SharingOK
  OBVIOUS
<1>1. DriverOK
  BY DisruptionAssumption DEF RuntimeInit, DriverOK
<1>2. Promised = {}
  BY DEF RuntimeInit, LedgerInit, Promised
<1>3. IsGrants(Promised) /\ ~CardsClaimedTwice(Promised) /\ ~OverCommitted(Host, Promised)
  BY <1>2, NoGrants, HostOffers DEF CardsClaimedTwice, OverCommitted, CanOffer
<1>4. IsFiniteSet(queued)
  BY FS_EmptySet DEF RuntimeInit, LedgerInit
<1>5. SharingOK
  BY <1>3, <1>4 DEF RuntimeInit, SharingOK
<1> QED
  BY <1>1, <1>5

\* Whichever drivers planned them and whatever was killed in between, the rows
\* that run never share a card and never take more than the host has to give,
\* and every variable of the driver and the workers keeps its type.
\* (Scheduler.tick, claim_attempt, bind_running_process)
THEOREM HostIsAlwaysShared == RuntimeSpec => []HostIsShared
<1>1. RuntimeInit => DriverOK /\ SharingOK
  BY SharingStarts
<1>2. RuntimeInv /\ DriverOK /\ SharingOK /\ [RuntimeNext]_runtimeVars => (DriverOK /\ SharingOK)'
  BY DriverTypeStep, SharingStep
<1>3. RuntimeInv /\ DriverOK /\ SharingOK => HostIsShared
  <2> SUFFICES ASSUME RuntimeInv, DriverOK, SharingOK PROVE HostIsShared
    OBVIOUS
  <2>1. RuntimeTypeOK
    BY DEF RuntimeInv, WorkersOK, DriverOK, SharingOK, RuntimeTypeOK, Launches
  <2>2. ActiveGrants \subseteq Promised
    BY ActiveIsPromised DEF RuntimeInv
  <2>3. /\ ActiveCores(ActiveGrants) \in Nat /\ ActiveCores(Promised) \in Nat
        /\ ActiveMemory(ActiveGrants) \in Nat /\ ActiveMemory(Promised) \in Nat
        /\ ActiveCores(ActiveGrants) <= ActiveCores(Promised)
        /\ ActiveMemory(ActiveGrants) <= ActiveMemory(Promised)
    BY <2>2, FewerGrants DEF SharingOK
  <2>4. ~OverCommitted(Host, ActiveGrants)
    BY <2>3, HostOffers DEF SharingOK, OverCommitted, CanOffer
  <2>5. ~CardsClaimedTwice(ActiveGrants)
    BY <2>2 DEF SharingOK, CardsClaimedTwice
  <2> QED
    BY <2>1, <2>4, <2>5 DEF HostIsShared, RunningRowsFitTheHost
<1> QED
  BY <1>1, <1>2, <1>3, RuntimeInvariant, PTL DEF RuntimeSpec
=============================================================================
