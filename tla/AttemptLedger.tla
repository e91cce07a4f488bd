--------------------------- MODULE AttemptLedger ---------------------------
(***************************************************************************)
(* The SQLite run ledger of tarca.execution: task specifications,          *)
(* dependencies and the attempts made at each task.  Every writer opens    *)
(* its own connection and works in one BEGIN IMMEDIATE transaction, so one *)
(* transaction is one action here; what the code reads outside the         *)
(* transaction it later writes in is carried by a variable of its own, and *)
(* any other caller's step may come in between.                            *)
(*                                                                         *)
(* The module is open: any process may call any operation at any moment.   *)
(* ExecutionRuntime composes it with the driver and workers that do.       *)
(* Worker and run identifiers are functions of the attempt in every        *)
(* caller, so the guards that compare them are left out; timestamps other  *)
(* than the heartbeat's age only order rows.                               *)
(***************************************************************************)
EXTENDS Integers

CONSTANTS
  Tasks,       \* task identifiers
  Deps,        \* Deps[t]: the tasks in t's dependency_task_ids
  Artifacts,   \* artifact references
  Output,      \* Output[t]: the artifacts whose type is t's output type
  Categories,  \* error categories a caller may report
  MaxPacking,  \* bound on the packing level of a first attempt
  None         \* SQL NULL

ASSUME DepsAssumption == Deps \in [Tasks -> SUBSET Tasks]
ASSUME OutputAssumption == Output \in [Tasks -> SUBSET Artifacts]
ASSUME PackingAssumption == MaxPacking \in Nat \ {0}
ASSUME NoneAssumption == None \notin Artifacts /\ None \notin Categories

\* Retries are bounded by attempt_number >= 2, so a task has at most two rows.
Numbers == {1, 2}
Attempts == Tasks \X Numbers
Levels == 1..MaxPacking

\* RETRY_POLICY; a category it does not list is terminal.
RetryOnce == {"TRANSIENT_IO", "WORKER_DIED"}
RetryOnceWithLowerPacking == {"CUDA_OOM"}
Retryable == RetryOnce \cup RetryOnceWithLowerPacking

\* Mutant: a running attempt counts as lost.
LostOrRunning == {"FAILED", "STALLED", "RUNNING"}

\* "ABSENT" is the row that has not been inserted.
Lost == {"FAILED", "STALLED"}
Closed == Lost \cup {"COMPLETED"}
States == Closed \cup {"ABSENT", "READY", "RUNNING"}

VARIABLES
  queued,    \* tasks with a row in job_nodes and task_specs
  input,     \* input[t][d]: the artifact of d frozen in t's specification
  state,     \* state[<<t, n>>]: attempts.state
  artifact,  \* artifact[<<t, n>>]: attempts.artifact_json
  error,     \* error[<<t, n>>]: attempts.error_category
  packing,   \* packing[<<t, n>>]: attempts.packing_level (0 in an absent row)
  bound,     \* attempts with a recorded pid and process start time
  fresh,     \* attempts whose heartbeat is younger than the timeout
  verified,  \* complete_attempt calls between their check and their update
  suspects,  \* reconcile_processes verdicts not yet written
  stored     \* artifacts the artifact store verifies (external)

attemptVars == <<state, artifact, error, packing>>
callVars == <<verified, suspects>>
ledgerVars == <<queued, input, attemptVars, bound, fresh, callVars, stored>>

NoInput == [d \in Tasks |-> None]

LedgerInit ==
  /\ queued = {}
  /\ input = [t \in Tasks |-> NoInput]
  /\ state = [a \in Attempts |-> "ABSENT"]
  /\ artifact = [a \in Attempts |-> None]
  /\ error = [a \in Attempts |-> None]
  /\ packing = [a \in Attempts |-> 0]
  /\ bound = {}
  /\ fresh = {}
  /\ verified = {}
  /\ suspects = {}
  /\ stored = {}

-----------------------------------------------------------------------------
(* Queries *)

\* The artifact of the task's latest COMPLETED attempt.
Outcome(t) ==
  IF state[<<t, 2>>] = "COMPLETED" THEN artifact[<<t, 2>>]
  ELSE IF state[<<t, 1>>] = "COMPLETED" THEN artifact[<<t, 1>>]
  ELSE None

Completed(t) == \E n \in Numbers : state[<<t, n>>] = "COMPLETED"

\* ORDER BY attempt_number DESC LIMIT 1
Latest(t) == IF state[<<t, 2>>] # "ABSENT" THEN <<t, 2>> ELSE <<t, 1>>

DependencyReady(a) == state[a] = "READY" /\ \A d \in Deps[a[1]] : Completed(d)

-----------------------------------------------------------------------------
(* Operations *)

\* Mutant: the frozen inputs are not compared with the completed artifacts.
EnqueueUncompared(t, ins, level) ==
  /\ t \notin queued
  /\ \A d \in Deps[t] : Outcome(d) # None
  /\ queued' = queued \cup {t}
  /\ input' = [input EXCEPT ![t] = [d \in Tasks |-> IF d \in Deps[t] THEN ins[d] ELSE None]]
  /\ state' = [state EXCEPT ![<<t, 1>>] = "READY"]
  /\ packing' = [packing EXCEPT ![<<t, 1>>] = level]
  /\ UNCHANGED <<artifact, error, bound, fresh, callVars, stored>>

\* enqueue_task: registers the task and its first attempt in one transaction.
\* `ins` is what the caller read from completed_artifacts some time earlier.
EnqueueTask(t, ins, level) ==
  /\ t \notin queued
  /\ t \notin Deps[t]
  /\ \A d \in Deps[t] : Outcome(d) # None /\ ins[d] = Outcome(d)
  /\ queued' = queued \cup {t}
  /\ input' = [input EXCEPT ![t] = [d \in Tasks |-> IF d \in Deps[t] THEN ins[d] ELSE None]]
  /\ state' = [state EXCEPT ![<<t, 1>>] = "READY"]
  /\ packing' = [packing EXCEPT ![<<t, 1>>] = level]
  /\ UNCHANGED <<artifact, error, bound, fresh, callVars, stored>>

\* claim_attempt: READY -> RUNNING for one inspected attempt.
ClaimAttempt(a) ==
  /\ DependencyReady(a)
  /\ state' = [state EXCEPT ![a] = "RUNNING"]
  /\ fresh' = fresh \cup {a}
  /\ UNCHANGED <<queued, input, artifact, error, packing, bound, callVars, stored>>

\* claim_ready: the first `limit` ready attempts in one transaction.
ClaimReady(batch) ==
  /\ batch # {}
  /\ \A a \in batch : DependencyReady(a)
  /\ state' = [a \in Attempts |-> IF a \in batch THEN "RUNNING" ELSE state[a]]
  /\ fresh' = fresh \cup batch
  /\ UNCHANGED <<queued, input, artifact, error, packing, bound, callVars, stored>>

\* bind_running_process: records the process that serves the attempt.
BindRunningProcess(a) ==
  /\ state[a] \in {"READY", "RUNNING"}
  /\ state' = [state EXCEPT ![a] = "RUNNING"]
  /\ bound' = bound \cup {a}
  /\ fresh' = fresh \cup {a}
  /\ UNCHANGED <<queued, input, artifact, error, packing, callVars, stored>>

\* heartbeat
Heartbeat(a) ==
  /\ state[a] = "RUNNING"
  /\ fresh' = fresh \cup {a}
  /\ UNCHANGED <<queued, input, attemptVars, bound, callVars, stored>>

\* The heartbeat grows older than heartbeat_timeout_seconds.
HeartbeatExpires(a) ==
  /\ a \in fresh
  /\ fresh' = fresh \ {a}
  /\ UNCHANGED <<queued, input, attemptVars, bound, callVars, stored>>

\* The artifact store makes an artifact verifiable (external).
StoreArtifact(x) ==
  /\ x \notin stored
  /\ stored' = stored \cup {x}
  /\ UNCHANGED <<queued, input, attemptVars, bound, fresh, callVars>>

\* complete_attempt, first half: the reads and the verification outside the
\* transaction.  A call that fails them raises and changes nothing.
CheckCompletion(a, x) ==
  /\ state[a] = "RUNNING"
  /\ x \in Output[a[1]]
  /\ x \in stored
  /\ <<a, x>> \notin verified
  /\ verified' = verified \cup {<<a, x>>}
  /\ UNCHANGED <<queued, input, attemptVars, bound, fresh, suspects, stored>>

\* Mutant: an update without WHERE state = 'RUNNING'.
CommitUnguarded(a, x) ==
  /\ <<a, x>> \in verified
  /\ state' = [state EXCEPT ![a] = "COMPLETED"]
  /\ artifact' = [artifact EXCEPT ![a] = x]
  /\ verified' = verified \ {<<a, x>>}
  /\ UNCHANGED <<queued, input, error, packing, bound, fresh, suspects, stored>>

\* complete_attempt, second half: the compare-and-set RUNNING -> COMPLETED.
CommitCompletion(a, x) ==
  /\ <<a, x>> \in verified
  /\ state[a] = "RUNNING"
  /\ state' = [state EXCEPT ![a] = "COMPLETED"]
  /\ artifact' = [artifact EXCEPT ![a] = x]
  /\ verified' = verified \ {<<a, x>>}
  /\ UNCHANGED <<queued, input, error, packing, bound, fresh, suspects, stored>>

\* complete_attempt, second half: the attempt moved on and the call raises.
RefuseCompletion(a, x) ==
  /\ <<a, x>> \in verified
  /\ state[a] # "RUNNING"
  /\ verified' = verified \ {<<a, x>>}
  /\ UNCHANGED <<queued, input, attemptVars, bound, fresh, suspects, stored>>

\* fail_attempt
FailAttempt(a, category) ==
  /\ state[a] = "RUNNING"
  /\ state' = [state EXCEPT ![a] = "FAILED"]
  /\ error' = [error EXCEPT ![a] = category]
  /\ UNCHANGED <<queued, input, artifact, packing, bound, fresh, callVars, stored>>

\* Mutant: the level moves the wrong way.
RaisePacking(level) == level + 1

\* max(1, packing_level - 1)
LowerPacking(level) == IF level > 1 THEN level - 1 ELSE 1

\* retry_attempt: inserts attempt 2 of a lost first attempt.  The row of
\* attempt 2 is UNIQUE, so a second retry of the same attempt rolls back.
RetryAttempt(a, category, lowerPackingApplied) ==
  LET t == a[1] IN
  /\ category \in Retryable
  /\ category \in RetryOnceWithLowerPacking => lowerPackingApplied
  /\ state[a] \in Lost
  /\ error[a] \in {None, category}
  /\ a[2] < 2
  /\ state[<<t, 2>>] = "ABSENT"
  /\ state' = [state EXCEPT ![<<t, 2>>] = "READY"]
  /\ packing' = [packing EXCEPT ![<<t, 2>>] = IF category \in RetryOnceWithLowerPacking
                                          THEN LowerPacking(packing[a])
                                          ELSE packing[a]]
  /\ UNCHANGED <<queued, input, artifact, error, bound, fresh, callVars, stored>>

\* reconcile_processes, first half: one read of the RUNNING rows, each judged
\* by its heartbeat's age and by whether the probe finds its exact process.
ScanRunning(seen) ==
  /\ suspects' = suspects \cup
       {a \in Attempts : state[a] = "RUNNING" /\ ~(a \in fresh /\ a \in bound \cap seen)}
  /\ UNCHANGED <<queued, input, attemptVars, bound, fresh, verified, stored>>

\* Mutant: a stale verdict overwrites a row that moved on.
MarkOverwriting(a) ==
  /\ a \in suspects
  /\ suspects' = suspects \ {a}
  /\ state' = [state EXCEPT ![a] = "STALLED"]
  /\ UNCHANGED <<queued, input, artifact, error, packing, bound, fresh, verified, stored>>

\* reconcile_processes, second half: transition(RUNNING -> STALLED) row by row;
\* a row that moved on in the meantime is skipped.
MarkStalled(a) ==
  /\ a \in suspects
  /\ suspects' = suspects \ {a}
  /\ state' = [state EXCEPT ![a] = IF @ = "RUNNING" THEN "STALLED" ELSE @]
  /\ UNCHANGED <<queued, input, artifact, error, packing, bound, fresh, verified, stored>>

\* The processes making these calls die between the two halves.
CallersDie(calls, verdicts) ==
  /\ verified' = verified \ calls
  /\ suspects' = suspects \ verdicts
  /\ UNCHANGED <<queued, input, attemptVars, bound, fresh, stored>>

-----------------------------------------------------------------------------
LedgerNext ==
  \/ \E t \in Tasks, level \in Levels : \E ins \in [Deps[t] -> Artifacts] : EnqueueTask(t, ins, level)
  \/ \E a \in Attempts :
       \/ ClaimAttempt(a)
       \/ BindRunningProcess(a)
       \/ Heartbeat(a)
       \/ HeartbeatExpires(a)
       \/ MarkStalled(a)
  \/ \E a \in Attempts, x \in Artifacts :
       \/ CheckCompletion(a, x)
       \/ CommitCompletion(a, x)
       \/ RefuseCompletion(a, x)
  \/ \E a \in Attempts, c \in Categories :
       \/ FailAttempt(a, c)
       \/ \E lowered \in BOOLEAN : RetryAttempt(a, c, lowered)
  \/ \E batch \in SUBSET Attempts : ClaimReady(batch)
  \/ \E seen \in SUBSET bound : ScanRunning(seen)
  \/ \E x \in Artifacts : StoreArtifact(x)
  \/ \E calls \in SUBSET verified, verdicts \in SUBSET suspects : CallersDie(calls, verdicts)

LedgerSpec == LedgerInit /\ [][LedgerNext]_ledgerVars

-----------------------------------------------------------------------------
(* Properties *)

\* Every column holds a value of its type, and a row is absent exactly when
\* nothing has been written to it.
TypeOK ==
  /\ queued \in SUBSET Tasks
  /\ input \in [Tasks -> [Tasks -> Artifacts \cup {None}]]
  /\ state \in [Attempts -> States]
  /\ artifact \in [Attempts -> Artifacts \cup {None}]
  /\ error \in [Attempts -> Categories \cup {None}]
  /\ packing \in [Attempts -> 0..MaxPacking]
  /\ bound \in SUBSET Attempts
  /\ fresh \in SUBSET Attempts
  /\ verified \in SUBSET (Attempts \X Artifacts)
  /\ suspects \in SUBSET Attempts
  /\ stored \in SUBSET Artifacts

\* A second attempt exists only beside a lost first one, and never after an
\* error the retry policy calls terminal: no interleaving of a late completion,
\* a stall verdict and a retry leaves a task with two live attempts.
RetryFollowsLoss ==
  \A t \in Tasks : state[<<t, 2>>] # "ABSENT" =>
    /\ state[<<t, 1>>] \in Lost
    /\ error[<<t, 1>>] \in Retryable \cup {None}

\* The artifacts frozen in a task's specification are, in every later state,
\* the artifacts its dependencies completed with.
ProvenanceStable ==
  \A t \in queued : \A d \in Deps[t] : input[t][d] # None /\ input[t][d] = Outcome(d)

\* A completed task names a verifiable artifact of its own output type.
OutcomeIsVerified ==
  \A t \in Tasks : Completed(t) => Outcome(t) \in Output[t] \cap stored

\* NEVER_RERUN: once a task is completed no attempt of it is inserted, started
\* or closed again and its artifact never changes, whoever calls what.
NeverRerun ==
  [][\A t \in Tasks : Completed(t) =>
       /\ Outcome(t)' = Outcome(t)
       /\ \A n \in Numbers : state'[<<t, n>>] = state[<<t, n>>]]_ledgerVars

\* Rows are only inserted for registered tasks.
RowsAreQueued == \A t \in Tasks : t \notin queued => state[<<t, 1>>] = "ABSENT" /\ state[<<t, 2>>] = "ABSENT"

\* A COMPLETED row names an artifact of the right type that the store verifies.
RowsAreVerified == \A a \in Attempts : state[a] = "COMPLETED" => artifact[a] \in Output[a[1]] \cap stored

\* A completion call in flight holds an artifact that passed its checks.
CallsAreVerified == \A a \in Attempts, x \in Artifacts :
                      <<a, x>> \in verified => x \in Output[a[1]] \cap stored

\* The inductive invariant: the ledger's safety, and what it rests on between
\* the two halves of complete_attempt.
LedgerInv ==
  /\ TypeOK
  /\ RowsAreQueued
  /\ RowsAreVerified
  /\ CallsAreVerified
  /\ RetryFollowsLoss
  /\ ProvenanceStable

\* The ledger implements the abstract promise.
Promise == INSTANCE TaskOutcome WITH
  admitted <- queued, given <- input, outcome <- [t \in Tasks |-> Outcome(t)]

ImplementsPromise == Promise!TaskSpec
=============================================================================
