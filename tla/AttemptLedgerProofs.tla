------------------------ MODULE AttemptLedgerProofs ------------------------
(***************************************************************************)
(* What the run ledger guarantees for every graph, artifact set and number *)
(* of callers: its type invariant and safety invariants, the finality of a *)
(* completed task, and the refinement of TaskOutcome.                      *)
(***************************************************************************)
EXTENDS AttemptLedger, TLAPS

USE DEF Numbers, Attempts, Closed, Lost, States

\* The two rows of a task.
LEMMA RowsOfTask == \A t \in Tasks : <<t, 1>> \in Attempts /\ <<t, 2>> \in Attempts
OBVIOUS

\* The lower packing level is again a packing level.
LEMMA LowerPackingType ==
  ASSUME NEW level \in 0..MaxPacking
  PROVE  LowerPacking(level) \in 0..MaxPacking
BY PackingAssumption DEF LowerPacking

LEMMA InitInv == LedgerInit => LedgerInv
BY PackingAssumption DEF LedgerInit, LedgerInv, TypeOK, RowsAreQueued, RowsAreVerified, CallsAreVerified,
       RetryFollowsLoss, ProvenanceStable, NoInput

\* Each operation keeps every column in its type.
LEMMA TypeStep == LedgerInv /\ [LedgerNext]_ledgerVars => TypeOK'
<1> SUFFICES ASSUME LedgerInv, [LedgerNext]_ledgerVars PROVE TypeOK'
  OBVIOUS
<1> USE DEF LedgerInv, TypeOK
<1>1. ASSUME NEW t \in Tasks, NEW level \in Levels, NEW ins \in [Deps[t] -> Artifacts],
             EnqueueTask(t, ins, level)
      PROVE  TypeOK'
  BY <1>1, DepsAssumption, PackingAssumption DEF EnqueueTask, callVars, Levels
<1>2. ASSUME NEW a \in Attempts, ClaimAttempt(a) PROVE TypeOK'
  BY <1>2 DEF ClaimAttempt, callVars
<1>3. ASSUME NEW a \in Attempts, BindRunningProcess(a) PROVE TypeOK'
  BY <1>3 DEF BindRunningProcess, callVars
<1>4. ASSUME NEW a \in Attempts, Heartbeat(a) PROVE TypeOK'
  BY <1>4 DEF Heartbeat, attemptVars, callVars
<1>5. ASSUME NEW a \in Attempts, HeartbeatExpires(a) PROVE TypeOK'
  BY <1>5 DEF HeartbeatExpires, attemptVars, callVars
<1>6. ASSUME NEW a \in Attempts, MarkStalled(a) PROVE TypeOK'
  BY <1>6 DEF MarkStalled
<1>7. ASSUME NEW a \in Attempts, NEW x \in Artifacts, CheckCompletion(a, x) PROVE TypeOK'
  BY <1>7 DEF CheckCompletion, attemptVars
<1>8. ASSUME NEW a \in Attempts, NEW x \in Artifacts, CommitCompletion(a, x) PROVE TypeOK'
  BY <1>8 DEF CommitCompletion
<1>9. ASSUME NEW a \in Attempts, NEW x \in Artifacts, RefuseCompletion(a, x) PROVE TypeOK'
  BY <1>9 DEF RefuseCompletion, attemptVars
<1>10. ASSUME NEW a \in Attempts, NEW c \in Categories, FailAttempt(a, c) PROVE TypeOK'
  BY <1>10 DEF FailAttempt, callVars
<1>11. ASSUME NEW a \in Attempts, NEW c \in Categories, NEW lowered \in BOOLEAN,
              RetryAttempt(a, c, lowered)
       PROVE  TypeOK'
  <2>1. /\ a[1] \in Tasks
        /\ packing[a] \in 0..MaxPacking
        /\ LowerPacking(packing[a]) \in 0..MaxPacking
    BY LowerPackingType
  <2>2. packing' \in [Attempts -> 0..MaxPacking]
    BY <1>11, <2>1 DEF RetryAttempt
  <2>3. state' \in [Attempts -> States]
    BY <1>11, <2>1 DEF RetryAttempt
  <2> QED
    BY <1>11, <2>2, <2>3 DEF RetryAttempt, callVars
<1>12. ASSUME NEW batch \in SUBSET Attempts, ClaimReady(batch) PROVE TypeOK'
  BY <1>12 DEF ClaimReady, callVars
<1>13. ASSUME NEW seen \in SUBSET bound, ScanRunning(seen) PROVE TypeOK'
  BY <1>13 DEF ScanRunning, attemptVars
<1>14. ASSUME NEW x \in Artifacts, StoreArtifact(x) PROVE TypeOK'
  BY <1>14 DEF StoreArtifact, attemptVars, callVars
<1>15. ASSUME NEW calls \in SUBSET verified, NEW verdicts \in SUBSET suspects, CallersDie(calls, verdicts)
       PROVE  TypeOK'
  BY <1>15 DEF CallersDie, attemptVars
<1>16. CASE UNCHANGED ledgerVars
  BY <1>16 DEF ledgerVars, attemptVars, callVars
<1> QED
  BY <1>1, <1>2, <1>3, <1>4, <1>5, <1>6, <1>7, <1>8, <1>9, <1>10, <1>11, <1>12, <1>13,
     <1>14, <1>15, <1>16 DEF LedgerNext

(***************************************************************************)
(* The row facts every other proof rests on.                               *)
(***************************************************************************)

\* A row that left RUNNING keeps its state, artifact and error for ever; the
\* store forgets no artifact, and a registered task stays registered with the
\* same inputs.
ClosedIsFinal ==
  /\ \A a \in Attempts : state[a] \in Closed =>
       state'[a] = state[a] /\ artifact'[a] = artifact[a] /\ error'[a] = error[a]
  /\ \A t \in queued : t \in queued' /\ input'[t] = input[t]
  /\ stored \subseteq stored'

LEMMA Finality == LedgerInv /\ [LedgerNext]_ledgerVars => ClosedIsFinal
<1> SUFFICES ASSUME LedgerInv, [LedgerNext]_ledgerVars PROVE ClosedIsFinal
  OBVIOUS
<1> USE DEF LedgerInv, TypeOK, ClosedIsFinal
<1>1. ASSUME NEW t \in Tasks, NEW level \in Levels, NEW ins \in [Deps[t] -> Artifacts],
             EnqueueTask(t, ins, level)
      PROVE  ClosedIsFinal
  <2>1. t \notin queued /\ state[<<t, 1>>] = "ABSENT"
    BY <1>1 DEF EnqueueTask, RowsAreQueued
  <2> QED
    BY <1>1, <2>1 DEF EnqueueTask
<1>2. ASSUME NEW a \in Attempts, ClaimAttempt(a) PROVE ClosedIsFinal
  BY <1>2 DEF ClaimAttempt, DependencyReady
<1>3. ASSUME NEW a \in Attempts, BindRunningProcess(a) PROVE ClosedIsFinal
  BY <1>3 DEF BindRunningProcess
<1>4. ASSUME NEW a \in Attempts, Heartbeat(a) \/ HeartbeatExpires(a) PROVE ClosedIsFinal
  BY <1>4 DEF Heartbeat, HeartbeatExpires, attemptVars
<1>5. ASSUME NEW a \in Attempts, MarkStalled(a) PROVE ClosedIsFinal
  BY <1>5 DEF MarkStalled
<1>6. ASSUME NEW a \in Attempts, NEW x \in Artifacts,
             CheckCompletion(a, x) \/ RefuseCompletion(a, x)
      PROVE  ClosedIsFinal
  BY <1>6 DEF CheckCompletion, RefuseCompletion, attemptVars
<1>7. ASSUME NEW a \in Attempts, NEW x \in Artifacts, CommitCompletion(a, x) PROVE ClosedIsFinal
  BY <1>7 DEF CommitCompletion
<1>8. ASSUME NEW a \in Attempts, NEW c \in Categories, FailAttempt(a, c) PROVE ClosedIsFinal
  BY <1>8 DEF FailAttempt
<1>9. ASSUME NEW a \in Attempts, NEW c \in Categories, NEW lowered \in BOOLEAN,
             RetryAttempt(a, c, lowered)
      PROVE  ClosedIsFinal
  BY <1>9 DEF RetryAttempt
<1>10. ASSUME NEW batch \in SUBSET Attempts, ClaimReady(batch) PROVE ClosedIsFinal
  BY <1>10 DEF ClaimReady, DependencyReady
<1>11. ASSUME NEW seen \in SUBSET bound, ScanRunning(seen) PROVE ClosedIsFinal
  BY <1>11 DEF ScanRunning, attemptVars
<1>12. ASSUME NEW x \in Artifacts, StoreArtifact(x) PROVE ClosedIsFinal
  BY <1>12 DEF StoreArtifact, attemptVars
<1>13. ASSUME NEW calls \in SUBSET verified, NEW verdicts \in SUBSET suspects, CallersDie(calls, verdicts)
       PROVE  ClosedIsFinal
  BY <1>13 DEF CallersDie, attemptVars
<1>14. CASE UNCHANGED ledgerVars
  BY <1>14 DEF ledgerVars, attemptVars
<1> QED
  BY <1>1, <1>2, <1>3, <1>4, <1>5, <1>6, <1>7, <1>8, <1>9, <1>10, <1>11, <1>12, <1>13, <1>14
  DEF LedgerNext

\* A second attempt is inserted only beside a lost first one.
LEMMA RetryStep == LedgerInv /\ [LedgerNext]_ledgerVars => RetryFollowsLoss' /\ RowsAreQueued'
<1> SUFFICES ASSUME LedgerInv, [LedgerNext]_ledgerVars, NEW t \in Tasks
             PROVE  /\ state'[<<t, 2>>] # "ABSENT" =>
                         /\ state'[<<t, 1>>] \in Lost
                         /\ error'[<<t, 1>>] \in Retryable \cup {None}
                    /\ t \notin queued' => /\ state'[<<t, 1>>] = "ABSENT"
                                           /\ state'[<<t, 2>>] = "ABSENT"
  BY DEF RetryFollowsLoss, RowsAreQueued
<1>a. /\ <<t, 1>> \in Attempts /\ <<t, 2>> \in Attempts
      /\ state[<<t, 2>>] # "ABSENT" => /\ state[<<t, 1>>] \in Lost
                                       /\ error[<<t, 1>>] \in Retryable \cup {None}
      /\ t \notin queued => state[<<t, 1>>] = "ABSENT" /\ state[<<t, 2>>] = "ABSENT"
      /\ ClosedIsFinal
  BY Finality DEF LedgerInv, RetryFollowsLoss, RowsAreQueued
<1> USE <1>a DEF LedgerInv, TypeOK
<1> DEFINE Goal == /\ state'[<<t, 2>>] # "ABSENT" =>
                        /\ state'[<<t, 1>>] \in Lost
                        /\ error'[<<t, 1>>] \in Retryable \cup {None}
                   /\ t \notin queued' => /\ state'[<<t, 1>>] = "ABSENT"
                                          /\ state'[<<t, 2>>] = "ABSENT"
<1>1. ASSUME NEW u \in Tasks, NEW level \in Levels, NEW ins \in [Deps[u] -> Artifacts],
             EnqueueTask(u, ins, level)
      PROVE  Goal
  BY <1>1 DEF EnqueueTask
<1>2a. ASSUME NEW a \in Attempts, ClaimAttempt(a) PROVE Goal
  BY <1>2a DEF ClaimAttempt, DependencyReady, ClosedIsFinal
<1>2b. ASSUME NEW a \in Attempts, BindRunningProcess(a) PROVE Goal
  BY <1>2b DEF BindRunningProcess, ClosedIsFinal
<1>2c. ASSUME NEW a \in Attempts, MarkStalled(a) PROVE Goal
  BY <1>2c DEF MarkStalled, ClosedIsFinal
<1>2d. ASSUME NEW a \in Attempts, NEW x \in Artifacts, CommitCompletion(a, x) PROVE Goal
  BY <1>2d DEF CommitCompletion, ClosedIsFinal
<1>2e. ASSUME NEW a \in Attempts, NEW c \in Categories, FailAttempt(a, c) PROVE Goal
  BY <1>2e DEF FailAttempt, ClosedIsFinal
<1>3. ASSUME NEW a \in Attempts, NEW c \in Categories, NEW lowered \in BOOLEAN,
             RetryAttempt(a, c, lowered)
      PROVE  Goal
  <2>1. PICK u \in Tasks, n \in Numbers : a = <<u, n>>
    OBVIOUS
  <2>2. n = 1
    BY <1>3, <2>1 DEF RetryAttempt
  <2>3. /\ state[<<u, 1>>] \in Lost
        /\ error[<<u, 1>>] \in Retryable \cup {None}
        /\ state' = [state EXCEPT ![<<u, 2>>] = "READY"]
        /\ UNCHANGED <<error, queued>>
        /\ u \in queued
    BY <1>3, <2>1, <2>2 DEF RetryAttempt, RowsAreQueued
  <2>4. state'[<<t, 1>>] = state[<<t, 1>>]
    BY <2>3
  <2>5. CASE t = u
    BY <2>3, <2>4, <2>5
  <2>6. CASE t # u
    <3>1. state'[<<t, 2>>] = state[<<t, 2>>]
      BY <2>3, <2>6
    <3> QED
      BY <2>3, <2>4, <3>1
  <2> QED
    BY <2>5, <2>6
<1>4. ASSUME NEW batch \in SUBSET Attempts, ClaimReady(batch) PROVE Goal
  BY <1>4 DEF ClaimReady, DependencyReady, ClosedIsFinal
<1>5. ASSUME UNCHANGED <<attemptVars, queued>> PROVE Goal
  BY <1>5 DEF attemptVars
<1>6. ASSUME NEW a \in Attempts, Heartbeat(a) \/ HeartbeatExpires(a) PROVE Goal
  BY <1>5, <1>6 DEF Heartbeat, HeartbeatExpires
<1>6a. ASSUME NEW a \in Attempts, NEW x \in Artifacts,
              CheckCompletion(a, x) \/ RefuseCompletion(a, x)
       PROVE  Goal
  BY <1>5, <1>6a DEF CheckCompletion, RefuseCompletion
<1>7. ASSUME NEW seen \in SUBSET bound, ScanRunning(seen) PROVE Goal
  BY <1>5, <1>7 DEF ScanRunning
<1>8. ASSUME NEW x \in Artifacts, StoreArtifact(x) PROVE Goal
  BY <1>5, <1>8 DEF StoreArtifact
<1>9. ASSUME NEW calls \in SUBSET verified, NEW verdicts \in SUBSET suspects, CallersDie(calls, verdicts)
      PROVE  Goal
  BY <1>5, <1>9 DEF CallersDie
<1>10. CASE UNCHANGED ledgerVars
  BY <1>5, <1>10 DEF ledgerVars
<1> QED
  BY <1>1, <1>2a, <1>2b, <1>2c, <1>2d, <1>2e, <1>3, <1>4, <1>6, <1>6a, <1>7, <1>8,
     <1>9, <1>10 DEF LedgerNext

\* Only a checked completion call completes a row, and it binds the artifact
\* it checked.
LEMMA VerifiedStep == LedgerInv /\ [LedgerNext]_ledgerVars => RowsAreVerified' /\ CallsAreVerified'
<1> SUFFICES ASSUME LedgerInv, [LedgerNext]_ledgerVars, NEW b \in Attempts
             PROVE  /\ state'[b] = "COMPLETED" => artifact'[b] \in Output[b[1]] \cap stored'
                    /\ \A z \in Artifacts : <<b, z>> \in verified' => z \in Output[b[1]] \cap stored'
  BY DEF RowsAreVerified, CallsAreVerified
<1> DEFINE Goal == /\ state'[b] = "COMPLETED" => artifact'[b] \in Output[b[1]] \cap stored'
                   /\ \A z \in Artifacts : <<b, z>> \in verified' => z \in Output[b[1]] \cap stored'
<1>a. /\ state[b] = "COMPLETED" => artifact[b] \in Output[b[1]] \cap stored
      /\ \A z \in Artifacts : <<b, z>> \in verified => z \in Output[b[1]] \cap stored
      /\ stored \subseteq stored'
  BY Finality DEF LedgerInv, RowsAreVerified, CallsAreVerified, ClosedIsFinal
<1> USE DEF LedgerInv, TypeOK
<1>1. ASSUME NEW t \in Tasks, NEW level \in Levels, NEW ins \in [Deps[t] -> Artifacts],
             EnqueueTask(t, ins, level)
      PROVE  Goal
  BY <1>a, <1>1 DEF EnqueueTask, callVars
<1>2. ASSUME NEW a \in Attempts, ClaimAttempt(a) PROVE Goal
  BY <1>a, <1>2 DEF ClaimAttempt, callVars
<1>3. ASSUME NEW a \in Attempts, BindRunningProcess(a) PROVE Goal
  BY <1>a, <1>3 DEF BindRunningProcess, callVars
<1>4. ASSUME NEW a \in Attempts, Heartbeat(a) \/ HeartbeatExpires(a) PROVE Goal
  BY <1>a, <1>4 DEF Heartbeat, HeartbeatExpires, attemptVars, callVars
<1>5. ASSUME NEW a \in Attempts, MarkStalled(a) PROVE Goal
  BY <1>a, <1>5 DEF MarkStalled
<1>6. ASSUME NEW a \in Attempts, NEW x \in Artifacts, CheckCompletion(a, x) PROVE Goal
  BY <1>a, <1>6 DEF CheckCompletion, attemptVars
<1>7. ASSUME NEW a \in Attempts, NEW x \in Artifacts, CommitCompletion(a, x) PROVE Goal
  <2>1. x \in Output[a[1]] \cap stored
    BY <1>7 DEF CommitCompletion, CallsAreVerified
  <2>2. CASE a = b
    BY <1>a, <1>7, <2>1, <2>2 DEF CommitCompletion
  <2>3. CASE a # b
    BY <1>a, <1>7, <2>3 DEF CommitCompletion
  <2> QED
    BY <2>2, <2>3
<1>8. ASSUME NEW a \in Attempts, NEW x \in Artifacts, RefuseCompletion(a, x) PROVE Goal
  BY <1>a, <1>8 DEF RefuseCompletion, attemptVars
<1>9. ASSUME NEW a \in Attempts, NEW c \in Categories, FailAttempt(a, c) PROVE Goal
  BY <1>a, <1>9 DEF FailAttempt, callVars
<1>10. ASSUME NEW a \in Attempts, NEW c \in Categories, NEW lowered \in BOOLEAN,
              RetryAttempt(a, c, lowered)
       PROVE  Goal
  BY <1>a, <1>10 DEF RetryAttempt, callVars
<1>11. ASSUME NEW batch \in SUBSET Attempts, ClaimReady(batch) PROVE Goal
  BY <1>a, <1>11 DEF ClaimReady, callVars
<1>12. ASSUME NEW seen \in SUBSET bound, ScanRunning(seen) PROVE Goal
  BY <1>a, <1>12 DEF ScanRunning, attemptVars
<1>13. ASSUME NEW x \in Artifacts, StoreArtifact(x) PROVE Goal
  BY <1>a, <1>13 DEF StoreArtifact, attemptVars, callVars
<1>14. ASSUME NEW calls \in SUBSET verified, NEW verdicts \in SUBSET suspects, CallersDie(calls, verdicts)
       PROVE  Goal
  BY <1>a, <1>14 DEF CallersDie, attemptVars
<1>15. CASE UNCHANGED ledgerVars
  BY <1>a, <1>15 DEF ledgerVars, attemptVars, callVars
<1> QED
  BY <1>1, <1>2, <1>3, <1>4, <1>5, <1>6, <1>7, <1>8, <1>9, <1>10, <1>11, <1>12, <1>13, <1>14,
     <1>15
  DEF LedgerNext

\* A task with an artifact has a COMPLETED row and conversely.
LEMMA OutcomeCompleted ==
  ASSUME TypeOK, RowsAreVerified, NEW t \in Tasks
  PROVE  /\ Completed(t) <=> Outcome(t) # None
         /\ Completed(t) => Outcome(t) \in Output[t] \cap stored
<1>1. /\ <<t, 1>> \in Attempts /\ <<t, 2>> \in Attempts
      /\ <<t, 1>>[1] = t /\ <<t, 2>>[1] = t
  OBVIOUS
<1>2. \A n \in Numbers : state[<<t, n>>] = "COMPLETED" =>
          artifact[<<t, n>>] \in Output[t] \cap stored
  BY <1>1 DEF RowsAreVerified
<1>3. Output[t] \subseteq Artifacts /\ None \notin Artifacts
  BY OutputAssumption, NoneAssumption
<1> QED
  BY <1>1, <1>2, <1>3 DEF Completed, Outcome

\* A completed task stays completed, with the same rows and the same artifact.
LEMMA OutcomeFinal ==
  ASSUME LedgerInv, [LedgerNext]_ledgerVars, NEW t \in Tasks, Completed(t)
  PROVE  /\ Completed(t)'
         /\ Outcome(t)' = Outcome(t)
         /\ \A n \in Numbers : state'[<<t, n>>] = state[<<t, n>>]
<1>1. /\ <<t, 1>> \in Attempts /\ <<t, 2>> \in Attempts
      /\ ClosedIsFinal
      /\ RetryFollowsLoss'
      /\ TypeOK /\ TypeOK' /\ RetryFollowsLoss
  BY Finality, RetryStep, TypeStep DEF LedgerInv
<1>2. CASE state[<<t, 2>>] = "COMPLETED"
  <2>1. state[<<t, 1>>] \in Lost
    BY <1>1, <1>2 DEF RetryFollowsLoss
  <2> QED
    BY <1>1, <1>2, <2>1 DEF ClosedIsFinal, Outcome, Completed
<1>3. CASE state[<<t, 1>>] = "COMPLETED"
  <2>1. state[<<t, 2>>] = "ABSENT" /\ state'[<<t, 2>>] = "ABSENT"
    <3>1. state'[<<t, 1>>] = "COMPLETED"
      BY <1>1, <1>3 DEF ClosedIsFinal
    <3> QED
      BY <1>1, <1>3, <3>1 DEF RetryFollowsLoss
  <2> QED
    BY <1>1, <1>3, <2>1 DEF ClosedIsFinal, Outcome, Completed
<1> QED
  BY <1>2, <1>3 DEF Completed

\* The inputs of a registered task keep naming its dependencies' artifacts.
LEMMA ProvenanceStep == LedgerInv /\ [LedgerNext]_ledgerVars => ProvenanceStable'
<1> SUFFICES ASSUME LedgerInv, [LedgerNext]_ledgerVars, NEW t \in queued', NEW d \in Deps[t]
             PROVE  input'[t][d] # None /\ input'[t][d] = Outcome(d)'
  BY DEF ProvenanceStable
<1>1. t \in Tasks /\ d \in Tasks /\ TypeOK'
  BY TypeStep, DepsAssumption DEF TypeOK
<1>2. Outcome(d) # None => Outcome(d)' = Outcome(d)
  BY <1>1, OutcomeCompleted, OutcomeFinal DEF LedgerInv
<1>3. CASE t \in queued
  <2>1. input[t][d] # None /\ input[t][d] = Outcome(d)
    BY <1>3 DEF LedgerInv, ProvenanceStable
  <2>2. input'[t] = input[t]
    BY <1>3, Finality DEF ClosedIsFinal
  <2> QED
    BY <1>2, <2>1, <2>2
<1>4. CASE t \notin queued
  <2>1. PICK level \in Levels, ins \in [Deps[t] -> Artifacts] : EnqueueTask(t, ins, level)
    <3>1. PICK u \in Tasks, level \in Levels : \E ins \in [Deps[u] -> Artifacts] : EnqueueTask(u, ins, level)
      BY <1>1, <1>4 DEF LedgerNext, ledgerVars, attemptVars, callVars, ClaimAttempt, BindRunningProcess,
         Heartbeat, HeartbeatExpires, MarkStalled, CheckCompletion, CommitCompletion,
         RefuseCompletion, FailAttempt, RetryAttempt, ClaimReady, ScanRunning, StoreArtifact,
         CallersDie
    <3>2. u = t
      BY <1>4, <3>1 DEF EnqueueTask
    <3> QED
      BY <3>1, <3>2
  <2>2. input'[t][d] = ins[d] /\ ins[d] = Outcome(d) /\ Outcome(d) # None
    BY <1>1, <2>1 DEF EnqueueTask, LedgerInv, TypeOK
  <2> QED
    BY <1>2, <2>2
<1> QED
  BY <1>3, <1>4

-----------------------------------------------------------------------------

\* Every reachable ledger satisfies the inductive invariant, whatever processes
\* call its operations in whatever order.
THEOREM LedgerInvariant == LedgerSpec => []LedgerInv
<1>1. LedgerInit => LedgerInv
  BY InitInv
<1>2. LedgerInv /\ [LedgerNext]_ledgerVars => LedgerInv'
  BY TypeStep, RetryStep, VerifiedStep, ProvenanceStep DEF LedgerInv
<1> QED
  BY <1>1, <1>2, PTL DEF LedgerSpec

\* Type correctness of the ledger's tables.
THEOREM LedgerTypeCorrect == LedgerSpec => []TypeOK
BY LedgerInvariant, PTL DEF LedgerInv

\* A second attempt exists only beside a lost, retryable first one.
THEOREM RetryIsSafe == LedgerSpec => []RetryFollowsLoss
BY LedgerInvariant, PTL DEF LedgerInv

\* The inputs a task was bound to remain its dependencies' artifacts.
THEOREM ProvenanceIsStable == LedgerSpec => []ProvenanceStable
BY LedgerInvariant, PTL DEF LedgerInv

\* A completed task names a verified artifact of its output type.
THEOREM OutcomesAreVerified == LedgerSpec => []OutcomeIsVerified
<1>1. LedgerInv => OutcomeIsVerified
  BY OutcomeCompleted DEF LedgerInv, OutcomeIsVerified
<1> QED
  BY <1>1, LedgerInvariant, PTL

\* A completed task is never inserted, started or closed again.
THEOREM CompletedIsFinal == LedgerSpec => NeverRerun
<1>1. LedgerInv /\ [LedgerNext]_ledgerVars =>
        [\A t \in Tasks : Completed(t) =>
           /\ Outcome(t)' = Outcome(t)
           /\ \A n \in Numbers : state'[<<t, n>>] = state[<<t, n>>]]_ledgerVars
  BY OutcomeFinal
<1> QED
  BY <1>1, LedgerInvariant, PTL DEF LedgerSpec, NeverRerun

-----------------------------------------------------------------------------
(* Refinement: every operation is, to TaskOutcome, an admission, a          *)
(* production or nothing at all.                                            *)

\* A step that completes no row and changes no artifact leaves every task's
\* outcome as it is.
LEMMA OutcomeKept ==
  ASSUME LedgerInv, UNCHANGED artifact, NEW t \in Tasks,
         \A b \in Attempts : state[b] = "COMPLETED" <=> state'[b] = "COMPLETED"
  PROVE  Outcome(t)' = Outcome(t)
BY RowsOfTask DEF Outcome

\* enqueue_task is an admission.
LEMMA EnqueueAdmits ==
  ASSUME LedgerInv, NEW t \in Tasks, NEW level \in Levels, NEW ins \in [Deps[t] -> Artifacts],
         EnqueueTask(t, ins, level)
  PROVE  Promise!Admit(t)
<1>1. state[<<t, 1>>] = "ABSENT"
  BY DEF EnqueueTask, LedgerInv, RowsAreQueued
<1>2. \A b \in Attempts : state[b] = "COMPLETED" <=> state'[b] = "COMPLETED"
  BY <1>1 DEF EnqueueTask, LedgerInv, TypeOK
<1>3. \A u \in Tasks : Outcome(u)' = Outcome(u)
  BY <1>2, OutcomeKept DEF EnqueueTask
<1>4. \A d \in Deps[t] : d \in Tasks /\ Outcome(d) # None /\ ins[d] = Outcome(d)
  BY DepsAssumption DEF EnqueueTask
<1>5. [d \in Tasks |-> IF d \in Deps[t] THEN ins[d] ELSE None] =
        [d \in Tasks |-> IF d \in Deps[t] THEN [u \in Tasks |-> Outcome(u)][d] ELSE None]
  BY <1>4
<1>6. [u \in Tasks |-> Outcome(u)]' = [u \in Tasks |-> Outcome(u)]
  BY <1>3
<1> QED
  BY <1>4, <1>5, <1>6 DEF EnqueueTask, Promise!Admit

\* The commit of complete_attempt is a production.
LEMMA CommitProduces ==
  ASSUME LedgerInv, LedgerInv', NEW a \in Attempts, NEW x \in Artifacts, CommitCompletion(a, x)
  PROVE  Promise!Produce(a[1], x)
<1>1. PICK t \in Tasks, n \in Numbers : a = <<t, n>>
  OBVIOUS
<1>2. /\ state[<<t, n>>] = "RUNNING"
      /\ x \in Output[t]
      /\ x # None
      /\ state' = [state EXCEPT ![<<t, n>>] = "COMPLETED"]
      /\ artifact' = [artifact EXCEPT ![<<t, n>>] = x]
      /\ UNCHANGED <<queued, input>>
  BY <1>1, NoneAssumption DEF CommitCompletion, LedgerInv, CallsAreVerified
<1>3. t \in queued
  BY <1>2, RowsOfTask DEF LedgerInv, RowsAreQueued
<1>4. Outcome(t) = None /\ Outcome(t)' = x
  <2>1. /\ state[<<t, 2>>] # "ABSENT" => state[<<t, 1>>] \in Lost
        /\ state'[<<t, 2>>] # "ABSENT" => state'[<<t, 1>>] \in Lost
    BY DEF LedgerInv, RetryFollowsLoss
  <2>2. CASE n = 1
    <3>1. state[<<t, 2>>] = "ABSENT" /\ state'[<<t, 2>>] = "ABSENT"
      BY <1>2, <2>1, <2>2, RowsOfTask DEF LedgerInv, TypeOK
    <3> QED
      BY <1>2, <2>2, <3>1, RowsOfTask DEF Outcome, LedgerInv, TypeOK
  <2>3. CASE n = 2
    BY <1>2, <2>1, <2>3, RowsOfTask DEF Outcome, LedgerInv, TypeOK
  <2> QED
    BY <2>2, <2>3
<1>5. \A u \in Tasks : u # t => Outcome(u)' = Outcome(u)
  BY <1>2, RowsOfTask DEF Outcome, LedgerInv, TypeOK
<1>6. [u \in Tasks |-> Outcome(u)]' = [[u \in Tasks |-> Outcome(u)] EXCEPT ![t] = x]
  BY <1>4, <1>5
<1> QED
  BY <1>1, <1>2, <1>3, <1>4, <1>6 DEF Promise!Produce

\* Every other operation is invisible.
LEMMA OthersStutter ==
  ASSUME LedgerInv, UNCHANGED <<queued, input, artifact>>,
         \A b \in Attempts : state[b] = "COMPLETED" <=> state'[b] = "COMPLETED"
  PROVE  UNCHANGED Promise!taskVars
<1>1. \A t \in Tasks : Outcome(t)' = Outcome(t)
  BY OutcomeKept
<1> QED
  BY <1>1 DEF Promise!taskVars

LEMMA RefinementStep ==
  ASSUME LedgerInv, LedgerInv', [LedgerNext]_ledgerVars
  PROVE  [Promise!TaskNext]_(Promise!taskVars)
<1> DEFINE Goal == [Promise!TaskNext]_(Promise!taskVars)
<1> USE DEF LedgerInv, TypeOK
<1>1. ASSUME NEW t \in Tasks, NEW level \in Levels, NEW ins \in [Deps[t] -> Artifacts],
             EnqueueTask(t, ins, level)
      PROVE  Goal
  BY <1>1, EnqueueAdmits DEF Promise!TaskNext
<1>2. ASSUME NEW a \in Attempts, NEW x \in Artifacts, CommitCompletion(a, x) PROVE Goal
  BY <1>2, CommitProduces DEF Promise!TaskNext
<1>3. ASSUME NEW a \in Attempts, ClaimAttempt(a) PROVE Goal
  BY <1>3, OthersStutter DEF ClaimAttempt, DependencyReady
<1>4. ASSUME NEW a \in Attempts, BindRunningProcess(a) PROVE Goal
  BY <1>4, OthersStutter DEF BindRunningProcess
<1>5. ASSUME NEW a \in Attempts, Heartbeat(a) \/ HeartbeatExpires(a) PROVE Goal
  BY <1>5, OthersStutter DEF Heartbeat, HeartbeatExpires, attemptVars
<1>6. ASSUME NEW a \in Attempts, MarkStalled(a) PROVE Goal
  BY <1>6, OthersStutter DEF MarkStalled
<1>7. ASSUME NEW a \in Attempts, NEW x \in Artifacts,
             CheckCompletion(a, x) \/ RefuseCompletion(a, x)
      PROVE  Goal
  BY <1>7, OthersStutter DEF CheckCompletion, RefuseCompletion, attemptVars
<1>8. ASSUME NEW a \in Attempts, NEW c \in Categories, FailAttempt(a, c) PROVE Goal
  BY <1>8, OthersStutter DEF FailAttempt
<1>9. ASSUME NEW a \in Attempts, NEW c \in Categories, NEW lowered \in BOOLEAN,
             RetryAttempt(a, c, lowered)
      PROVE  Goal
  BY <1>9, OthersStutter DEF RetryAttempt
<1>10. ASSUME NEW batch \in SUBSET Attempts, ClaimReady(batch) PROVE Goal
  BY <1>10, OthersStutter DEF ClaimReady, DependencyReady
<1>11. ASSUME NEW seen \in SUBSET bound, ScanRunning(seen) PROVE Goal
  BY <1>11, OthersStutter DEF ScanRunning, attemptVars
<1>12. ASSUME NEW x \in Artifacts, StoreArtifact(x) PROVE Goal
  BY <1>12, OthersStutter DEF StoreArtifact, attemptVars
<1>13. ASSUME NEW calls \in SUBSET verified, NEW verdicts \in SUBSET suspects, CallersDie(calls, verdicts)
       PROVE  Goal
  BY <1>13, OthersStutter DEF CallersDie, attemptVars
<1>14. CASE UNCHANGED ledgerVars
  BY <1>14, OthersStutter DEF ledgerVars, attemptVars
<1> QED
  BY <1>1, <1>2, <1>3, <1>4, <1>5, <1>6, <1>7, <1>8, <1>9, <1>10, <1>11, <1>12, <1>13, <1>14
  DEF LedgerNext

\* The ledger keeps TaskOutcome's promise for every graph: each task is admitted
\* once, with its dependencies' artifacts, and produces at most one artifact.
THEOREM LedgerImplementsPromise == LedgerSpec => ImplementsPromise
<1>1. LedgerInit => Promise!TaskInit
  BY RowsOfTask DEF LedgerInit, Promise!TaskInit, NoInput, Promise!NoInput, Outcome
<1>2. LedgerInv /\ LedgerInv' /\ [LedgerNext]_ledgerVars => [Promise!TaskNext]_(Promise!taskVars)
  BY RefinementStep
<1> QED
  BY <1>1, <1>2, LedgerInvariant, PTL DEF LedgerSpec, ImplementsPromise, Promise!TaskSpec
=============================================================================
