--------------------------- MODULE TrajectoryData ---------------------------
(***************************************************************************)
(* The trajectories the studies are made of: simulated by a pool of        *)
(* processes, cut into windows, published, read back, forecast and scored  *)
(* trajectory by trajectory (stage1b/dataset.py, stage2/data.py,           *)
(* e02/jobs.py).                                                           *)
(*                                                                         *)
(* A simulation is a function of its seed and its regime, and seeds and    *)
(* identities are SHA-256 of what names a trajectory.  So a trajectory is  *)
(* what names it and its regime, and stands for its values.                *)
(***************************************************************************)
EXTENDS Integers, Sequences, FiniteSets, SequencesExt

CONSTANTS
  Assignments,   \* who makes what: functions from makers to data tasks
  WorldRegimes,  \* worlds, as sequences of [id, role]
  DesignSeeds,   \* seeds of a data task, in the configured order
  DesignCount,   \* trajectories per seed of a partition
  PoolSizes,     \* what the environment says of workers: a count, 0 for nothing
  Length, History, Horizon,
  FoldCount      \* len(dlinear_fold_seeds)

ASSUME LengthAssumption ==
  /\ History \in Nat \ {0} /\ Horizon \in Nat \ {0}
  /\ Length \in Nat /\ Length >= History + Horizon

\* Stage 1B has one task per world and seed, Stage 2 and E02 one for all seeds.
DataTasks == {"stage1b", "stage2", "e02"}
PartitionOrder == <<"TRAIN", "VALIDATION", "TEST_SEEN", "TEST_UNSEEN">>
PartitionsOf(t) == CASE t = "stage1b" -> PartitionOrder
                     [] t = "stage2" -> SubSeq(PartitionOrder, 1, 2)
                     [] t = "e02" -> SubSeq(PartitionOrder, 3, 4)
Contenders == {"LINEAR", "NEURAL"}

\* Data are made for one study: Stage 1B compares on what it qualifies, E02 on
\* its own formal trajectories.
ASSUME AssignmentAssumption ==
  \A f \in Assignments : Range(f) \subseteq DataTasks /\ ~{"stage1b", "e02"} \subseteq Range(f)

\* WorldConfig: regime IDs are unique within a world.
ASSUME RegimeAssumption == \A w \in WorldRegimes : w \in Seq(Range(w)) /\ IsInjective(w)

\* QualificationConfig, Stage2Config and E02Config: no seed twice, no partition empty.
ASSUME DesignAssumption ==
  \A t \in DataTasks :
    /\ DesignSeeds[t] \in Seq(Range(DesignSeeds[t])) /\ DesignSeeds[t] # << >> /\ IsInjective(DesignSeeds[t])
    /\ \A p \in Range(PartitionsOf(t)) : DesignCount[t][p] \in Nat \ {0}

ASSUME NumberAssumption == PoolSizes \subseteq Nat /\ FoldCount \in Nat

VARIABLES
  makes,     \* the task each maker makes
  regimes,   \* the regimes of the world
  faulty,    \* trajectories whose simulation is not finite or not healthy
  maker,     \* maker[m]: [pc, workers, items, records, made]
  kept,      \* the artifact store
  accepted,  \* accepted[t]: the artifact of the completed attempt of t
  crossFit,  \* [status, seen]: the windows the model of an out-of-fold forecast saw
  forecasts, \* forecasts[c]: [status, windows], the windows in batch order
  scored     \* scored[c]: [status, rows], a row for each trajectory
dataVars == <<makes, regimes, faulty, maker, kept, accepted, crossFit, forecasts, scored>>

NoArtifact == [task |-> "NONE"]
RefusedData == [task |-> "REFUSED"]
DataTypeOK ==
  /\ makes \in Assignments /\ regimes \in WorldRegimes
  /\ \A m \in DOMAIN makes :
       /\ maker[m].pc \in {"idle", "pool", "raising", "publish", "done", "failed", "killed"}
       /\ maker[m].workers \in Nat
       /\ \A i \in DOMAIN maker[m].items :
            maker[m].items[i].state \in {"queued", "running", "ready", "error", "cancelled"}
  /\ DOMAIN accepted = DataTasks
  /\ \A x \in {crossFit} \cup Range(forecasts) \cup Range(scored) : x.status \in {"pending", "made", "refused"}

-----------------------------------------------------------------------------
(* The design *)

\* The elements of seq that are in S, in their order.
Filtered(seq, S) == FlattenSeq([i \in DOMAIN seq |-> IF seq[i] \in S THEN <<seq[i]>> ELSE << >>])

RoleOfPartition(p) == IF p = "TEST_UNSEEN" THEN "UNSEEN" ELSE "SEEN"
Eligible(p) == Filtered(regimes, {r \in Range(regimes) : r.role = RoleOfPartition(p)})

Named(t, seed, p, index) == [task |-> t, seed |-> seed, partition |-> p, index |-> index]
TrajectoryId(r) == Named(r.task, r.seed, r.partition, r.index)

\* The work of one seed and partition: the eligible regimes take turns.
Share(t, seed, p) ==
  [i \in 1..DesignCount[t][p] |->
     [task |-> t, seed |-> seed, partition |-> p, index |-> i,
      regime |-> Eligible(p)[1 + ((i - 1) % Len(Eligible(p)))]]]

WorkItems(t) ==
  FlattenSeq([s \in DOMAIN DesignSeeds[t] |->
    FlattenSeq([p \in DOMAIN PartitionsOf(t) |-> Share(t, DesignSeeds[t][s], PartitionsOf(t)[p])])])

Designable(t) == \A p \in Range(PartitionsOf(t)) : Eligible(p) # <<>>

-----------------------------------------------------------------------------
(* Windows, normalisation, bundles *)

Starts == 0..(Length - History - Horizon)
WindowsOf(r) == [k \in 1..Cardinality(Starts) |-> [id |-> TrajectoryId(r), regime |-> r.regime, start |-> k - 1]]
InPartition(records, p) == Filtered(records, {r \in Range(records) : r.partition = p})
IdsOf(records) == [i \in DOMAIN records |-> TrajectoryId(records[i])]

\* _normalizer, and the statistics of prepare_dataset: what they are fitted on.
FittedOn(records) == IdsOf(InPartition(records, "TRAIN"))

\* prepare_stage2_bundle and prepare_dataset
Windowed(t, records) ==
  [p \in Range(PartitionsOf(t)) |->
     LET chosen == InPartition(records, p)
     IN FlattenSeq([i \in DOMAIN chosen |-> WindowsOf(chosen[i])])]

Manifest(records, normalizer) == <<records, normalizer>>

Bundle(t, records, normalizer) ==
  IF \/ normalizer = <<>>
     \/ t # "stage1b" /\ Cardinality(Range(IdsOf(records))) # Len(records)
    THEN RefusedData
  ELSE [task |-> t, records |-> records, normalizer |-> normalizer,
        windows |-> Windowed(t, records), manifest |-> Manifest(records, normalizer)]

\* build_qualification_split
InAllPartitions(records) == \A p \in Range(PartitionOrder) : InPartition(records, p) # <<>>
\* _validate_formal_counts: the frozen number for each formal seed and partition.
InFrozenCounts(t, records) ==
  /\ \A s \in Range(DesignSeeds[t]), p \in Range(PartitionsOf(t)) :
       Cardinality({i \in DOMAIN records : records[i].seed = s /\ records[i].partition = p}) = DesignCount[t][p]
  /\ \A r \in Range(records) : r.partition \in Range(PartitionsOf(t))
Complete(t, records) ==
  /\ t = "stage1b" => InAllPartitions(records)
  /\ t = "e02" => InFrozenCounts(t, records)

\* A published artifact has either the windows or the records.
DatasetPayload(b) == [b EXCEPT !.records = <<>>]
BundlePayload(b) == [b EXCEPT !.windows = <<>>]
Payload(b) == IF b.task = "stage1b" THEN DatasetPayload(b) ELSE BundlePayload(b)

\* _dataset_from_payload: every window in its own partition, and once.
DatasetOf(a) ==
  IF /\ \A p \in DOMAIN a.windows : \A w \in Range(a.windows[p]) : w.id.partition = p
     /\ \A p, q \in DOMAIN a.windows : \A i \in DOMAIN a.windows[p], j \in DOMAIN a.windows[q] :
          a.windows[p][i] = a.windows[q][j] => p = q /\ i = j
    THEN a ELSE RefusedData
\* _bundle_from_payload: the windows are cut anew.
BundleOf(a) ==
  LET b == Bundle(a.task, a.records, a.normalizer)
  IN IF b # RefusedData /\ b.manifest = a.manifest THEN b ELSE RefusedData
Reloaded(a) == IF a.task = "stage1b" THEN DatasetOf(a) ELSE BundleOf(a)

-----------------------------------------------------------------------------
(* generate_world_split, generate_development_bundle, _generate_formal_records *)

Idle == [pc |-> "idle", workers |-> 0, items |-> <<>>, records |-> <<>>, made |-> NoArtifact]

DataInit ==
  /\ makes \in Assignments /\ regimes \in WorldRegimes
  /\ faulty \in {{}} \cup {{Named(t, DesignSeeds[t][1], PartitionsOf(t)[2], 1)} : t \in Range(makes)}
  /\ maker = [m \in DOMAIN makes |-> Idle]
  /\ kept = {} /\ accepted = [t \in DataTasks |-> NoArtifact]
  /\ crossFit = [status |-> "pending", seen |-> {}]
  /\ forecasts = [c \in Contenders |-> [status |-> "pending", windows |-> <<>>]]
  /\ scored = [c \in Contenders |-> [status |-> "pending", rows |-> {}]]

DataAt(m, pc) == maker[m].pc = pc
\* A try that is over keeps nothing but what it made.
DataEnds(m, pc) == maker' = [maker EXCEPT ![m] = [Idle EXCEPT !.pc = pc, !.made = maker[m].made]]
UnchangedByPool == UNCHANGED <<makes, regimes, faulty, kept, accepted, crossFit, forecasts, scored>>
MinOf(a, b) == IF a < b THEN a ELSE b

\* Without a CPU affinity Stage 1B works alone; Stage 2 and E02 refuse no workers.
Asked(t, setting) == IF t = "stage1b" /\ setting = 0 THEN 1 ELSE setting

\* A try of a data task begins.  E02's reads the normaliser of the completed
\* development data.
BeginData(m) ==
  /\ DataAt(m, "idle")
  /\ makes[m] = "e02" => accepted["stage2"] # NoArtifact
  /\ \E setting \in PoolSizes :
       LET asked == Asked(makes[m], setting)
           work == WorkItems(makes[m])
       IN IF asked = 0 \/ ~Designable(makes[m]) THEN DataEnds(m, "failed")
          ELSE maker' = [maker EXCEPT ![m] =
                 [maker[m] EXCEPT !.pc = "pool",
                                  !.workers = MinOf(asked, Len(work)),
                                  !.items = [i \in DOMAIN work |-> [what |-> work[i], state |-> "queued"]]]]
  /\ UnchangedByPool

InState(m, s) == {i \in DOMAIN maker[m].items : maker[m].items[i].state = s}
Becomes(m, i, s) == maker' = [maker EXCEPT ![m].items[i].state = s]
\* What the items in states of `before` are from now on.
AllBecome(m, before, s) ==
  [i \in DOMAIN maker[m].items |->
     IF maker[m].items[i].state \in before THEN [maker[m].items[i] EXCEPT !.state = s] ELSE maker[m].items[i]]

\* A process of the pool takes the next item; without a pool an error ends the
\* work at once.
TakeItem(m) ==
  /\ DataAt(m, "pool") /\ InState(m, "queued") # {}
  /\ Cardinality(InState(m, "running")) < maker[m].workers
  /\ maker[m].workers = 1 => InState(m, "error") = {}
  /\ LET i == CHOOSE k \in InState(m, "queued") : \A j \in InState(m, "queued") : k <= j
     IN Becomes(m, i, "running")
  /\ UnchangedByPool

\* _generate_trajectory_record and its kin; the simulation refuses a regime
\* that does not belong to the partition.
FinishItem(m, i) ==
  /\ maker[m].pc \in {"pool", "raising"} /\ i \in InState(m, "running")
  /\ LET r == maker[m].items[i].what
     IN Becomes(m, i, IF TrajectoryId(r) \in faulty \/ r.regime.role # RoleOfPartition(r.partition)
                        THEN "error" ELSE "ready")
  /\ UnchangedByPool

\* A process of the pool dies: BrokenProcessPool for all that is not there yet.
BreakPool(m) ==
  /\ DataAt(m, "pool") /\ maker[m].workers > 1 /\ InState(m, "running") # {}
  /\ maker' = [maker EXCEPT ![m].items = AllBecome(m, {"queued", "running"}, "error")]
  /\ UnchangedByPool

\* executor.map hands results over in the order of the work.
NextResult(m) == Len(maker[m].records) + 1

TakeResult(m) ==
  /\ DataAt(m, "pool") /\ Len(maker[m].records) < Len(maker[m].items)
  /\ LET result == maker[m].items[NextResult(m)]
     IN \/ /\ result.state = "ready"
           /\ maker' = [maker EXCEPT ![m].records = Append(maker[m].records, result.what)]
        \/ /\ result.state = "error"
           /\ maker' = [maker EXCEPT ![m].pc = "raising", ![m].items = AllBecome(m, {"queued"}, "cancelled")]
  /\ UnchangedByPool

\* The error leaves the pool when no process works any more.
LeavePool(m) ==
  /\ DataAt(m, "raising") /\ InState(m, "running") = {}
  /\ DataEnds(m, "failed") /\ UnchangedByPool

\* prepare_dataset, prepare_stage2_bundle; E02's with Stage 2's normaliser.
Prepared(t, records) ==
  IF ~Complete(t, records) THEN RefusedData
  ELSE Bundle(t, records, IF t = "e02" THEN Reloaded(accepted["stage2"]).normalizer ELSE FittedOn(records))

PrepareData(m) ==
  /\ DataAt(m, "pool") /\ Len(maker[m].records) = Len(maker[m].items)
  /\ LET bundle == Prepared(makes[m], maker[m].records)
     IN IF bundle = RefusedData THEN DataEnds(m, "failed")
        ELSE maker' = [maker EXCEPT ![m] = [Idle EXCEPT !.pc = "publish", !.made = Payload(bundle)]]
  /\ UnchangedByPool

\* The store is addressed by content and refuses what it has.
PublishData(m) ==
  /\ DataAt(m, "publish")
  /\ DataEnds(m, IF maker[m].made \in kept THEN "failed" ELSE "done")
  /\ kept' = kept \cup {maker[m].made}
  /\ UNCHANGED <<makes, regimes, faulty, accepted, crossFit, forecasts, scored>>

\* The ledger completes one attempt of a task.
AcceptData(m) ==
  /\ DataAt(m, "done") /\ accepted[makes[m]] = NoArtifact
  /\ accepted' = [accepted EXCEPT ![makes[m]] = maker[m].made]
  /\ UNCHANGED <<makes, regimes, faulty, maker, kept, crossFit, forecasts, scored>>

\* The worker itself is killed; the ledger gives the task to another one.
KillMaker(m) ==
  /\ maker[m].pc \in {"pool", "raising", "publish"}
  /\ DataEnds(m, "killed") /\ UnchangedByPool

-----------------------------------------------------------------------------
(* What is made of the data *)

UnchangedByUse == UNCHANGED <<makes, regimes, faulty, maker, kept, accepted>>
WindowId(w) == <<w.id, w.start>>

\* Mutant: a window's fold is its own.
FoldOfWindow(foldOf, w) == IF w.start = 0 THEN foldOf[w.id] ELSE 1
\* dlinear_fold_index
FoldOf(foldOf, w) == foldOf[w.id]

\* fit_dlinear_cross_fitted: whole trajectories are held out, by their hash.
FitCrossFolds ==
  /\ accepted["stage2"] # NoArtifact /\ crossFit.status = "pending"
  /\ LET train == Range(Reloaded(accepted["stage2"]).windows["TRAIN"])
     IN \E foldOf \in [{w.id : w \in train} -> 1..FoldCount] :
          LET heldOut(k) == {w \in train : FoldOf(foldOf, w) = k}
          IN crossFit' = IF \E k \in 1..FoldCount : heldOut(k) \in {{}, train}
               THEN [crossFit EXCEPT !.status = "refused"]
               ELSE [status |-> "made",
                     seen |-> {<<w, train \ heldOut(FoldOf(foldOf, w))>> : w \in train}]
  /\ UnchangedByUse /\ UNCHANGED <<forecasts, scored>>

\* _formal_batch, and what score_bootstrap_job stacks.
FormalWindows(b) == b.windows["TEST_SEEN"] \o b.windows["TEST_UNSEEN"]

\* predict_formal_job
ForecastFormal(c) ==
  /\ accepted["e02"] # NoArtifact /\ forecasts[c].status = "pending"
  /\ LET windows == FormalWindows(Reloaded(accepted["e02"]))
     IN forecasts' = [forecasts EXCEPT ![c] =
          [status |-> "made", windows |-> [i \in DOMAIN windows |-> WindowId(windows[i])]]]
  /\ UnchangedByUse /\ UNCHANGED <<crossFit, scored>>

\* _samples
ScoredWindows(b) == b.windows["TEST_SEEN"] \o b.windows["TEST_UNSEEN"]

\* What one trajectory is scored on: the i-th forecast against the i-th target.
ScoreRow(windows, forecast, id) ==
  LET rows == {i \in DOMAIN windows : windows[i].id = id}
  IN [id |-> id, origins |-> Cardinality(rows),
      pairs |-> {<<WindowId(windows[i]), forecast[i]>> : i \in rows}]

\* _score_distributions refuses forecasts of other windows and a trajectory
\* without windows.
ScoreFormalData(c) ==
  /\ forecasts[c].status = "made" /\ scored[c].status = "pending" /\ accepted["e02"] # NoArtifact
  /\ LET b == Reloaded(accepted["e02"])
         windows == ScoredWindows(b)
         ids == Range(IdsOf(b.records))
     IN scored' = [scored EXCEPT ![c] =
          IF /\ [i \in DOMAIN windows |-> WindowId(windows[i])] = forecasts[c].windows
             /\ ids = {w.id : w \in Range(windows)}
            THEN [status |-> "made", rows |-> {ScoreRow(windows, forecasts[c].windows, id) : id \in ids}]
            ELSE [status |-> "refused", rows |-> {}]]
  /\ UnchangedByUse /\ UNCHANGED <<crossFit, forecasts>>

\* score_bootstrap_job and _aggregate_comparisons: both contenders in one job.
CompareQualified ==
  /\ accepted["stage1b"] # NoArtifact /\ \A c \in Contenders : scored[c].status = "pending"
  /\ LET windows == FormalWindows(Reloaded(accepted["stage1b"]))
         forecast == [i \in DOMAIN windows |-> WindowId(windows[i])]
     IN scored' = [c \in Contenders |->
          [status |-> "made", rows |-> {ScoreRow(windows, forecast, w.id) : w \in Range(windows)}]]
  /\ UnchangedByUse /\ UNCHANGED <<crossFit, forecasts>>

DataNext ==
  \/ \E m \in DOMAIN makes :
       \/ BeginData(m) \/ TakeItem(m) \/ \E i \in DOMAIN maker[m].items : FinishItem(m, i)
       \/ BreakPool(m) \/ TakeResult(m) \/ LeavePool(m)
       \/ PrepareData(m) \/ PublishData(m) \/ AcceptData(m) \/ KillMaker(m)
  \/ FitCrossFolds \/ \E c \in Contenders : ForecastFormal(c) \/ ScoreFormalData(c)
  \/ CompareQualified

DataSpec == DataInit /\ [][DataNext]_dataVars

-----------------------------------------------------------------------------
(* What the data promise *)

\* One content per task: neither the size of the pool, nor which process was
\* first, nor which try published it, shows in an artifact.
OneContent == \A a, b \in kept : a.task = b.task => a = b

\* Every seed has the trajectories of the design and no other.
IdsOfWindows(windows) == {w.id : w \in Range(windows)}
IdsAsDesigned(b) ==
  UNION {IdsOfWindows(b.windows[p]) : p \in DOMAIN b.windows} =
    UNION {{Named(b.task, s, p, i) : s \in Range(DesignSeeds[b.task]), i \in 1..DesignCount[b.task][p]} :
             p \in DOMAIN b.windows}
\* They are in their partitions, whole, in regimes of the right role.
InPlace(b, p) ==
  /\ \A w \in Range(b.windows[p]) : w.id.partition = p /\ w.regime.role = RoleOfPartition(p)
  /\ Len(b.windows[p]) = Cardinality(IdsOfWindows(b.windows[p])) * Cardinality(Starts)
\* For every seed the regimes are used equally often.
UsedBy(b, s, p, r) == {w \in Range(b.windows[p]) : w.id.seed = s /\ w.start = 0 /\ w.regime = r}
UsedEvenly(b, p) ==
  \A s \in Range(DesignSeeds[b.task]) : \A q, r \in Range(Eligible(p)) :
    Cardinality(UsedBy(b, s, p, q)) <= 1 + Cardinality(UsedBy(b, s, p, r))
DesignIsMet(b) ==
  IdsAsDesigned(b) /\ \A p \in DOMAIN b.windows : InPlace(b, p) /\ UsedEvenly(b, p)

\* What is judged was never fitted on: the normaliser saw the training
\* trajectories, all of them and no other - in E02 those of Stage 2.
FittedOnTraining(b) ==
  LET source == IF b.task = "e02" THEN "stage2" ELSE b.task
  IN Range(b.normalizer) = {Named(source, s, "TRAIN", i) :
                              s \in Range(DesignSeeds[source]), i \in 1..DesignCount[source]["TRAIN"]}

\* A trajectory that could not be simulated is in no artifact; there is none.
NothingIsMissing ==
  \A f \in faulty : \A a \in kept : a.task # f.task

\* The model that forecasts a window for the scale never saw its trajectory.
HeldOutWhole == \A f \in crossFit.seen : \A v \in f[2] : v.id # f[1].id

\* Both contenders are scored on all windows of all formal trajectories, each
\* forecast against its own target, so that a pair of scores is a pair.
PairedRow(formal, id) ==
  [id |-> id, origins |-> Cardinality(Starts),
   pairs |-> {<<WindowId(w), WindowId(w)>> : w \in {v \in formal : v.id = id}}]
ScoresArePaired ==
  \A c \in Contenders :
    scored[c].status # "pending" =>
      LET formal == Range(FormalWindows(Reloaded(accepted[IF "e02" \in Range(makes) THEN "e02" ELSE "stage1b"])))
      IN scored[c].rows = {PairedRow(formal, w.id) : w \in formal}

\* The order a pool finishes in, its size, broken pools, killed and repeated
\* tries leave the data as designed, what is fitted apart from what is judged,
\* and forecasts beside their targets.  (generate_world_split,
\* prepare_stage2_bundle, fit_dlinear_cross_fitted, _score_distributions)
DataInv ==
  /\ DataTypeOK /\ OneContent /\ NothingIsMissing /\ HeldOutWhole /\ ScoresArePaired
  /\ \A a \in kept :
       LET b == Reloaded(a)
       IN b # RefusedData /\ DesignIsMet(b) /\ FittedOnTraining(b)
=============================================================================
