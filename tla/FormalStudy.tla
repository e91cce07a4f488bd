----------------------------- MODULE FormalStudy -----------------------------
(***************************************************************************)
(* The two studies that follow qualification: Stage 2 fits the predictors, *)
(* selects on validation data and freezes its suite (stage2/tasks.py,      *)
(* stage2/jobs.py); E02 opens the formal data under a 24-hour grant and    *)
(* judges the frozen primary (e02/tasks.py, e02/jobs.py, e02/decision.py). *)
(*                                                                         *)
(* A task is <<phase, model, seed>>.  A job that publishes one artifact    *)
(* from immutable inputs is one step; a job that also writes elsewhere, or *)
(* reads the clock, is several.  The ledger's part is kept as two tries    *)
(* per task: a try that reports an OSError is repeated once, any other     *)
(* reported failure is final, and a worker that dies unreported leaves its *)
(* row RUNNING for ever, since neither driver reconciles the ledger        *)
(* (AttemptLedger has the ledger itself).                                  *)
(*                                                                         *)
(* No artifact says which try made it.  A try that is repeated after its   *)
(* artifact is in the store makes the same bytes - training is             *)
(* deterministic, as in TrainingCheckpoints - and the store has no room    *)
(* for them (_atomic_link in artifacts/store.py).                          *)
(***************************************************************************)
EXTENDS Integers, Sequences, FiniteSets

CONSTANTS
  Seeds,        \* training.initialization_seeds, in the frozen order
  Families,     \* neural families, ITRANSFORMER among them
  Guardrails,   \* baselines that are not candidates for the strongest linear model
  Scores,       \* validation CRPS values
  Skills,       \* formal CRPS skills against the linear model; MinimumSkill is the gate's
  MinimumSkill,
  MinimumPositive,  \* minimum_positive_initializations
  Lifetime,     \* hours a grant lasts
  LastHour,     \* bound on the clock
  MaxLosses     \* bound on tries that go wrong

ASSUME SeedsAssumption ==
  /\ Seeds \in Seq(Nat \ {0}) /\ Seeds # <<>>
  /\ \A i, j \in DOMAIN Seeds : Seeds[i] = Seeds[j] => i = j
ASSUME FamiliesAssumption == "ITRANSFORMER" \in Families
ASSUME NumbersAssumption ==
  /\ Scores \subseteq Nat /\ Skills \subseteq Int
  /\ MinimumSkill \in Nat /\ MinimumPositive \in Nat
  /\ Lifetime \in Nat \ {0} /\ LastHour \in Nat /\ MaxLosses \in Nat

None == <<"NONE", 0>>
Linear == {"VAR", "DLINEAR"}
Inits == {Seeds[i] : i \in DOMAIN Seeds}
Neural == Families \X Inits
Baselines == (Linear \cup Guardrails) \X {0}
Predictors == Baselines \cup Neural
Indices == DOMAIN Seeds
Roles == {<<"STRONGEST_LINEAR", 0>>} \cup {<<"ITRANSFORMER_INIT", i>> : i \in Indices}

VARIABLES
  status,    \* status[t]: "waiting", "retry" after one lost try, "done", "failed",
             \* "stuck" when its worker died unreported
  score,     \* score[p]: the validation CRPS of each predictor, a fact of the data
  selected,  \* what MODEL_SELECT published: [linear, primary]
  manifest,  \* the frozen directory: [stage, linear, primary]
  writing,   \* tasks whose worker is between two of its effects
  hour,      \* the clock
  grant,     \* hour the grant was issued; -1 before the launch of E02
  evidence,  \* what PAIRED_BOOTSTRAP published
  outcome,   \* what E02_DECISION published
  final,     \* the outcome in E02's frozen/v1, "NONE" while it is missing
  published, \* tasks with a lost try whose artifact is in the store
  losses,    \* history: tries that went wrong
  rejected   \* history: one of them was rejected

studyVars == <<status, score, selected, manifest, writing, hour, grant, evidence, outcome, final,
               published, losses, rejected>>

-----------------------------------------------------------------------------
(* The task graphs *)

Upstream(u) == <<"UPSTREAM_VERIFY", u, 0>>
Source(s) == <<"SOURCE_VERIFY", s, 0>>
Data == <<"DEV_DATA", "DATA", 0>>
Train(p) == <<"NEURAL_TRAIN", p[1], p[2]>>
Fitted(p) == <<IF p \in Neural THEN "CHECKPOINT_VALIDATE" ELSE "BASELINE_FIT", p[1], p[2]>>
Predict(p) == <<"VALIDATION_PREDICT", p[1], p[2]>>
SelectLinear == <<"MODEL_SELECT", "STRONGEST_LINEAR", 0>>
SelectPrimary == <<"MODEL_SELECT", "ITRANSFORMER", 0>>
Candidate == <<"FREEZE_CANDIDATE", "SUITE", 0>>
Stage2Receipt == <<"STAGE2_RECEIPT", "SUITE", 0>>

\* A family's source has its name.
Upstreams == {"STAGE1B", "E01"}
Sources == {"SCORING_RULES", "DLINEAR"} \cup Families
Stage2Tasks ==
  {Upstream(u) : u \in Upstreams} \cup {Source(s) : s \in Sources} \cup {Data}
  \cup {Train(p) : p \in Neural} \cup {Fitted(p) : p \in Predictors}
  \cup {Predict(p) : p \in Predictors}
  \cup {SelectLinear, SelectPrimary, Candidate, Stage2Receipt}

GrantVerify == <<"GRANT_VERIFY", "AUTHORIZATION", 0>>
Stage2Verify == <<"STAGE2_VERIFY", "FROZEN_SUITE", 0>>
Open == <<"FORMAL_OPEN", "FORMAL_DATA", 0>>
PredictFormal(r) == <<"FORMAL_PREDICT", r[1], r[2]>>
ScoreFormal(r) == <<"TRAJECTORY_SCORE", r[1], r[2]>>
Bootstrap == <<"PAIRED_BOOTSTRAP", "ITRANSFORMER", 0>>
Decision == <<"E02_DECISION", "ITRANSFORMER", 0>>
E02Receipt == <<"E02_RECEIPT", "ITRANSFORMER", 0>>

E02Tasks ==
  {GrantVerify, Stage2Verify, Open, Bootstrap, Decision, E02Receipt}
  \cup {PredictFormal(r) : r \in Roles} \cup {ScoreFormal(r) : r \in Roles}

Tasks == Stage2Tasks \cup E02Tasks

\* compile_stage2_graph and compile_e02_graph: the artifacts a task is given.
Deps(t) ==
  LET p == <<t[2], t[3]>>
  IN CASE t[1] = "DEV_DATA" -> {Upstream(u) : u \in Upstreams} \cup {Source("SCORING_RULES")}
       [] t[1] = "BASELINE_FIT" -> {Data} \cup {Source(s) : s \in {t[2]} \cap {"DLINEAR"}}
       [] t[1] = "NEURAL_TRAIN" -> {Data, Source(t[2])}
       [] t[1] = "CHECKPOINT_VALIDATE" -> {Train(p), Data}
       [] t[1] = "VALIDATION_PREDICT" -> {Fitted(p), Data}
       [] t = SelectLinear -> {Predict(<<m, 0>>) : m \in Linear}
       [] t = SelectPrimary -> {Predict(<<"ITRANSFORMER", s>>) : s \in Inits}
       [] t[1] = "FREEZE_CANDIDATE" ->
            {Data, SelectLinear, SelectPrimary} \cup {Source(s) : s \in Sources}
            \cup {Fitted(q) : q \in Predictors} \cup {Predict(q) : q \in Predictors}
       [] t[1] = "STAGE2_RECEIPT" -> {Candidate}
       [] t[1] = "FORMAL_OPEN" -> {GrantVerify, Stage2Verify}
       [] t[1] = "FORMAL_PREDICT" -> {Open, Stage2Verify}
       [] t[1] = "TRAJECTORY_SCORE" -> {PredictFormal(p), Open}
       [] t[1] = "PAIRED_BOOTSTRAP" -> {ScoreFormal(r) : r \in Roles}
       [] t[1] = "E02_DECISION" -> {Bootstrap} \cup {ScoreFormal(r) : r \in Roles}
       [] t[1] = "E02_RECEIPT" -> {Decision, Bootstrap}
       [] OTHER -> {}

-----------------------------------------------------------------------------
(* States *)

Manifests == [stage : {"absent", "made", "manifest", "complete"},
              linear : Linear \cup {"NONE"}, primary : Inits \cup {0}]
NoEvidence == [primary |-> 0, linear |-> "NONE", skill |-> [i \in Indices |-> 0], sound |-> FALSE, lower |-> FALSE]
Outcomes == {"NONE", "PASS", "FAIL", "INCONCLUSIVE", "NOT_EVALUABLE"}

StudyTypeOK ==
  /\ status \in [Tasks -> {"waiting", "retry", "done", "failed", "stuck"}]
  /\ score \in [Predictors -> Scores]
  /\ selected \in [linear : Linear \cup {"NONE"}, primary : Inits \cup {0}]
  /\ manifest \in Manifests
  /\ writing \subseteq Tasks /\ published \subseteq Tasks
  /\ hour \in 0..LastHour /\ grant \in -1..LastHour
  /\ evidence \in [primary : Inits \cup {0}, linear : Linear \cup {"NONE"},
                   skill : [Indices -> Skills \cup {0}], sound : BOOLEAN, lower : BOOLEAN]
  /\ outcome \in Outcomes /\ final \in Outcomes
  /\ losses \in 0..MaxLosses /\ rejected \in BOOLEAN

StudyInit ==
  /\ status = [t \in Tasks |-> "waiting"]
  /\ score \in [Predictors -> Scores]
  /\ selected = [linear |-> "NONE", primary |-> 0]
  /\ manifest = [stage |-> "absent", linear |-> "NONE", primary |-> 0]
  /\ writing = {} /\ hour = 0 /\ grant = -1
  /\ evidence = NoEvidence /\ outcome = "NONE" /\ final = "NONE"
  /\ published = {} /\ losses = 0 /\ rejected = FALSE

RunFailed(run) == \E t \in run : status[t] = "failed"
RunStuck(run) == \E t \in run : status[t] = "stuck"

\* Mutant: a task whose try was lost is never compiled as ready again.
ReadyOnce(t) ==
  /\ status[t] = "waiting"
  /\ \A d \in Deps(t) : status[d] = "done"
  /\ t \in E02Tasks => grant >= 0

\* compile_stage2_ready and compile_e02_ready: other branches of a run that has
\* failed go on while one of its tasks runs, and for a tick of every resume.
Ready(t) ==
  /\ status[t] \in {"waiting", "retry"}
  /\ \A d \in Deps(t) : status[d] = "done"
  /\ t \in E02Tasks => grant >= 0

\* A first artifact of the task; its row is closed with it.
Publishes(t) == t \notin published /\ status' = [status EXCEPT ![t] = "done"]

AfterLoss(s) == IF s = "waiting" THEN "retry" ELSE "failed"
Outside == <<hour, grant, published, losses, rejected>>
Results == <<selected, manifest, evidence, outcome, final>>

-----------------------------------------------------------------------------
(* Stage 2 jobs *)

Plain(t) == Ready(t) /\ Publishes(t) /\ UNCHANGED <<score, Results, writing, Outside>>

VerifyUpstream(u) == Plain(Upstream(u))
VerifySource(s) == Plain(Source(s))
GenerateDevelopmentData == Plain(Data)
FitBaseline(p) == Plain(Fitted(p))
TrainNeural(p) == Plain(Train(p))
ValidateCheckpoint(p) == Plain(Fitted(p))
PredictValidation(p) == Plain(Predict(p))

\* The least CRPS; DLINEAR before VAR when they are equal.
StrongestLinear == IF score[<<"VAR", 0>>] < score[<<"DLINEAR", 0>>] THEN "VAR" ELSE "DLINEAR"

Key(i) == score[<<"ITRANSFORMER", Seeds[i]>>]

\* The least CRPS, the earliest in the seed order when several are equal.
PrimaryInitialization ==
  Seeds[CHOOSE i \in Indices : \A j \in Indices : Key(i) < Key(j) \/ (Key(i) = Key(j) /\ i <= j)]

SelectModel(t) ==
  /\ Ready(t) /\ Publishes(t)
  /\ selected' = IF t = SelectLinear THEN [selected EXCEPT !.linear = StrongestLinear]
                                     ELSE [selected EXCEPT !.primary = PrimaryInitialization]
  /\ UNCHANGED <<score, manifest, evidence, outcome, final, writing, Outside>>

FreezeCandidate == Plain(Candidate)

\* publish_receipt_job and freeze_stage2_suite: the directory must be new ...
MakeFreezeRoot ==
  /\ Ready(Stage2Receipt) /\ Stage2Receipt \notin writing
  /\ IF manifest.stage = "absent"
       THEN /\ manifest' = [manifest EXCEPT !.stage = "made"]
            /\ writing' = writing \cup {Stage2Receipt} /\ UNCHANGED status
       ELSE /\ status' = [status EXCEPT ![Stage2Receipt] = "failed"]
            /\ UNCHANGED <<manifest, writing>>
  /\ UNCHANGED <<score, selected, evidence, outcome, final, Outside>>

\* ... then come the manifest and the receipt; an error of a write is reported
\* as a rejected freeze, which is not retried.
WriteFreeze ==
  /\ Ready(Stage2Receipt) /\ Stage2Receipt \in writing /\ manifest.stage # "complete"
  /\ \/ /\ manifest' = IF manifest.stage = "made"
                         THEN [stage |-> "manifest", linear |-> selected.linear,
                               primary |-> selected.primary]
                         ELSE [manifest EXCEPT !.stage = "complete"]
        /\ UNCHANGED <<status, writing, losses>>
     \/ /\ losses < MaxLosses /\ losses' = losses + 1
        /\ status' = [status EXCEPT ![Stage2Receipt] = "failed"]
        /\ writing' = writing \ {Stage2Receipt} /\ UNCHANGED manifest
  /\ UNCHANGED <<score, selected, evidence, outcome, final, hour, grant, published, rejected>>

PublishStage2Receipt ==
  /\ Ready(Stage2Receipt) /\ Stage2Receipt \in writing /\ manifest.stage = "complete"
  /\ Publishes(Stage2Receipt) /\ writing' = writing \ {Stage2Receipt}
  /\ UNCHANGED <<score, Results, Outside>>

-----------------------------------------------------------------------------
(* E02 *)

\* launch_e02: the frozen suite must verify; the grant is issued now.
Verified == manifest.stage = "complete"
LaunchE02 ==
  /\ grant < 0 /\ Verified /\ grant' = hour
  /\ UNCHANGED <<status, score, Results, writing, hour, published, losses, rejected>>

\* Mutant: expires_at is never looked at.
NeverExpires == hour >= grant

\* validate_sealed_access
Current == hour >= grant /\ hour < grant + Lifetime

VerifyGrant == Plain(GrantVerify)

\* verify_frozen_stage2_suite and _verify_stage2_artifacts: what the manifest
\* pins must be among the completed artifacts of the Stage 2 run, whatever
\* became of that run.
SuiteIsBacked == Verified /\ \A d \in Deps(Candidate) \ {SelectLinear, SelectPrimary} : status[d] = "done"
VerifyStage2 == SuiteIsBacked /\ Plain(Stage2Verify)

\* open_formal_job checks the grant when it begins; the refusal is an OSError,
\* hence "transient", hence repeated once.
OpenFormal ==
  /\ Ready(Open) /\ Open \notin writing
  /\ IF Current THEN writing' = writing \cup {Open} /\ UNCHANGED status
                ELSE status' = [status EXCEPT ![Open] = AfterLoss(@)] /\ UNCHANGED writing
  /\ UNCHANGED <<score, Results, Outside>>

PublishFormal ==
  /\ Ready(Open) /\ Open \in writing
  /\ Publishes(Open) /\ writing' = writing \ {Open}
  /\ UNCHANGED <<score, Results, Outside>>

PredictFormalModel(r) == Plain(PredictFormal(r))
ScoreTrajectories(r) == Plain(ScoreFormal(r))

\* bootstrap_job: every score file says whether its seed is the manifest's
\* primary; exactly one must.
Flagged == {i \in Indices : Seeds[i] = manifest.primary}

PairedBootstrap ==
  /\ Ready(Bootstrap) /\ Cardinality(Flagged) = 1
  /\ Publishes(Bootstrap)
  /\ \E skill \in [Indices -> Skills], sound, lower \in BOOLEAN :
       evidence' = [primary |-> Seeds[CHOOSE i \in Flagged : TRUE], linear |-> manifest.linear,
                    skill |-> skill, sound |-> sound, lower |-> lower]
  /\ UNCHANGED <<score, selected, manifest, outcome, final, writing, Outside>>

\* evaluate_e02.  `sound` stands for the hard gates on integrity, guardrails,
\* regimes, coverage and secondary horizons, `lower` for the soft gates on the
\* interval and the data seeds.  All 120 trajectories are there: a formal bundle
\* with fewer was refused when it was opened.
PrimarySkill(e) == e.skill[CHOOSE i \in Indices : Seeds[i] = e.primary]

\* Mutant: one good initialization is as good as the required number of them.
AnyPositiveInit(e) == IF \E i \in Indices : e.skill[i] > 0 THEN Len(Seeds) ELSE 0

PositiveInits(e) == Cardinality({i \in Indices : e.skill[i] > 0})

Judgement(e) ==
  LET hardFailure == ~e.sound \/ PrimarySkill(e) < 0
      softGates == /\ e.lower
                   /\ PrimarySkill(e) >= MinimumSkill
                   /\ PositiveInits(e) >= MinimumPositive
  IN IF hardFailure THEN "FAIL" ELSE IF softGates THEN "PASS" ELSE "INCONCLUSIVE"

Decide ==
  /\ Ready(Decision) /\ Publishes(Decision)
  /\ outcome' = Judgement(evidence)
  /\ UNCHANGED <<score, selected, manifest, evidence, final, writing, Outside>>

\* Mutant: like Stage 2, E02 insists on a new directory.
NewFinal == final = "NONE"

\* write_final_e02 renames a complete directory into place; what an earlier try
\* left there must be the same.
SameFinal == final \in {"NONE", outcome}

WriteFinal ==
  /\ Ready(E02Receipt) /\ E02Receipt \notin writing
  /\ IF SameFinal
       THEN final' = outcome /\ writing' = writing \cup {E02Receipt} /\ UNCHANGED status
       ELSE status' = [status EXCEPT ![E02Receipt] = "failed"] /\ UNCHANGED <<final, writing>>
  /\ UNCHANGED <<score, selected, manifest, evidence, outcome, Outside>>

PublishE02Receipt ==
  /\ Ready(E02Receipt) /\ E02Receipt \in writing
  /\ Publishes(E02Receipt) /\ writing' = writing \ {E02Receipt}
  /\ UNCHANGED <<score, Results, Outside>>

-----------------------------------------------------------------------------
(* What happens to a try *)

GoesWrong(t) == losses < MaxLosses /\ losses' = losses + 1 /\ writing' = writing \ {t}
Lost(t) == GoesWrong(t) /\ UNCHANGED <<score, Results, hour, grant, rejected>>

\* An OSError before anything is published: repeated once.
TransientTry(t) ==
  /\ Ready(t) /\ Lost(t)
  /\ status' = [status EXCEPT ![t] = AfterLoss(@)] /\ UNCHANGED published

\* The try has its artifact, and comes to store it.
AtPublication(t) ==
  /\ t \in {Stage2Receipt, Open, E02Receipt} => t \in writing
  /\ t = Stage2Receipt => manifest.stage = "complete"
  /\ t = Stage2Verify => SuiteIsBacked
  /\ t = Bootstrap => Cardinality(Flagged) = 1

\* An OSError between the artifact and its row, as when complete_attempt reads
\* it again: repeated once, and in vain.
PublishInVain(t) ==
  /\ Ready(t) /\ AtPublication(t) /\ t \notin published /\ Lost(t)
  /\ status' = [status EXCEPT ![t] = AfterLoss(@)] /\ published' = published \cup {t}

\* FileExistsError, at the second and last try.
PublishAgain(t) ==
  /\ Ready(t) /\ AtPublication(t) /\ t \in published
  /\ status' = [status EXCEPT ![t] = AfterLoss(@)] /\ writing' = writing \ {t}
  /\ UNCHANGED <<score, Results, Outside>>

\* The worker dies, wherever it is.  Its driver forgets it, and no resume looks
\* for it: the row stays RUNNING.
DieUnreported(t) ==
  /\ Ready(t) /\ Lost(t)
  /\ status' = [status EXCEPT ![t] = "stuck"] /\ UNCHANGED published

\* Any other error - a hash, a NaN, a shape - is terminal.
RejectTry(t) ==
  /\ Ready(t) /\ GoesWrong(t) /\ rejected' = TRUE
  /\ status' = [status EXCEPT ![t] = "failed"]
  /\ UNCHANGED <<score, Results, hour, grant, published>>

TimePasses ==
  /\ grant >= 0 /\ hour < LastHour /\ hour' = hour + 1
  /\ UNCHANGED <<status, score, Results, writing, grant, published, losses, rejected>>

Jobs ==
  \/ \E u \in Upstreams : VerifyUpstream(u)
  \/ \E s \in Sources : VerifySource(s)
  \/ GenerateDevelopmentData
  \/ \E p \in Baselines : FitBaseline(p)
  \/ \E p \in Neural : TrainNeural(p) \/ ValidateCheckpoint(p)
  \/ \E p \in Predictors : PredictValidation(p)
  \/ \E t \in {SelectLinear, SelectPrimary} : SelectModel(t)
  \/ FreezeCandidate \/ MakeFreezeRoot \/ WriteFreeze \/ PublishStage2Receipt
  \/ VerifyGrant \/ VerifyStage2 \/ OpenFormal \/ PublishFormal
  \/ \E r \in Roles : PredictFormalModel(r) \/ ScoreTrajectories(r)
  \/ PairedBootstrap \/ Decide \/ WriteFinal \/ PublishE02Receipt
  \/ \E t \in Tasks : PublishAgain(t)

StudyNext ==
  \/ Jobs \/ LaunchE02 \/ TimePasses
  \/ \E t \in Tasks : TransientTry(t) \/ PublishInVain(t) \/ DieUnreported(t) \/ RejectTry(t)

StudySpec == StudyInit /\ [][StudyNext]_studyVars

\* Workers are scheduled again and again; nobody has to launch E02.
FairStudySpec == StudySpec /\ WF_studyVars(Jobs)
-----------------------------------------------------------------------------
(* What the studies promise *)

\* A task of either study fails only for one of five causes: an error that is
\* never retried, two lost tries, a freeze that was interrupted after its
\* directory was made (freeze_stage2_suite refuses the retry), a grant that
\* expired before the formal data were opened, or a try that stored its artifact
\* and was lost before its row was closed.  In particular one OSError anywhere
\* else, after the final E02 directory is in place included, is survived.
FailureHasCause ==
  \A t \in Tasks :
    status[t] = "failed" =>
      \/ rejected \/ losses >= 2
      \/ t = Stage2Receipt /\ manifest.stage # "absent"
      \/ t = Open /\ hour >= grant + Lifetime
      \/ t \in published

\* What E02 compares is what validation chose: the frozen primary has the least
\* validation CRPS and no initialization before it in the frozen order is as
\* good; the linear opponent is the better of the two, DLINEAR when they tie.
IsBest(seed) ==
  \E i \in Indices :
    /\ Seeds[i] = seed
    /\ \A j \in Indices : Key(i) <= Key(j) /\ (j < i => Key(i) < Key(j))

ComparedAsSelected ==
  evidence # NoEvidence =>
    /\ IsBest(evidence.primary)
    /\ evidence.linear = "VAR" => score[<<"VAR", 0>>] < score[<<"DLINEAR", 0>>]
    /\ evidence.linear = "DLINEAR" => score[<<"DLINEAR", 0>>] <= score[<<"VAR", 0>>]

\* A final PASS is earned by the initialization validation chose, and by enough
\* of the others; a final FAIL or INCONCLUSIVE is never issued when it is.
PassIsEarned ==
  final # "NONE" =>
    (final = "PASS" <=>
       /\ evidence.sound /\ evidence.lower
       /\ \E i \in Indices : IsBest(Seeds[i]) /\ evidence.skill[i] >= MinimumSkill
       /\ \E good \in SUBSET Indices : /\ Cardinality(good) = MinimumPositive
                                        /\ \A i \in good : evidence.skill[i] > 0)

\* The comparison is of the models validation chose, and its verdict the one
\* the evidence earns.  (score_job, decide_job)
StudyInv == StudyTypeOK /\ ComparedAsSelected /\ PassIsEarned

SelectionIsFrozen ==
  /\ manifest = [stage |-> "complete", linear |-> selected.linear, primary |-> selected.primary]
  /\ \A p \in Predictors : status[Predict(p)] = "done"

\* Formal data are read only while a grant is current and only after the suite
\* they will judge has been frozen from every prediction (open_formal_job).
FormalDataStaysSealed ==
  [][(Open \in writing' \ writing) =>
       hour - grant \in 0..(Lifetime - 1) /\ SelectionIsFrozen]_studyVars

\* While workers are scheduled, Stage 2 freezes its suite or fails, and an E02
\* that is launched publishes a receipt or fails - unless a worker died without
\* a word: its run waits for ever.
StudiesEnd ==
  /\ <>(manifest.stage = "complete" \/ RunFailed(Stage2Tasks) \/ RunStuck(Stage2Tasks))
  /\ grant >= 0 ~> status[E02Receipt] = "done" \/ RunFailed(E02Tasks) \/ RunStuck(E02Tasks)
=============================================================================
