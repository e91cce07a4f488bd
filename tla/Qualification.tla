---------------------------- MODULE Qualification ----------------------------
(***************************************************************************)
(* Qualifying the worlds of Stage 1B.  Every (world, seed, model) is       *)
(* measured against a tuned VAR and the gates judge worlds and suite       *)
(* (stage1b/gates.py).  There are two ways to the same receipt: one loop   *)
(* that notes failures and goes on (run_qualification in                   *)
(* stage1b/runner.py), and a graph of tasks in which any failure ends the  *)
(* run (stage1b/compiler.py, stage1b/jobs.py).                             *)
(*                                                                         *)
(* A measurement is the CRPS improvement over the VAR in the seen and in   *)
(* the unseen regimes, and the slack of the guardrails, negative when they *)
(* are overstepped; each stands for sums over trajectories.  The bootstrap *)
(* check is left out: an interval below zero has a mean below zero, which  *)
(* the skill check refuses already.                                        *)
(***************************************************************************)
EXTENDS Integers, FiniteSets, FiniteSetsExt

CONSTANTS
  Worlds, Family, Role, SourceOf,   \* functions of the world
  ModelSource,    \* function of the model
  OtherSources,   \* reproduction cases no world and no model of a plan needs
  Plans,          \* configurations: [targets, seeds, models, minFamilies, minUnits]
  Measurements    \* [seen, unseen, slack : Int]

Primary == {w \in Worlds : Role[w] = "PRIMARY"}
\* target_primary_worlds
TargetsOf(p) == IF p.targets = {} THEN Primary ELSE p.targets
CandidatesOf(p) == TargetsOf(p) \X p.seeds \X p.models

\* What the loader of a configuration and target_primary_worlds refuse otherwise.
ASSUME PlansAssumption ==
  \A p \in Plans : /\ p.targets \subseteq Primary
                   /\ IsFiniteSet(p.seeds) /\ p.seeds # {}
                   /\ IsFiniteSet(p.models) /\ p.models # {}
                   /\ p.minFamilies \in Nat
ASSUME WorldsAssumption == IsFiniteSet(Worlds)
ASSUME MeasurementsAssumption == Measurements \subseteq [seen : Int, unseen : Int, slack : Int]

VARIABLES
  plan,       \* the configuration of this behaviour
  way,        \* "loop" or "graph"
  measured,   \* what each candidate measures, by <<world, seed, model>>
  noted,      \* the failure ledger: candidates without comparisons
  inoperable, \* candidates whose intervention smoke test failed
  unsound,    \* worlds that fail a structural check
  finished,   \* tasks with a published artifact
  broken,     \* a task of the graph has failed
  judgement     \* what the receipt says: [decisions, suite], or Open
qualificationVars == <<plan, way, measured, noted, inoperable, unsound, finished, broken, judgement>>

Open == [decisions |-> {}, suite |-> "NONE"]
Targets == TargetsOf(plan)
Candidates == CandidatesOf(plan)
-----------------------------------------------------------------------------
(* The gates, as functions of comparisons, operability and structural checks *)

Rows(compared, w, m) == {s \in plan.seeds : <<w, s, m>> \in compared}
Value(w, s, m, field) == measured[<<w, s, m>>][field]
Total(compared, w, m, field) ==
  MapThenSumSet(LAMBDA s : Value(w, s, m, field), Rows(compared, w, m))
Won(compared, w, m, field) == Cardinality({s \in Rows(compared, w, m) : Value(w, s, m, field) > 0})
Skill(compared, w, m) == Total(compared, w, m, "seen") + Total(compared, w, m, "unseen")

\* Mutant: the seeds that are there have to be expected ones, no more.
SomeSeeds(compared, w, m) == Rows(compared, w, m) \subseteq plan.seeds
\* The check seed_coverage.
AllSeeds(compared, w, m) == Rows(compared, w, m) = plan.seeds

\* _evaluate_candidate has no failed check.  65 of 100 units have to be won
\* over all, and a majority of the seen and of the unseen ones.
Succeeds(compared, operable, w, m) ==
  LET units == 2 * Cardinality(Rows(compared, w, m))
      seen == Won(compared, w, m, "seen")
      unseen == Won(compared, w, m, "unseen")
  IN /\ AllSeeds(compared, w, m)
     /\ units >= plan.minUnits
     /\ 100 * (seen + unseen) >= 65 * units
     /\ 4 * seen > units /\ 4 * unseen > units
     /\ Skill(compared, w, m) > 0
     /\ Total(compared, w, m, "slack") >= 0
     /\ m \in operable

\* The passing candidate of greatest skill; the code takes the first by name of
\* several, which is some choice that depends on nothing else.
Selected(compared, passing, w) ==
  CHOOSE m \in passing : \A n \in passing : Skill(compared, w, m) >= Skill(compared, w, n)

\* evaluate_world_gate
WorldDecision(compared, operable, sound, w) ==
  LET passing == {m \in plan.models : Succeeds(compared, operable, w, m)}
  IN IF w \notin sound THEN [world |-> w, status |-> "FAIL", model |-> {}]
     ELSE IF Role[w] # "PRIMARY" THEN [world |-> w, status |-> "EXEMPT", model |-> {}]
     ELSE IF passing = {} THEN [world |-> w, status |-> "FAIL", model |-> {}]
     ELSE [world |-> w, status |-> "PASS", model |-> {Selected(compared, passing, w)}]

\* As a mutant of the next: the suite counts worlds, not families.
PassedWorlds(decisions) == {d.world : d \in {e \in decisions : e.status = "PASS"}}
PassedFamilies(decisions) == {Family[d.world] : d \in {e \in decisions : e.status = "PASS"}}
\* evaluate_suite_gate
SuiteDecision(decisions) ==
  [decisions |-> decisions,
   suite |-> IF Cardinality(PassedFamilies(decisions)) >= plan.minFamilies THEN "PASS" ELSE "FAIL"]
-----------------------------------------------------------------------------
(* States *)

Everywhere(t) == [phase |-> t, world |-> "-", seed |-> 0, item |-> "-"]
Task(phase, w, s, m) == [phase |-> phase, world |-> w, seed |-> s, item |-> m]
Considered == IF plan.targets = {} THEN Worlds ELSE plan.targets
JudgedOf(p) == IF p.targets = {} THEN {w \in Worlds : Role[w] # "REFERENCE_ONLY"} ELSE p.targets
Judged == JudgedOf(plan)
SourcesOf(p) == {SourceOf[w] : w \in Worlds} \cup {ModelSource[m] : m \in p.models} \cup OtherSources
Materialize(x) == Task("SOURCE_MATERIALIZE", "-", 0, x)
Reproduce(x) == Task("OFFICIAL_REPRODUCTION", "-", 0, x)
Health(w) == Task("WORLD_HEALTH", w, 0, "-")
Aggregate == Everywhere("QUALIFICATION_AGGREGATE")
Receipt == Everywhere("QUALIFICATION_RECEIPT")
Neural == {"NEURAL_TRAIN", "MODEL_FREEZE_CHECK", "SCORE_BOOTSTRAP"}
Plain == {"DATA_GENERATE", "DATA_VALIDATE", "VAR_SCORE"}
GraphOf ==
  [p \in Plans |->
     {Materialize(x) : x \in SourcesOf(p)} \cup {Reproduce(x) : x \in SourcesOf(p)}
     \cup {Health(w) : w \in JudgedOf(p)}
     \cup {Task(q, w, s, "-") : q \in Plain, w \in TargetsOf(p), s \in p.seeds}
     \cup {Task(q, c[1], c[2], c[3]) : q \in Neural, c \in CandidatesOf(p)}
     \cup {Aggregate, Receipt}]
GraphTasks == GraphOf[plan]

\* compile_stage1b_graph
Needs(p, t) ==
  LET Same(phase, item) == Task(phase, t.world, t.seed, item)
  IN CASE t.phase = "SOURCE_MATERIALIZE" -> {}
       [] t.phase = "OFFICIAL_REPRODUCTION" -> {Materialize(t.item)}
       [] t.phase = "WORLD_HEALTH" -> {Materialize(SourceOf[t.world]), Reproduce(SourceOf[t.world])}
       [] t.phase = "DATA_GENERATE" -> {Health(t.world)}
       [] t.phase = "DATA_VALIDATE" -> {Same("DATA_GENERATE", "-")}
       [] t.phase = "VAR_SCORE" -> {Same("DATA_VALIDATE", "-")}
       [] t.phase = "NEURAL_TRAIN" -> {Same("DATA_VALIDATE", "-"), Reproduce(ModelSource[t.item])}
       [] t.phase = "MODEL_FREEZE_CHECK" -> {Same("NEURAL_TRAIN", t.item), Same("DATA_VALIDATE", "-")}
       [] t.phase = "SCORE_BOOTSTRAP" ->
            {Same("DATA_VALIDATE", "-"), Same("VAR_SCORE", "-"), Same("MODEL_FREEZE_CHECK", t.item)}
       [] t = Aggregate -> {Health(w) : w \in JudgedOf(p)}
                           \cup {Task("SCORE_BOOTSTRAP", c[1], c[2], c[3]) : c \in CandidatesOf(p)}
       [] t = Receipt -> {Aggregate} \cup {Reproduce(x) : x \in SourcesOf(p)}

Unmeasured == [seen |-> 0, unseen |-> 0, slack |-> 0]
QualificationTypeOK ==
  /\ plan \in Plans /\ way \in {"loop", "graph"}
  /\ DOMAIN measured \subseteq Candidates
  /\ \A c \in DOMAIN measured : measured[c] \in Measurements
  /\ noted \subseteq DOMAIN measured /\ inoperable \subseteq DOMAIN measured
  /\ unsound \subseteq Worlds /\ finished \subseteq GraphTasks /\ broken \in BOOLEAN
  /\ judgement.suite \in {"NONE", "PASS", "FAIL"}
  /\ \A d \in judgement.decisions : /\ d.status \in {"PASS", "FAIL", "EXEMPT"}
                                  /\ (d.status = "PASS") <=> (d.model # {})

QualificationInit ==
  /\ plan \in Plans /\ way \in {"loop", "graph"}
  /\ measured = <<>> /\ noted = {} /\ inoperable = {}
  /\ unsound \in {{}} \cup {{w} : w \in Considered}
  /\ finished = {} /\ broken = FALSE /\ judgement = Open
-----------------------------------------------------------------------------
(* run_qualification *)

\* One model after the other, seed by seed and world by world.
Group(w, s) == {<<w, s, m>> : m \in plan.models}
Visited == {<<c[1], c[2]>> : c \in DOMAIN measured}
Left == Candidates \ DOMAIN measured
InTurn == CHOOSE c \in Left : (\E d \in Left : <<d[1], d[2]>> \in Visited) => <<c[1], c[2]>> \in Visited
Extend(new) == measured' = [c \in DOMAIN measured \cup DOMAIN new |->
                              IF c \in DOMAIN new THEN new[c] ELSE measured[c]]
UnchangedByLoop == UNCHANGED <<plan, way, unsound, finished, broken, judgement>>

\* Data or VAR of a world and seed fail: noted once for all its models.
NoteData ==
  /\ way = "loop" /\ Left # {} /\ <<InTurn[1], InTurn[2]>> \notin Visited
  /\ LET group == Group(InTurn[1], InTurn[2])
     IN /\ \E new \in [group -> Measurements] : Extend(new)
        /\ noted' = noted \cup group
  /\ UNCHANGED inoperable /\ UnchangedByLoop
\* A candidate is trained, tried out and compared; an error on the way is noted
\* and whatever it had to compare is lost.
Qualify ==
  /\ way = "loop" /\ Left # {}
  /\ \E r \in Measurements : Extend([d \in {InTurn} |-> r])
  /\ noted' \in {noted, noted \cup {InTurn}}
  /\ inoperable' \in {inoperable, inoperable \cup {InTurn}}
  /\ UnchangedByLoop
\* The gates, when every candidate has been tried.  All worlds are judged, the
\* reference ones too; a model is operable when it is with every seed.
JudgeLoop ==
  /\ way = "loop" /\ judgement = Open /\ Left = {}
  /\ LET compared == DOMAIN measured \ noted
         Operable(w) == {m \in plan.models : \A s \in plan.seeds : <<w, s, m>> \notin inoperable}
     IN judgement' = SuiteDecision({WorldDecision(compared, Operable(w), Worlds \ unsound, w) : w \in Considered})
  /\ UNCHANGED <<plan, way, measured, noted, inoperable, unsound, finished, broken>>
-----------------------------------------------------------------------------
(* The graph *)

Due(t) ==
  /\ way = "graph" /\ ~broken
  /\ t \in GraphTasks \ finished /\ Needs(plan, t) \subseteq finished
Publish(t) == finished' = finished \cup {t}
UnchangedByTask == UNCHANGED <<plan, way, noted, inoperable, unsound, broken>>

\* Sources, data, VAR, training: nothing the gates look at.
RunPlain(t) ==
  /\ t.phase \notin {"WORLD_HEALTH", "SCORE_BOOTSTRAP", "QUALIFICATION_AGGREGATE"}
  /\ Due(t) /\ Publish(t)
  /\ UNCHANGED <<measured, judgement>> /\ UnchangedByTask
\* A world that fails a structural check has no health receipt.
CheckHealth(w) ==
  /\ Due(Health(w)) /\ w \notin unsound /\ Publish(Health(w))
  /\ UNCHANGED <<measured, judgement>> /\ UnchangedByTask
ScoreBootstrap(c) ==
  /\ LET t == Task("SCORE_BOOTSTRAP", c[1], c[2], c[3]) IN Due(t) /\ Publish(t)
  /\ \E r \in Measurements : Extend([d \in {c} |-> r])
  /\ UNCHANGED judgement /\ UnchangedByTask
\* aggregate_qualification_job: a comparison for every candidate; what passed
\* MODEL_FREEZE_CHECK is operable.
AggregateGates ==
  /\ Due(Aggregate) /\ Publish(Aggregate)
  /\ DOMAIN measured = Candidates
  /\ judgement' = SuiteDecision({WorldDecision(DOMAIN measured, plan.models, Worlds, w) : w \in Judged})
  /\ UNCHANGED measured /\ UnchangedByTask
\* An error no retry helps: a source or reproduction that does not verify, an
\* unhealthy world, a model that cannot be intervened on.
TaskFails(t) ==
  /\ Due(t) /\ broken' = TRUE
  /\ UNCHANGED <<plan, way, measured, noted, inoperable, unsound, finished, judgement>>

QualificationNext ==
  \/ NoteData \/ Qualify \/ JudgeLoop
  \/ \E c \in Candidates : ScoreBootstrap(c)
  \/ AggregateGates
  \/ \E w \in Judged : CheckHealth(w)
  \/ \E t \in GraphTasks : RunPlain(t) \/ TaskFails(t)
QualificationSpec == QualificationInit /\ [][QualificationNext]_qualificationVars
-----------------------------------------------------------------------------
(* What qualification promises *)

\* What a model has measured on a world is good enough: on every seed, on
\* balance, on 65 of 100 units, of which there are enough, in the majority of
\* both kinds of regime and within the guardrails.
Earned(w, m) ==
  LET Sum(field) == Total(Candidates, w, m, field)
      Wins(field) == Cardinality({s \in plan.seeds : Value(w, s, m, field) > 0})
  IN /\ Sum("seen") + Sum("unseen") > 0 /\ Sum("slack") >= 0
     /\ 2 * Cardinality(plan.seeds) >= plan.minUnits
     /\ 100 * (Wins("seen") + Wins("unseen")) >= 130 * Cardinality(plan.seeds)
     /\ \A field \in {"seen", "unseen"} : 2 * Wins(field) > Cardinality(plan.seeds)
Whole(w, m) == \A s \in plan.seeds : <<w, s, m>> \notin noted \cup inoperable

\* Both ways judge alike: a world passes when it is sound and some model has
\* earned it on every seed, none of them lost or inoperable on the way.  A
\* failure the loop has noted never helps a world, nor hurts another one.
QualifiedAsMeasured ==
  judgement # Open =>
    \A w \in Targets :
      w \in PassedWorlds(judgement.decisions) <=>
        w \notin unsound /\ \E m \in plan.models : Earned(w, m) /\ Whole(w, m)

\* The model a passing world names is the most skilful of those that earned it.
SelectedIsBest ==
  \A d \in {e \in judgement.decisions : e.status = "PASS"} :
    \A m \in plan.models :
      Earned(d.world, m) /\ Whole(d.world, m) =>
        \A n \in d.model : /\ Earned(d.world, n)
                           /\ Skill(Candidates, d.world, n) >= Skill(Candidates, d.world, m)

\* The suite passes on worlds of enough different families, not on enough
\* worlds: variants of one mechanism count once.  (evaluate_suite_gate)
SuiteNeedsFamilies ==
  judgement # Open =>
    (judgement.suite = "PASS" <=>
       \E kept \in SUBSET PassedWorlds(judgement.decisions) :
         /\ Cardinality(kept) = plan.minFamilies
         /\ \A v, w \in kept : v # w => Family[v] # Family[w])

\* A receipt of the graph is of a whole study: every source reproduced, those
\* no world depends on as well, every world healthy, every candidate compared.
ReceiptIsWhole == Receipt \in finished => ~broken /\ finished = GraphTasks

\* The loop and the graph come to the decisions the measurements earn, world by
\* world, for the suite and in the receipt.  (evaluate_world_gate, run_qualification)
QualificationInv ==
  /\ QualificationTypeOK
  /\ QualifiedAsMeasured /\ SelectedIsBest /\ SuiteNeedsFamilies /\ ReceiptIsWhole
=============================================================================
