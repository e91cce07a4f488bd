---------------------------- MODULE MechanismGate ----------------------------
(***************************************************************************)
(* E01 v2: the effects of every formal seed are generated, each seed is    *)
(* analysed, and one job counts the reports and decides the gate           *)
(* (e01/v2_jobs.py, e01/v2_metrics.py, e01/v2_carry_forward.py).           *)
(*                                                                         *)
(* Every job reads the configuration anew.  Its thresholds are fixed by    *)
(* the schema; the world - the true lag among it - is not, and no job      *)
(* compares it with the run's: an edit may be put back.                    *)
(*                                                                         *)
(* The final report names the world and the reports and nothing of the     *)
(* try that made it.  A try that is repeated after its report is in the    *)
(* store makes the same bytes, and the store has no room for them          *)
(* (_atomic_link in artifacts/store.py).  The tries of the other jobs are  *)
(* left out: a run in which one of them fails for good decides nothing.    *)
(***************************************************************************)
EXTENDS Integers, FiniteSets, FiniteSetsExt

CONSTANTS
  FormalSeeds,    \* the frozen TEST seeds
  RequiredSeeds,  \* how many of them each criterion needs
  MaxBias,        \* largest admissible sum of the estimates' deviations from one
  Outcomes,       \* what a seed may measure: [passes, deviation, lag]
  WorldLags,      \* true lag of each version of the world
  MaxDecisions    \* attempts of the deciding task

\* Judged by the analysis; the lag is judged again by the deciding job.
Judged == {"coverage", "mcse_ratio", "interval_precision", "identity",
           "WRONG_SCM", "WRONG_LAG", "RANDOM_CONCEPT"}
WorldVersions == DOMAIN WorldLags

ASSUME RequiredAssumption == IsFiniteSet(FormalSeeds) /\ RequiredSeeds \in 0..Cardinality(FormalSeeds)
ASSUME OutcomesAssumption == Outcomes \subseteq [passes : SUBSET Judged, deviation : Int, lag : Int]
ASSUME WorldAssumption == WorldVersions \subseteq Nat \ {0} /\ 1 \in WorldVersions
ASSUME DecisionsAssumption == MaxDecisions \in Nat

NoOutcome == [passes |-> {}, deviation |-> 0, lag |-> 0]

VARIABLES
  outcome,    \* outcome[s]: what the effects of s measure in the world they come from
  world,      \* version of the configured world
  sound,      \* the record of E01 v1 still proves that E01-B passed
  effects,    \* effects[s]: world version the effect block of s was generated in, or 0
  report,     \* report[s]: [by, measured] of the seed report, by 0 while there is none
  verdicts,   \* final reports in the store: [status, world]
  decision,   \* the deciding task: "WAITING", "COMPLETED", or how its last try ended:
              \* "REFUSED" for the record's sake, else "FAILED"
  decisions,  \* its attempts
  losses,     \* history: how many of them were lost
  strays      \* worlds of tries that were taken for lost and go on

gateVars == <<outcome, world, sound, effects, report, verdicts, decision, decisions, losses, strays>>
jobs == <<outcome, effects, report>>
decided == <<verdicts, decision, decisions, losses, strays>>

NoReport == [by |-> 0, measured |-> NoOutcome]

GateTypeOK ==
  /\ outcome \in [FormalSeeds -> Outcomes] /\ world \in WorldVersions /\ sound \in BOOLEAN
  /\ effects \in [FormalSeeds -> WorldVersions \cup {0}]
  /\ \A s \in FormalSeeds :
       /\ report[s].by \in WorldVersions \cup {0}
       /\ report[s].measured.passes \subseteq Judged
  /\ verdicts \subseteq [status : {"PASS", "FAIL"}, world : WorldVersions]
  /\ decision \in {"WAITING", "COMPLETED", "FAILED", "REFUSED"} /\ decisions \in 0..MaxDecisions
  /\ losses \in 0..decisions /\ strays \subseteq WorldVersions

GateInit ==
  /\ outcome \in [FormalSeeds -> Outcomes] /\ world = 1 /\ sound \in BOOLEAN
  /\ effects = [s \in FormalSeeds |-> 0] /\ report = [s \in FormalSeeds |-> NoReport]
  /\ verdicts = {} /\ decision = "WAITING" /\ decisions = 0
  /\ losses = 0 /\ strays = {}

-----------------------------------------------------------------------------
(* The jobs *)

\* generate_e01a_v2_job.
GenerateEffects(s) ==
  /\ effects[s] = 0
  /\ effects' = [effects EXCEPT ![s] = world]
  /\ UNCHANGED <<outcome, world, sound, report, decided>>

\* analyze_e01a_v2_job: against the truth of the configured world.  If the
\* effects come from another one they may meet anything or nothing; the lag is
\* theirs.
AnalyzeSeed(s) ==
  /\ effects[s] # 0 /\ report[s].by = 0
  /\ \E passes \in IF effects[s] = world THEN {outcome[s].passes} ELSE {Judged, {}} :
       report' = [report EXCEPT ![s] = [by |-> world,
                                        measured |-> [outcome[s] EXCEPT !.passes = passes]]]
  /\ UNCHANGED <<outcome, world, sound, effects, decided>>

Reported == {s \in FormalSeeds : report[s].by # 0}

LagRecovered(s, v) == report[s].measured.lag - WorldLags[v] \in -1..1

\* The seed gate of analyze_e01a_seed.
SeedPasses(s) ==
  /\ Judged \subseteq report[s].measured.passes
  /\ LagRecovered(s, report[s].by)

Enough(S) == Cardinality(S) >= RequiredSeeds

\* Mutant: the gate asks whether any control separates, not all of them.
CountsAnyControl ==
  /\ \A c \in {"coverage", "mcse_ratio", "interval_precision", "identity"} :
       Enough({s \in FormalSeeds : c \in report[s].measured.passes})
  /\ \E c \in {"WRONG_SCM", "WRONG_LAG", "RANDOM_CONCEPT"} :
       Enough({s \in FormalSeeds : c \in report[s].measured.passes})

\* Each criterion is counted over the seeds by itself.
CountsSuffice == \A c \in Judged : Enough({s \in FormalSeeds : c \in report[s].measured.passes})

Bias == LET sum == MapThenSumSet(LAMBDA s : report[s].measured.deviation, FormalSeeds)
        IN IF sum < 0 THEN -sum ELSE sum

\* evaluate_e01_v2_gate, in world v.
StatusIn(v) ==
  IF CountsSuffice /\ Enough({s \in FormalSeeds : LagRecovered(s, v)}) /\ Bias <= MaxBias
    THEN "PASS" ELSE "FAIL"
Verdict(v) == [status |-> StatusIn(v), world |-> v]

\* aggregate_e01_v2_job, over the reports of every formal seed.  The record of
\* E01 v1 is verified here and not only before the launch.
Tries == decision = "WAITING" /\ decisions < MaxDecisions /\ Reported = FormalSeeds /\ decisions' = decisions + 1
AnotherTry == IF decisions + 1 < MaxDecisions THEN "WAITING" ELSE "FAILED"

Decide01 ==
  /\ Tries /\ sound /\ Verdict(world) \notin verdicts
  /\ verdicts' = verdicts \cup {Verdict(world)} /\ decision' = "COMPLETED"
  /\ UNCHANGED <<jobs, world, sound, losses, strays>>

\* The same report is there: FileExistsError, which is an OSError and repeated.
DecideInVain ==
  /\ Tries /\ sound /\ Verdict(world) \in verdicts /\ decision' = AnotherTry
  /\ UNCHANGED <<jobs, world, sound, verdicts, losses, strays>>

\* CarryForwardVerificationError is not.
RefuseRecord ==
  /\ Tries /\ ~sound /\ decision' = "REFUSED"
  /\ UNCHANGED <<jobs, world, sound, verdicts, losses, strays>>

\* The worker dies or its disk fails it, before or after the report is there,
\* or a resume takes it for lost and it goes on.
LoseDecision ==
  /\ Tries /\ decision' = AnotherTry /\ losses' = losses + 1
  /\ \/ UNCHANGED <<verdicts, strays>>
     \/ sound /\ verdicts' = verdicts \cup {Verdict(world)} /\ UNCHANGED strays
     \/ strays' = strays \cup {world} /\ UNCHANGED verdicts
  /\ UNCHANGED <<jobs, world, sound>>

\* Its row is another's by now; what it publishes stays.
DecideLate(v) ==
  /\ v \in strays /\ strays' = strays \ {v}
  /\ verdicts' = verdicts \cup IF sound THEN {Verdict(v)} ELSE {}
  /\ UNCHANGED <<jobs, world, sound, decision, decisions, losses>>

\* The world is edited while the run goes on, and perhaps put back.
EditWorld ==
  /\ world' \in WorldVersions \ {world}
  /\ UNCHANGED <<jobs, sound, decided>>

\* The record is damaged or put back.
DriftRecord ==
  /\ sound' = ~sound
  /\ UNCHANGED <<jobs, world, decided>>

GateNext ==
  \/ \E s \in FormalSeeds : GenerateEffects(s) \/ AnalyzeSeed(s)
  \/ Decide01 \/ DecideInVain \/ RefuseRecord \/ LoseDecision
  \/ \E v \in WorldVersions : DecideLate(v)
  \/ EditWorld \/ DriftRecord

GateSpec == GateInit /\ [][GateNext]_gateVars
-----------------------------------------------------------------------------
Passed(v) == [status |-> "PASS", world |-> v] \in verdicts
Decided(v) == \E status \in {"PASS", "FAIL"} : [status |-> status, world |-> v] \in verdicts

\* A gate that passes in a world, whenever and after however many tries, has
\* every formal seed behind it: apart from seeds whose effects and analysis are
\* of different worlds no criterion - the lag, judged again in that world, among
\* them - failed on more seeds than the design gives away, and any two hold
\* together on as many seeds as the two margins leave.  (evaluate_e01_v2_gate)
Mixed == {s \in FormalSeeds : effects[s] # report[s].by}
Meets(v, s) == outcome[s].passes \cup IF outcome[s].lag - WorldLags[v] \in -1..1 THEN {"lag"} ELSE {}
PassedByMargins ==
  \A v \in WorldVersions : Passed(v) =>
    \A c, d \in Judged \cup {"lag"} :
      Cardinality(Mixed \cup {s \in FormalSeeds : {c, d} \subseteq Meets(v, s)})
        >= IF c = d THEN RequiredSeeds ELSE 2 * RequiredSeeds - Cardinality(FormalSeeds)

\* Where the seeds' own gates in a world suffice and the mean is unbiased, so
\* does the whole in that world.
SeedGatesCarry ==
  \A v \in WorldVersions :
    Decided(v) /\ Bias <= MaxBias /\ Enough({s \in FormalSeeds : SeedPasses(s) /\ report[s].by = v}) => Passed(v)

\* However often the world is edited and put back and the deciding task is lost
\* and run again: there is one verdict of a world; a run that lost no try has a
\* verdict exactly when it completed; and a run that the record did not stop
\* fails because every try was lost, or with the verdict of a lost try in the
\* store.
OneVerdict ==
  /\ \A v \in WorldVersions : Cardinality({w \in verdicts : w.world = v}) <= 1
  /\ decision = "COMPLETED" => verdicts # {}
  /\ losses = 0 => (verdicts # {} <=> decision = "COMPLETED")
  /\ decision = "FAILED" => verdicts # {} \/ losses = MaxDecisions

GateInv == GateTypeOK /\ PassedByMargins /\ SeedGatesCarry /\ OneVerdict
=============================================================================
