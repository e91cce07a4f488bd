----------------------------- MODULE MCStageOne -----------------------------
(* The parts of Stage 1B beside its ledger share one run.  Each behaviour   *)
(* is one of them: importing the pinned sources, making data, of Stage 1B   *)
(* or of Stage 2 and then E02, training one task, with losses of two sizes  *)
(* over four epochs, qualifying the worlds, either one targeted world with  *)
(* two seeds and two models or all worlds with one of each, publishing an   *)
(* artifact, or freezing the qualified suite.                               *)
EXTENDS SourceCache, TrajectoryData, TrainingCheckpoints, Qualification, ArtifactPublication,
        SuiteFreeze, TLC

CONSTANTS early, later, first, second, unqualified, packer, repacker, importer, another,
          one, two, three, shared, reader

VARIABLE part

MCTrainers == {early, later}
MCLosses == 1..2

MCWorlds == {"lorenz", "lorenz_hidden", "kuramoto", "auxiliary", "reference"}
MCFamily == [w \in MCWorlds |-> IF w = "lorenz_hidden" THEN "lorenz" ELSE w]
MCRole == [w \in MCWorlds |-> CASE w = "auxiliary" -> "AUXILIARY"
                                [] w = "reference" -> "REFERENCE_ONLY"
                                [] OTHER -> "PRIMARY"]
MCSourceOf == [w \in MCWorlds |-> "worlds"]
MCModelSource == [m \in {"patchtst", "itransformer"} |-> m]
MCOtherSources == {"unused"}
MCPlans ==
  {[targets |-> {"lorenz"}, seeds |-> {1, 2}, models |-> {"patchtst", "itransformer"},
    minFamilies |-> 1, minUnits |-> 2],
   [targets |-> {}, seeds |-> {1}, models |-> {"patchtst"}, minFamilies |-> 2, minUnits |-> 2]}
MCMeasurements ==
  {[seen |-> 2, unseen |-> 1, slack |-> 1], [seen |-> 1, unseen |-> 1, slack |-> 0],
   [seen |-> 3, unseen |-> -1, slack |-> -1]}

MCAssignments == {<<"stage1b", "stage1b">>, <<"stage2", "e02">>}
Regime(id, role) == [id |-> id, role |-> role]
MCRegimes ==
  {<<Regime("clean", "SEEN"), Regime("windy", "SEEN"), Regime("noisy", "UNSEEN")>>,
   <<Regime("clean", "SEEN")>>}
MCDesignSeeds == [stage1b |-> <<5>>, stage2 |-> <<7>>, e02 |-> <<4, 2>>]
MCDesignCount ==
  [stage1b |-> [TRAIN |-> 2, VALIDATION |-> 1, TEST_SEEN |-> 1, TEST_UNSEEN |-> 1],
   stage2 |-> [TRAIN |-> 2, VALIDATION |-> 1],
   e02 |-> [TEST_SEEN |-> 1, TEST_UNSEEN |-> 1]]
MCPoolSizes == 0..2

MCFreezes == {first, second, unqualified}
MCQualified == {first, second}
MCPins == <<"world", "model">>
MCBuilders == {packer, repacker}
MCImporters == {importer, another}

MCCalls == {one, two, three}
MCContents == {shared}
MCContent == (one :> shared) @@ (two :> shared) @@ (three :> shared)
MCReaders == {reader}
MCWanted == (reader :> shared)

StageOneSymmetry == Permutations(MCTrainers)

allVars == <<dataVars, trainingVars, qualificationVars, freezeVars, cacheVars, publicationVars, part>>

Init ==
  /\ part \in {"sources", "data", "training", "qualification", "publication", "freeze"}
  /\ TrainingInit /\ (part # "training" =>
                        /\ setup = [resume |-> "never", exclusive |-> TRUE, nonfinite |-> 0]
                        /\ \A e \in Epochs : loss[e] = 1)
  /\ DataInit /\ (part # "data" => Len(regimes) = 1 /\ makes[2] = "e02" /\ faulty = {})
  /\ QualificationInit /\ (part # "qualification" => plan.targets = {} /\ way = "loop" /\ unsound = {})
  /\ FreezeInit /\ (part # "freeze" => alone)
  /\ CacheInit /\ (part # "sources" => inTurn /\ archive = NoCapsule)
  /\ PublicationInit

Next ==
  \/ /\ part = "sources" /\ CacheNext
     /\ UNCHANGED <<trainingVars, qualificationVars, publicationVars, freezeVars, dataVars, part>>
  \/ /\ part = "data" /\ DataNext
     /\ UNCHANGED <<cacheVars, trainingVars, qualificationVars, publicationVars, freezeVars, part>>
  \/ /\ part = "training" /\ TrainingNext
     /\ UNCHANGED <<cacheVars, qualificationVars, publicationVars, freezeVars, dataVars, part>>
  \/ /\ part = "qualification" /\ QualificationNext
     /\ UNCHANGED <<cacheVars, trainingVars, publicationVars, freezeVars, dataVars, part>>
  \/ /\ part = "publication" /\ PublicationNext
     /\ UNCHANGED <<cacheVars, trainingVars, qualificationVars, freezeVars, dataVars, part>>
  \/ /\ part = "freeze" /\ FreezeNext
     /\ UNCHANGED <<cacheVars, trainingVars, qualificationVars, publicationVars, dataVars, part>>

Spec == Init /\ [][Next]_allVars
=============================================================================
