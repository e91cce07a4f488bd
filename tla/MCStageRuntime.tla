--------------------------- MODULE MCStageRuntime ---------------------------
(* What an operator does around a run: each behaviour is one of launch and   *)
(* resume, the Stage 2 repair, the Stage 1B receipt, the Stage 0 contract,   *)
(* the binding of a run's plan, the hand-over of E02's server and the gate   *)
(* of E01.                                                                   *)
EXTENDS StageLaunch, DeviceRecovery, QualificationReceipt, ResearchContract, RunPlan, ServerHandoff,
        MechanismGate, SequencesExt

CONSTANTS day, night, shell1, shell2, opener, rival

VARIABLE part

MCStages == {"stage2", "e01", "e02"}
MCOperators == {day, night}
MCShells == {shell1, shell2}

\* Every graph on three tasks, and plans that are malformed; a rival brings the
\* same graph with its nodes in another order, or another graph.
Node(task, deps) == [task |-> task, deps |-> deps]
Three == {"a", "b", "c"}
Digraphs == {<<Node("a", A), Node("b", B), Node("c", C)>> : A, B, C \in SUBSET Three}
Malformed == {<<>>, <<Node("a", {"ghost"})>>, <<Node("a", {}), Node("a", {})>>}
ChainPlan == <<Node("a", {}), Node("b", {"a"}), Node("c", {"b"})>>
MCPlanners == {opener, rival}
MCOffers ==
  [p \in MCPlanners |->
     IF p = opener THEN {[graph |-> "g", plan |-> plan] : plan \in Digraphs \cup Malformed}
     ELSE {[graph |-> "g", plan |-> ChainPlan], [graph |-> "h", plan |-> ChainPlan],
           [graph |-> "g", plan |-> Reverse(ChainPlan)]}]

MCMembers == <<"manifest", "checkpoint">>
MCFrozenFiles == {"manifest"}

MCFormalSeeds == {11, 12, 13}
MCOutcomes == {[passes |-> Judged, deviation |-> 0, lag |-> 2],
               [passes |-> Judged \ {"WRONG_LAG"}, deviation |-> 1, lag |-> 3],
               [passes |-> Judged \ {"identity"}, deviation |-> -3, lag |-> 4]}
MCWorldLags == <<2, 3>>
\* Seeds are interchangeable: what they measure is given in order, and the
\* first of them meets every criterion.
InOrder ==
  /\ outcome[11].passes = Judged
  /\ \A s, r \in FormalSeeds : s < r => outcome[s].lag <= outcome[r].lag

allVars == <<launchVars, recoveryVars, receiptVars, contractVars, planVars, handoffVars, gateVars, part>>

Init ==
  /\ part \in {"launch", "recovery", "receipt", "contract", "plan", "handoff", "gate"}
  /\ LaunchInit /\ (part # "launch" => inTurn /\ stage = CHOOSE s \in Stages : TRUE)
  /\ RecoveryInit /\ (part # "recovery" => apart /\ logged)
  /\ ReceiptInit /\ ContractInit /\ PlanInit /\ HandoffInit
  /\ GateInit /\ IF part = "gate" THEN InOrder
                 ELSE sound /\ outcome = [s \in FormalSeeds |-> CHOOSE o \in Outcomes : TRUE]

Launches == part = "launch" /\ LaunchNext
            /\ UNCHANGED <<recoveryVars, receiptVars, contractVars, planVars, handoffVars, gateVars, part>>
Recovers == part = "recovery" /\ RecoveryNext
            /\ UNCHANGED <<launchVars, receiptVars, contractVars, planVars, handoffVars, gateVars, part>>
ReceiptPart(Act) == part = "receipt" /\ Act
            /\ UNCHANGED <<launchVars, recoveryVars, contractVars, planVars, handoffVars, gateVars, part>>
ContractPart(Act) == part = "contract" /\ Act
            /\ UNCHANGED <<launchVars, recoveryVars, receiptVars, planVars, handoffVars, gateVars, part>>
Binds == part = "plan" /\ PlanNext
            /\ UNCHANGED <<launchVars, recoveryVars, receiptVars, contractVars, handoffVars, gateVars, part>>
HandsOver == part = "handoff" /\ HandoffNext
            /\ UNCHANGED <<launchVars, recoveryVars, receiptVars, contractVars, planVars, gateVars, part>>
Gates == part = "gate" /\ GateNext
            /\ UNCHANGED <<launchVars, recoveryVars, receiptVars, contractVars, planVars, handoffVars, part>>

Next ==
  \/ Launches \/ Recovers \/ ReceiptPart(ReceiptNext) \/ ContractPart(ContractNext)
  \/ Binds \/ HandsOver \/ Gates

Spec == Init /\ [][Next]_allVars

\* One of the drivers goes on or is started again, whichever it is, and the
\* operator of Stage 0 does what its script says next.
FairSpec ==
  /\ Spec
  /\ WF_allVars(ReceiptPart(\E d \in Drivers : DriverMoves(d)))
  /\ WF_allVars(ContractPart(ContractWork))

\* In the behaviours of Stage 0, a freeze that stops anywhere is followed, in the
\* end, by a contract that verifies.  (freeze_contract, its archive and its
\* receipts; the operator of check_stage0.py)
ContractEnds == part = "contract" => ContractSettles
=============================================================================
