\* Two operators, one edit, two probes and two crashes; two shells and two
\* kills for the repair; two drivers and two troubles for the receipt;
\* three seeds, two worlds and two tries of the decision for the gate.
CONSTANTS
  Absent = absent
  Stages <- MCStages
  day = day
  night = night
  Operators <- MCOperators
  MaxEdits = 1
  MaxProbes = 2
  MaxCrashes = 2
  shell1 = shell1
  shell2 = shell2
  Shells <- MCShells
  MaxKills = 2
  Drivers <- MCShells
  MaxTroubles = 2
  NoFile = none
  MaxDocEdits = 1
  MaxStops = 2
  MaxFreezes = 7
  opener = opener
  rival = rival
  Planners <- MCPlanners
  Offers <- MCOffers
  Members <- MCMembers
  FrozenFiles <- MCFrozenFiles
  Restorers <- MCShells
  MaxTouches = 1
  MaxRestoreKills = 1
  MaxUpgrades = 1
  FormalSeeds <- MCFormalSeeds
  RequiredSeeds = 2
  MaxBias = 2
  Outcomes <- MCOutcomes
  WorldLags <- MCWorldLags
  MaxDecisions = 2
SPECIFICATION FairSpec
INVARIANT ReceiptInv
INVARIANT FailureIsEarned
INVARIANT LaunchInv
INVARIANT RunsWhatWasChecked
INVARIANT RecoveryInv
INVARIANT ContractInv
INVARIANT PlanInv
INVARIANT HandoffInv
INVARIANT GateInv
PROPERTY ReceiptReturned
PROPERTY ContractEnds
CHECK_DEADLOCK FALSE
