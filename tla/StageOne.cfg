\* One task trained by up to two workers, each of which may be killed; the data of
\* Stage 1B made by two tries at once, or those of Stage 2 and then of E02; worlds
\* qualified by the loop and by the graph, with any failures; three freezes, one
\* of them unqualified, one kill; two builders and two importers of two sources,
\* one killed, one checkout edited by hand; three publications of one content and
\* a reader while power lasts.
CONSTANTS
  early = early
  later = later
  Trainers <- MCTrainers
  MaxEpochs = 4
  Patience = 2
  Every = 1
  LossValues <- MCLosses
  Worlds <- MCWorlds
  Family <- MCFamily
  Role <- MCRole
  SourceOf <- MCSourceOf
  ModelSource <- MCModelSource
  OtherSources <- MCOtherSources
  Plans <- MCPlans
  Measurements <- MCMeasurements
  first = first
  second = second
  unqualified = unqualified
  NoSuite = none
  Freezes <- MCFreezes
  Qualified <- MCQualified
  MaxKills = 1
  packer = packer
  repacker = repacker
  importer = importer
  another = another
  Brought = brought
  NoCapsule = none
  Pins <- MCPins
  Builders <- MCBuilders
  Importers <- MCImporters
  MaxDrifts = 1
  MaxDeaths = 1
  one = one
  two = two
  three = three
  shared = shared
  reader = reader
  None = none
  Calls <- MCCalls
  Contents <- MCContents
  Content <- MCContent
  Readers <- MCReaders
  Wanted <- MCWanted
  PowerFails = FALSE
  Assignments <- MCAssignments
  WorldRegimes <- MCRegimes
  DesignSeeds <- MCDesignSeeds
  DesignCount <- MCDesignCount
  PoolSizes <- MCPoolSizes
  Length = 4
  History = 2
  Horizon = 1
  FoldCount = 2
SPECIFICATION Spec
INVARIANT DataInv
INVARIANT TrainingInv
INVARIANT QualificationInv
INVARIANT FreezeSafe
INVARIANT CacheInv
PROPERTY ImplementsPublished
PROPERTY ReplacedByAuthorization
PROPERTY InterruptedImportRepeats
SYMMETRY StageOneSymmetry
CHECK_DEADLOCK FALSE
