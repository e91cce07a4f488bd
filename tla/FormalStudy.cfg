\* Two initializations, the two linear models, one neural family.
CONSTANTS
  Seeds <- MCSeeds
  Families <- MCFamilies
  Guardrails = {}
  Scores <- MCScores
  Skills <- MCSkills
  MinimumSkill = 2
  MinimumPositive = 2
  Lifetime = 1
  LastHour = 1
  MaxLosses = 1
SPECIFICATION FairStudySpec
INVARIANT StudyInv
INVARIANT FailureHasCause
PROPERTY FormalDataStaysSealed
PROPERTY StudiesEnd
CHECK_DEADLOCK FALSE
