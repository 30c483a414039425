SPECIFICATION FairSpec
CONSTANTS
  MaxVersion = 3
INVARIANT
  OwnerSurvivesReloads
CHECK_DEADLOCK FALSE
