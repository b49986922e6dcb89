CONSTANTS
  W = 4
  Stages <- TwoTwoThreeFour
  NLens = 2
  ValidNP = {2, 3}
  TooLarge = {{}, {6}}
  Multi = TRUE
  WarmUps = TRUE
  MayTimeOut = TRUE
SPECIFICATION FairSpec
INVARIANTS
  TypeOK
  Undisturbed
PROPERTIES
  ImplementsSchedule
  AllDone
