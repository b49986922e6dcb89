CONSTANTS
  W = 4
  Stages <- TwoFour
  NLens = 2
  ValidNP = {2, 4}
  TooLarge = {{2}}
  Multi = FALSE
  WarmUps = TRUE
  MayTimeOut = FALSE
SPECIFICATION Spec
INVARIANT
  NotInterrupted
