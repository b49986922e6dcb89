CONSTANTS
  W = 3
  Stages <- TwoThenThree
  NLens = 2
  ValidNP = {2, 3}
  TooLarge = {{}}
  Multi = FALSE
  WarmUps = TRUE
  MayTimeOut = TRUE
SPECIFICATION Spec
INVARIANT
  TimesOfItem
