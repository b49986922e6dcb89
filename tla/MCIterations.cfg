SPECIFICATION FairSpec
CONSTANTS
  NP = 2
  Options <- All
  Times = {0, 1, 3}
  asize = 1
  Second = 4
  MSGSPERSAMPLE = 4
  Garbage = {0, 9}
  IntMax = 1000000
INVARIANTS
  TypeOK
  SameRuns
  Monotonic
  NegativeLeg
  Restrictions
PROPERTIES
  AllMeasured
