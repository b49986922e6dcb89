CONSTANTS
  N = 5
  Episodes = 3
SPECIFICATION FairSpec
INVARIANTS
  TypeOK
  BarrierSafety
  NothingLeft
PROPERTIES
  ImplementsBarrier
  AllReturn
