CONSTANTS
  Proc = {1, 2, 3}
  Thread = {0, 1}
  Episodes = 2
SPECIFICATION FairSpec
INVARIANTS
  TypeOK
  StartTogether
PROPERTIES
  ImplementsBarrier
  AllReturn
