CONSTANT
  Options <- OddRuns
SPECIFICATION Spec
INVARIANTS
  GroupsKnown
