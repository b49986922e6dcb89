CONSTANT
  Options <- SoundRuns
SPECIFICATION Spec
INVARIANTS
  TypeOK
  GroupsKnown
  NothingLeft
  GroupsFull
  RowsOfGroups
