CONSTANT
  Options <- MultiMappedRuns
SPECIFICATION Spec
INVARIANTS
  RowsOfGroups
