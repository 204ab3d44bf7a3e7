SPECIFICATION Spec
CONSTANTS
  MaxId = 5
  RowTarget = "row"
  MaxOps = 1
  MaxSteps = 2
  InitialRows = 2
  InitialElements = 2
  Methods = {"insertRow", "insertElem", "remove", "removeAt", "update", "rotate"}
  FailAnywhere = FALSE
  UnsteppedCommits = FALSE
  MixedCascades = FALSE
INVARIANTS
  TypeOK
  ListsConsistent
  ParentsSound
PROPERTIES
  HistorySpec
