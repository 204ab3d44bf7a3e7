SPECIFICATION Spec
CONSTANTS
  MaxId = 5
  RowTarget = "elem"
  MaxOps = 3
  MaxSteps = 1
  InitialRows = 1
  InitialElements = 2
  Methods = {"insertRow", "insertElem", "remove", "update"}
  FailAnywhere = FALSE
  UnsteppedCommits = FALSE
  MixedCascades = FALSE
INVARIANTS
  ListsConsistent
  ParentsSound
PROPERTIES
  HistorySpec
