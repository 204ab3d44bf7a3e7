SPECIFICATION RecoverySpec
CONSTANTS
  MaxId = 3
  RowTarget = "row"
  MaxOps = 3
  MaxSteps = 1
  InitialRows = 1
  InitialElements = 2
  Methods = {"insertRow", "insertElem", "remove", "update"}
  FailAnywhere = FALSE
  UnsteppedCommits = FALSE
  MixedCascades = FALSE
  MaxLog = 3
PROPERTIES
  RecoveryExact
  MergedCommitsReplay
