SPECIFICATION Spec
CONSTANTS
  MaxId = 3
  InitialItems = 2
  MaxOps = 3
  MaxHookDepth = 3
  Careless = {}
INVARIANTS
  ChangeSetExplainsDocument
  FailureUndoesEverything
  UniqueValues
