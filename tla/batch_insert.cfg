SPECIFICATION Spec
CONSTANTS
  ListSize = 6
  MaxRemovals = 6
INVARIANTS
  TypeOK
  PlanMatchesRetries
PROPERTIES
  OrderedRemovalsUndone
CHECK_DEADLOCK FALSE
