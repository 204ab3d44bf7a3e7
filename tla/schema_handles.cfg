SPECIFICATION Spec
CONSTANTS
  Builders = {b1, b2}
  ColumnShapes <- Shapes
  MaxContainers = 2
  MaxColumns = 2
  MaxDefinitions = 5
  MaxRestarts = 1
SYMMETRY BuilderSymmetry
INVARIANTS
  HandlesResolveAtHome
  FrozenSchemasSound
  AcceptedSnapshotsMeanTheSame
CHECK_DEADLOCK FALSE
