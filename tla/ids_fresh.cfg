SPECIFICATION Spec
CONSTANTS
  ElapsedMod = 2
  CounterMod = 3
  MaxClock = 2
  RestoreInPlace = FALSE
INVARIANTS
  TypeOK
  GeneratorDominates
PROPERTIES
  FreshIds
