SPECIFICATION Spec
CONSTANTS
  Txns = {t1, t2, t3}
  MaxOps = 2
  LateRollback = FALSE
  RollbackCanThrow = TRUE
SYMMETRY TxnSymmetry
INVARIANTS
  TypeOK
  SingleWriter
  FlagTracksWriter
  UncommittedHasWriter
  HistoryChronological
PROPERTIES
  UndoIsolated
CHECK_DEADLOCK FALSE
