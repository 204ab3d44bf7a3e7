SPECIFICATION FairSpec
CONSTANTS
  Txns = {t1, t2}
  MaxOps = 2
  LateRollback = FALSE
  RollbackCanThrow = FALSE
PROPERTIES
  WriterReleased
  WriterLockSpec
CHECK_DEADLOCK FALSE
