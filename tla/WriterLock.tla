----------------------------- MODULE WriterLock -----------------------------
(***************************************************************************)
(* What DocumentEngine::beginTransaction promises of write access          *)
(* (include/dini/engine.h: "No other write transaction may be active";     *)
(* "A Transaction object controls all writes until commit or rollback"):   *)
(* a transaction becomes the writer only while there is none, and keeps    *)
(* the document to itself until it gives it up.                            *)
(***************************************************************************)
CONSTANT Txns       \* the transaction handles

VARIABLE writers    \* the handles that hold write access

LockTypeOK == writers \subseteq Txns

LockInit == writers = {}

Acquire(t) == writers = {} /\ writers' = {t}

Release(t) == writers = {t} /\ writers' = {}

LockNext == \E t \in Txns : Acquire(t) \/ Release(t)

LockSpec == LockInit /\ [][LockNext]_writers

=============================================================================
