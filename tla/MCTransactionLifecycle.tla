----------------------- MODULE MCTransactionLifecycle -----------------------
(* TransactionLifecycle for TLC: the handles are interchangeable. *)
EXTENDS TransactionLifecycle, TLC

TxnSymmetry == Permutations(Txns)
=============================================================================
