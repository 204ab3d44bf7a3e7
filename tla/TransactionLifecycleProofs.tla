--------------------- MODULE TransactionLifecycleProofs ---------------------
(***************************************************************************)
(* Proofs about TransactionLifecycle, for any set of handles and any       *)
(* bound on the change sets.                                               *)
(***************************************************************************)
EXTENDS TransactionLifecycle, SequenceTheorems, TLAPS

(* Popping a nonempty stack leaves a stack and yields one of its members. *)
LEMMA PopStack ==
  ASSUME NEW S, NEW s \in Seq(S), s # <<>>
  PROVE  /\ Len(s) \in Nat \ {0}
         /\ Last(s) \in S
         /\ Front(s) \in Seq(S)
         /\ Len(Front(s)) = Len(s) - 1
         /\ \A i \in 1..(Len(s) - 1) : Front(s)[i] = s[i]
<1>1. Len(s) \in Nat \ {0}
  BY EmptySeq
<1>2. \A i \in 1..(Len(s) - 1) : s[i] \in S
  BY <1>1, ElementOfSeq
<1>3. /\ Front(s) \in Seq(S)
      /\ Len(Front(s)) = Len(s) - 1
      /\ \A i \in 1..(Len(s) - 1) : Front(s)[i] = s[i]
  <2> DEFINE n == Len(s) - 1
  <2>1. n \in Nat
    BY <1>1
  <2>2. \A i \in 1..n : s[i] \in S
    BY <1>2
  <2> HIDE DEF n
  <2>3. /\ SubSeq(s, 1, n) \in Seq(S)
        /\ Len(SubSeq(s, 1, n)) = n
        /\ \A i \in 1..n : SubSeq(s, 1, n)[i] = s[i]
    BY <2>1, <2>2, SMT
  <2> QED
    BY <2>3 DEF Front, n
<1>4. Last(s) \in S
  BY <1>1, ElementOfSeq DEF Last
<1> QED
  BY <1>1, <1>3, <1>4

LEMMA InitTypeOK == Init => TypeOK
<1> SUFFICES ASSUME Init
             PROVE  TypeOK
  OBVIOUS
<1>1. changeSet \in [Txns -> Seq(OperationKinds)]
  BY EmptySeq DEF Init
<1>2. undoStack \in Seq(Txns) /\ redoStack \in Seq(Txns)
  BY EmptySeq DEF Init
<1>3. HoldsUndoSteps(undoStack) /\ HoldsUndoSteps(redoStack)
  BY DEF Init, HoldsUndoSteps
<1> QED
  BY <1>1, <1>2, <1>3 DEF Init, TypeOK, TransactionStates

(* What a write method appends is a sequence of operations. *)
LEMMA ChangesAreOperations ==
  ASSUME NEW changes \in OperationChanges
  PROVE  changes \in Seq(OperationKinds)
<1>1. /\ "ItemInserted" \in OperationKinds
      /\ "ComputedColumnUpdated" \in OperationKinds
      /\ "Edit" \in OperationKinds
  BY DEF OperationKinds
<1> HIDE DEF OperationKinds
<1>2. <<"ItemInserted">> \in Seq(OperationKinds)
  BY <1>1
<1>3. <<"Edit">> \in Seq(OperationKinds)
  BY <1>1
<1>4. <<"ItemInserted", "ComputedColumnUpdated">> \in Seq(OperationKinds)
  BY <1>1
<1> QED
  BY <1>2, <1>3, <1>4 DEF OperationChanges

(* A committed handle is not written, finished or begun again: it stays    *)
(* the undo step it is.                                                    *)
LEMMA UndoStepKept ==
  ASSUME TypeOK, [Next]_vars, NEW u \in Txns, UndoStep(u)
  PROVE  UndoStep(u)'
<1>1. state[u] = "Committed" /\ undoable[u] /\ CreatesUndoStep(changeSet[u])
  BY DEF UndoStep
<1>2. state'[u] = state[u] /\ undoable'[u] = undoable[u] /\ changeSet'[u] = changeSet[u]
  BY <1>1 DEF Next, vars, handleVars, historyVars, TypeOK, Begin, Write, Fail, Commit,
       RollbackActive, RollbackFailed, RollbackThrows, DestroyThrows, Undo, Redo,
       ClearUndoHistory
<1> QED
  BY <1>1, <1>2 DEF UndoStep

(* What is on the stacks after a step was on one of them before, or has    *)
(* just been committed as an undo step.                                    *)
LEMMA NextHoldsUndoSteps ==
  ASSUME TypeOK, [Next]_vars
  PROVE  HoldsUndoSteps(undoStack)' /\ HoldsUndoSteps(redoStack)'
<1> DEFINE Good == {u \in Txns : UndoStep(u)'}
<1>1. undoStack \in Seq(Txns) /\ redoStack \in Seq(Txns)
  BY DEF TypeOK
<1>2. /\ \A i \in DOMAIN undoStack : undoStack[i] \in Good
      /\ \A i \in DOMAIN redoStack : redoStack[i] \in Good
  <2>1. \A u \in Txns : UndoStep(u) => u \in Good
    BY UndoStepKept
  <2>2. /\ \A i \in DOMAIN undoStack : undoStack[i] \in Txns
        /\ \A i \in DOMAIN redoStack : redoStack[i] \in Txns
    BY <1>1
  <2>3. /\ \A i \in DOMAIN undoStack : UndoStep(undoStack[i])
        /\ \A i \in DOMAIN redoStack : UndoStep(redoStack[i])
    BY DEF TypeOK, HoldsUndoSteps
  <2> QED
    BY <2>1, <2>2, <2>3
<1>3. ASSUME NEW t \in Txns, Commit(t), undoable[t], CreatesUndoStep(changeSet[t])
      PROVE  t \in Good
  <2>1. state'[t] = "Committed" /\ undoable' = undoable /\ changeSet' = changeSet
    BY <1>3 DEF Commit, TypeOK
  <2> QED
    BY <1>3, <2>1 DEF UndoStep
<1> HIDE DEF Good
<1>4. ASSUME NEW s \in Seq(Txns), \A i \in DOMAIN s : s[i] \in Good, NEW t \in Good
      PROVE  \A i \in DOMAIN Append(s, t) : Append(s, t)[i] \in Good
  BY <1>4
<1>5. ASSUME NEW s \in Seq(Txns), \A i \in DOMAIN s : s[i] \in Good, s # <<>>
      PROVE  Last(s) \in Good /\ \A i \in DOMAIN Front(s) : Front(s)[i] \in Good
  <2>1. /\ Len(s) \in Nat \ {0}
        /\ Front(s) \in Seq(Txns)
        /\ Len(Front(s)) = Len(s) - 1
        /\ \A i \in 1..(Len(s) - 1) : Front(s)[i] = s[i]
    BY <1>5, PopStack
  <2> QED
    BY <1>5, <2>1 DEF Last
<1>6. /\ \A i \in DOMAIN undoStack' : undoStack'[i] \in Good
      /\ \A i \in DOMAIN redoStack' : redoStack'[i] \in Good
  <2>1. ASSUME NEW t \in Txns, Commit(t)
        PROVE  /\ \A i \in DOMAIN undoStack' : undoStack'[i] \in Good
               /\ \A i \in DOMAIN redoStack' : redoStack'[i] \in Good
    <3>1. CASE undoable[t] /\ CreatesUndoStep(changeSet[t])
      <4>1. undoStack' = Append(undoStack, t) /\ redoStack' = <<>>
        BY <2>1, <3>1 DEF Commit
      <4>2. t \in Good
        BY <1>3, <2>1, <3>1
      <4> QED
        BY <1>1, <1>2, <1>4, <4>1, <4>2
    <3>2. CASE ~(undoable[t] /\ CreatesUndoStep(changeSet[t]))
      BY <1>2, <2>1, <3>2 DEF Commit
    <3> QED
      BY <3>1, <3>2
  <2>2. CASE Undo
    BY <1>1, <1>2, <1>4, <1>5, <2>2 DEF Undo
  <2>3. CASE Redo
    BY <1>1, <1>2, <1>4, <1>5, <2>3 DEF Redo
  <2>4. CASE ClearUndoHistory
    BY <2>4 DEF ClearUndoHistory
  <2>5. CASE undoStack' = undoStack /\ redoStack' = redoStack
    BY <1>2, <2>5
  <2> QED
    BY <2>1, <2>2, <2>3, <2>4, <2>5 DEF Next, vars, handleVars, historyVars, Begin,
       Write, Fail, RollbackActive, RollbackFailed, RollbackThrows, DestroyThrows
<1> QED
  BY <1>6 DEF HoldsUndoSteps, Good

LEMMA NextTypeOK == TypeOK /\ [Next]_vars => TypeOK'
<1> SUFFICES ASSUME TypeOK, [Next]_vars
             PROVE  TypeOK'
  OBVIOUS
<1>0. HoldsUndoSteps(undoStack)' /\ HoldsUndoSteps(redoStack)'
  BY NextHoldsUndoSteps
<1> USE DEF TypeOK, TransactionStates
<1>1. ASSUME NEW t \in Txns, NEW isUndoable \in BOOLEAN, Begin(t, isUndoable)
      PROVE  TypeOK'
  BY <1>0, <1>1 DEF Begin, historyVars
<1>2. ASSUME NEW t \in Txns, NEW changes \in OperationChanges, Write(t, changes)
      PROVE  TypeOK'
  <2>1. changes \in Seq(OperationKinds)
    BY ChangesAreOperations
  <2>2. changeSet[t] \o changes \in Seq(OperationKinds)
    <3> DEFINE K == Seq(OperationKinds)
    <3>1. changeSet[t] \in K
      OBVIOUS
    <3> QED
      BY <2>1, <3>1, ConcatProperties
  <2> QED
    BY <1>0, <1>2, <2>2 DEF Write, historyVars
<1>3. ASSUME NEW t \in Txns, Fail(t)
      PROVE  TypeOK'
  BY <1>0, <1>3 DEF Fail, historyVars
<1>4. ASSUME NEW t \in Txns, Commit(t)
      PROVE  TypeOK'
  <2>1. undoStack' \in Seq(Txns) /\ redoStack' \in Seq(Txns)
    <3>1. Append(undoStack, t) \in Seq(Txns) /\ <<>> \in Seq(Txns)
      BY AppendProperties, EmptySeq
    <3>2. undoStack \in Seq(Txns) /\ redoStack \in Seq(Txns)
      OBVIOUS
    <3> HIDE DEF TypeOK
    <3> QED
      BY <1>4, <3>1, <3>2, Zenon DEF Commit
  <2>2. commits' \in Nat /\ commitTime' \in [Txns -> Nat]
    BY <1>4 DEF Commit
  <2>3. /\ activeTransaction' \in BOOLEAN
        /\ state' \in [Txns -> TransactionStates]
        /\ inDoc' \subseteq Txns
    BY <1>4 DEF Commit
  <2> QED
    BY <1>0, <1>4, <2>1, <2>2, <2>3 DEF Commit
<1>5. ASSUME NEW t \in Txns, RollbackActive(t)
      PROVE  TypeOK'
  BY <1>0, <1>5 DEF RollbackActive, historyVars
<1>6. ASSUME NEW t \in Txns, RollbackFailed(t)
      PROVE  TypeOK'
  BY <1>0, <1>6 DEF RollbackFailed, historyVars
<1>7. ASSUME NEW t \in Txns, RollbackThrows(t)
      PROVE  TypeOK'
  BY <1>0, <1>7 DEF RollbackThrows, handleVars, historyVars
<1>8. ASSUME NEW t \in Txns, DestroyThrows(t)
      PROVE  TypeOK'
  BY <1>0, <1>8 DEF DestroyThrows, historyVars
<1>9. CASE Undo
  <2>1. /\ Front(undoStack) \in Seq(Txns)
        /\ Last(undoStack) \in Txns
    BY <1>9, PopStack DEF Undo
  <2>2. undoStack' \in Seq(Txns) /\ redoStack' \in Seq(Txns)
    BY <1>9, <2>1 DEF Undo
  <2> QED
    BY <1>0, <1>9, <2>2 DEF Undo, handleVars
<1>10. CASE Redo
  <2>1. /\ Front(redoStack) \in Seq(Txns)
        /\ Last(redoStack) \in Txns
    BY <1>10, PopStack DEF Redo
  <2>2. undoStack' \in Seq(Txns) /\ redoStack' \in Seq(Txns)
    BY <1>10, <2>1 DEF Redo
  <2> QED
    BY <1>0, <1>10, <2>2 DEF Redo, handleVars
<1>11. CASE ClearUndoHistory
  BY <1>0, <1>11 DEF ClearUndoHistory, handleVars
<1>12. CASE UNCHANGED vars
  BY <1>0, <1>12 DEF vars, handleVars, historyVars
<1> QED
  BY <1>1, <1>2, <1>3, <1>4, <1>5, <1>6, <1>7, <1>8, <1>9, <1>10, <1>11, <1>12
     DEF Next

(* Every variable keeps its type, for every set of handles: in particular  *)
(* what undo and redo find is always the change set of a transaction that  *)
(* committed and was to be undoable.                                       *)
THEOREM TypeCorrect == Spec => []TypeOK
BY InitTypeOK, NextTypeOK, PTL DEF Spec

-----------------------------------------------------------------------------
(* Write access, under the discipline that a failed handle is not rolled   *)
(* back while another transaction is active.                               *)

LEMMA InitWriterInv == Init => WriterInv
BY DEF Init, WriterInv, Writers, FlagTracksWriter, UncommittedHasWriter

(* A step that takes no handle in or out of the writers, keeps the flag,   *)
(* and adds no change of a handle that does not write, keeps the invariant.*)
LEMMA WritersUnchanged ==
  ASSUME WriterInv, Writers' = Writers, activeTransaction' = activeTransaction,
         inDoc' \subseteq {t \in Txns : state'[t] = "Active"},
         \A t \in Txns : rollbackApplied'[t] => state'[t] \in {"Failed", "RolledBack"}
  PROVE  WriterInv'
BY DEF WriterInv, FlagTracksWriter, UncommittedHasWriter

(* So does the step of a writer that gives up the flag and its changes.    *)
LEMMA WriterReleases ==
  ASSUME WriterInv, NEW t \in Txns, t \in Writers,
         Writers' = Writers \ {t}, ~activeTransaction', inDoc' = inDoc \ {t},
         \A u \in Txns : rollbackApplied'[u] => state'[u] \in {"Failed", "RolledBack"}
  PROVE  WriterInv' /\ Writers = {t} /\ Writers' = {}
<1>1. Writers = {t} /\ Writers' = {}
  BY DEF WriterInv
<1>2. inDoc' = {}
  BY <1>1 DEF WriterInv, UncommittedHasWriter, Writers
<1> QED
  BY <1>1, <1>2 DEF WriterInv, FlagTracksWriter, UncommittedHasWriter

(* Every step keeps the invariant, and takes or gives up write access only *)
(* the way WriterLock does.                                                *)
LEMMA NextWriterInv ==
  ASSUME ~LateRollback, TypeOK, WriterInv, [Next]_vars
  PROVE  WriterInv' /\ [Lock!LockNext]_Writers
<1> DEFINE Kept == Writers' = Writers
<1>0. \A t \in Txns : rollbackApplied[t] => state[t] \in {"Failed", "RolledBack"}
  BY DEF WriterInv
<1>1. ASSUME NEW t \in Txns, NEW isUndoable \in BOOLEAN, Begin(t, isUndoable)
      PROVE  WriterInv' /\ [Lock!LockNext]_Writers
  <2>1. Writers = {} /\ Writers' = {t}
    BY <1>1 DEF Begin, TypeOK, Writers, WriterInv, FlagTracksWriter
  <2>2. inDoc' = {}
    BY <1>1, <2>1 DEF Begin, Writers, WriterInv, UncommittedHasWriter
  <2>3. \A u \in Txns : rollbackApplied'[u] => state'[u] \in {"Failed", "RolledBack"}
    BY <1>0, <1>1 DEF Begin, TypeOK
  <2>4. WriterInv'
    BY <1>1, <2>1, <2>2, <2>3
       DEF Begin, WriterInv, FlagTracksWriter, UncommittedHasWriter
  <2> QED
    BY <2>1, <2>4 DEF Lock!LockNext, Lock!Acquire
<1>2. ASSUME NEW t \in Txns, NEW changes \in OperationChanges, Write(t, changes)
      PROVE  WriterInv' /\ Kept
  <2>1. Kept
    BY <1>2 DEF Write, Writers
  <2>2. inDoc' \subseteq {u \in Txns : state'[u] = "Active"}
    BY <1>2 DEF Write, WriterInv, UncommittedHasWriter
  <2> QED
    BY <1>0, <1>2, <2>1, <2>2, WritersUnchanged DEF Write
<1>3. ASSUME NEW t \in Txns, Fail(t)
      PROVE  WriterInv' /\ [Lock!LockNext]_Writers
  <2>1. t \in Writers /\ ~rollbackApplied[t]
    BY <1>0, <1>3 DEF Fail, Writers
  <2>2. Writers' = Writers \ {t}
    BY <1>3 DEF Fail, TypeOK, Writers
  <2>3. \A u \in Txns : rollbackApplied'[u] => state'[u] \in {"Failed", "RolledBack"}
    BY <1>0, <1>3 DEF Fail, TypeOK
  <2>4. ~activeTransaction' /\ inDoc' = inDoc \ {t}
    BY <1>3, <2>1 DEF Fail
  <2> QED
    BY <2>1, <2>2, <2>3, <2>4, WriterReleases DEF Lock!LockNext, Lock!Release
<1>4. ASSUME NEW t \in Txns, Commit(t)
      PROVE  WriterInv' /\ [Lock!LockNext]_Writers
  <2>1. t \in Writers /\ Writers' = Writers \ {t}
    BY <1>4 DEF Commit, TypeOK, Writers
  <2>2. \A u \in Txns : rollbackApplied'[u] => state'[u] \in {"Failed", "RolledBack"}
    BY <1>0, <1>4 DEF Commit, TypeOK
  <2>3. ~activeTransaction' /\ inDoc' = inDoc \ {t}
    BY <1>4 DEF Commit
  <2> QED
    BY <2>1, <2>2, <2>3, WriterReleases DEF Lock!LockNext, Lock!Release
<1>5. ASSUME NEW t \in Txns, RollbackActive(t)
      PROVE  WriterInv' /\ [Lock!LockNext]_Writers
  <2>1. t \in Writers /\ Writers' = Writers \ {t}
    BY <1>5 DEF RollbackActive, TypeOK, Writers
  <2>2. \A u \in Txns : rollbackApplied'[u] => state'[u] \in {"Failed", "RolledBack"}
    BY <1>0, <1>5 DEF RollbackActive, TypeOK
  <2>3. ~activeTransaction' /\ inDoc' = inDoc \ {t}
    BY <1>5 DEF RollbackActive
  <2> QED
    BY <2>1, <2>2, <2>3, WriterReleases DEF Lock!LockNext, Lock!Release
<1>6. ASSUME NEW t \in Txns, RollbackFailed(t)
      PROVE  WriterInv' /\ Kept
  <2>1. Kept
    BY <1>6 DEF RollbackFailed, TypeOK, Writers
  <2>2. activeTransaction' = activeTransaction
    BY <1>6 DEF RollbackFailed, TypeOK
  <2>3. inDoc' \subseteq {u \in Txns : state'[u] = "Active"}
    BY <1>6 DEF RollbackFailed, TypeOK, WriterInv, UncommittedHasWriter
  <2>4. \A u \in Txns : rollbackApplied'[u] => state'[u] \in {"Failed", "RolledBack"}
    BY <1>0, <1>6 DEF RollbackFailed, TypeOK
  <2> QED
    BY <2>1, <2>2, <2>3, <2>4, WritersUnchanged
<1>7. ASSUME NEW t \in Txns, RollbackThrows(t)
      PROVE  WriterInv' /\ Kept
  <2>1. Kept /\ UNCHANGED <<activeTransaction, state, rollbackApplied>>
    BY <1>7 DEF RollbackThrows, handleVars, Writers
  <2>2. inDoc' \subseteq {u \in Txns : state'[u] = "Active"}
    BY <1>7, <2>1 DEF RollbackThrows, WriterInv, UncommittedHasWriter
  <2> QED
    BY <1>0, <2>1, <2>2, WritersUnchanged
<1>8. ASSUME NEW t \in Txns, DestroyThrows(t)
      PROVE  WriterInv' /\ Kept
  <2>1. Kept
    BY <1>8 DEF DestroyThrows, TypeOK, Writers
  <2>2. inDoc' \subseteq {u \in Txns : state'[u] = "Active"}
    BY <1>8 DEF DestroyThrows, TypeOK, WriterInv, UncommittedHasWriter
  <2>3. \A u \in Txns : rollbackApplied'[u] => state'[u] \in {"Failed", "RolledBack"}
    BY <1>0, <1>8 DEF DestroyThrows, TypeOK
  <2> QED
    BY <1>8, <2>1, <2>2, <2>3, WritersUnchanged DEF DestroyThrows
<1>9. CASE UNCHANGED <<activeTransaction, handleVars, inDoc>>
  <2>1. Kept /\ UNCHANGED <<activeTransaction, state, rollbackApplied, inDoc>>
    BY <1>9 DEF handleVars, Writers
  <2>2. inDoc' \subseteq {u \in Txns : state'[u] = "Active"}
    BY <2>1 DEF WriterInv, UncommittedHasWriter
  <2> QED
    BY <1>0, <2>1, <2>2, WritersUnchanged
<1>10. Undo \/ Redo \/ ClearUndoHistory \/ UNCHANGED vars
         => UNCHANGED <<activeTransaction, handleVars, inDoc>>
  BY DEF Undo, Redo, ClearUndoHistory, vars
<1> QED
  BY <1>1, <1>2, <1>3, <1>4, <1>5, <1>6, <1>7, <1>8, <1>9, <1>10 DEF Next

(* At most one transaction writes, the engine's flag says whether one      *)
(* does, and what it has not committed is in the document only then.       *)
THEOREM WriterAccess ==
  ASSUME ~LateRollback
  PROVE  Spec => [](SingleWriter /\ FlagTracksWriter /\ UncommittedHasWriter)
<1>1. TypeOK /\ WriterInv /\ [Next]_vars => WriterInv'
  BY NextWriterInv
<1>2. WriterInv => SingleWriter /\ FlagTracksWriter /\ UncommittedHasWriter
  BY DEF WriterInv, SingleWriter, Writers
<1> QED
  BY <1>1, <1>2, InitWriterInv, TypeCorrect, PTL DEF Spec

(* The engine's flag says whether a transaction is active, so that begin() *)
(* refuses when there is one and only then.                                *)
THEOREM FlagInStep ==
  ASSUME ~LateRollback
  PROVE  Spec => []FlagTracksWriter
BY WriterAccess, PTL

(* What is in the document and not committed is the active transaction's.  *)
THEOREM UncommittedOwned ==
  ASSUME ~LateRollback
  PROVE  Spec => []UncommittedHasWriter
BY WriterAccess, PTL

(* Write access is taken only when nobody holds it and is given up by the  *)
(* handle that holds it: the lifecycle implements WriterLock.              *)
THEOREM ImplementsWriterLock ==
  ASSUME ~LateRollback
  PROVE  Spec => WriterLockSpec
<1>1. Init => Lock!LockInit
  BY DEF Init, Writers, Lock!LockInit
<1>2. TypeOK /\ WriterInv /\ [Next]_vars => WriterInv' /\ [Lock!LockNext]_Writers
  BY NextWriterInv
<1> QED
  BY <1>1, <1>2, InitWriterInv, TypeCorrect, PTL
     DEF Spec, WriterLockSpec, Lock!LockSpec

(* undo and redo find no uncommitted change in the document.               *)
THEOREM UndoSeesCommitted ==
  ASSUME ~LateRollback
  PROVE  Spec => UndoIsolated
<1>1. TypeOK /\ WriterInv /\ [Next]_vars => WriterInv'
  BY NextWriterInv
<1>2. WriterInv => (Undo \/ Redo => inDoc = {})
  BY DEF WriterInv, Undo, Redo, FlagTracksWriter, UncommittedHasWriter, Writers
<1> QED
  BY <1>1, <1>2, InitWriterInv, TypeCorrect, PTL DEF Spec, UndoIsolated

-----------------------------------------------------------------------------
(* The undo history *)

LEMMA InitHistoryInv == Init => HistoryInv
BY DEF Init, HistoryInv, StackedAreCommitted

(* A step that leaves the stacks and the commits alone may change only the *)
(* state of a handle that has not committed.                               *)
LEMMA HistoryUnchanged ==
  ASSUME TypeOK, HistoryInv, UNCHANGED historyVars,
         \A t \in Txns : state[t] = "Committed" => state'[t] = "Committed"
  PROVE  HistoryInv'
<1>1. \A stack \in Seq(Txns) : \A i \in DOMAIN stack : stack[i] \in Txns
  OBVIOUS
<1>2. ASSUME NEW stack \in Seq(Txns), StackedAreCommitted(stack)
      PROVE  \A i \in DOMAIN stack :
               state'[stack[i]] = "Committed" /\ commitTime'[stack[i]] <= commits'
  BY <1>1, <1>2 DEF StackedAreCommitted, historyVars
<1>3. undoStack \in Seq(Txns) /\ redoStack \in Seq(Txns)
  BY DEF TypeOK
<1>4. StackedAreCommitted(undoStack)' /\ StackedAreCommitted(redoStack)'
  BY <1>2, <1>3 DEF StackedAreCommitted, HistoryInv, historyVars
<1> QED
  BY <1>4 DEF HistoryInv, historyVars

(* Moving the top of one stack onto the other keeps both in order.         *)
LEMMA MoveTop ==
  ASSUME NEW from \in Seq(Txns), NEW to \in Seq(Txns), from # <<>>,
         NEW rest, NEW more, rest = Front(from), more = Append(to, Last(from))
  PROVE  /\ DOMAIN rest = 1..(Len(from) - 1) /\ DOMAIN more = 1..(Len(to) + 1)
         /\ DOMAIN from = 1..Len(from) /\ DOMAIN to = 1..Len(to)
         /\ Len(from) \in Nat \ {0} /\ Len(to) \in Nat
         /\ \A i \in 1..(Len(from) - 1) : rest[i] = from[i]
         /\ \A i \in 1..Len(to) : more[i] = to[i]
         /\ more[Len(to) + 1] = from[Len(from)]
         /\ \A i \in 1..Len(from) : from[i] \in Txns
         /\ \A i \in 1..Len(to) : to[i] \in Txns
<1>1. /\ Len(from) \in Nat \ {0}
      /\ Front(from) \in Seq(Txns)
      /\ Len(Front(from)) = Len(from) - 1
      /\ \A i \in 1..(Len(from) - 1) : Front(from)[i] = from[i]
  BY PopStack
<1>2. Last(from) = from[Len(from)] /\ Last(from) \in Txns
  BY PopStack DEF Last
<1>3. DOMAIN Front(from) = 1..(Len(from) - 1)
  BY <1>1
<1> QED
  BY <1>1, <1>2, <1>3

LEMMA NextHistoryInv ==
  ASSUME TypeOK, HistoryInv, [Next]_vars
  PROVE  HistoryInv'
<1>1. ASSUME NEW t \in Txns, Commit(t)
      PROVE  HistoryInv'
  <2> DEFINE CT == commitTime'
  <2>1. /\ commits \in Nat /\ commits' = commits + 1
        /\ commitTime \in [Txns -> Nat]
        /\ CT = [commitTime EXCEPT ![t] = commits + 1]
        /\ state' = [state EXCEPT ![t] = "Committed"]
        /\ state[t] # "Committed"
        /\ state \in [Txns -> TransactionStates]
    BY <1>1 DEF Commit, TypeOK
  <2>2. ASSUME NEW stack \in Seq(Txns), StackedAreCommitted(stack)
        PROVE  /\ \A i \in DOMAIN stack :
                    /\ stack[i] \in Txns /\ stack[i] # t
                    /\ CT[stack[i]] = commitTime[stack[i]]
                    /\ CT[stack[i]] \in Nat /\ CT[stack[i]] < commits'
                    /\ state'[stack[i]] = "Committed"
    BY <2>1, <2>2 DEF StackedAreCommitted
  <2>3. undoStack \in Seq(Txns) /\ redoStack \in Seq(Txns)
    BY DEF TypeOK
  <2>4. CASE UNCHANGED <<undoStack, redoStack>>
    <3>1. StackedAreCommitted(undoStack)' /\ StackedAreCommitted(redoStack)'
      BY <2>1, <2>2, <2>3, <2>4 DEF StackedAreCommitted, HistoryInv
    <3> QED
      BY SMTT(30), <2>2, <2>3, <2>4, <3>1 DEF HistoryInv
  <2>5. CASE undoStack' = Append(undoStack, t) /\ redoStack' = <<>>
    <3>1. /\ DOMAIN undoStack' = 1..(Len(undoStack) + 1)
          /\ DOMAIN undoStack = 1..Len(undoStack)
          /\ Len(undoStack) \in Nat
          /\ \A i \in 1..Len(undoStack) : undoStack'[i] = undoStack[i]
          /\ undoStack'[Len(undoStack) + 1] = t
          /\ DOMAIN redoStack' = {}
      BY <2>3, <2>5
    <3>2. /\ CT[t] = commits' /\ state'[t] = "Committed" /\ commits' \in Nat
      BY <2>1
    <3>3. \A i \in DOMAIN undoStack :
            /\ CT[undoStack[i]] = commitTime[undoStack[i]]
            /\ CT[undoStack[i]] \in Nat /\ CT[undoStack[i]] < commits'
            /\ state'[undoStack[i]] = "Committed"
      BY <2>2, <2>3 DEF HistoryInv
    <3>4. StackedAreCommitted(undoStack)' /\ StackedAreCommitted(redoStack)'
      BY <3>1, <3>2, <3>3 DEF StackedAreCommitted
    <3>5. \A i, j \in DOMAIN undoStack' :
            i < j => CT[undoStack'[i]] < CT[undoStack'[j]]
      <4> SUFFICES ASSUME NEW i \in DOMAIN undoStack', NEW j \in DOMAIN undoStack', i < j
                   PROVE  CT[undoStack'[i]] < CT[undoStack'[j]]
        OBVIOUS
      <4>1. i \in 1..Len(undoStack)
        BY <3>1
      <4>2. CASE j = Len(undoStack) + 1
        BY <3>1, <3>2, <3>3, <4>1, <4>2
      <4>3. CASE j \in 1..Len(undoStack)
        BY <3>1, <3>3, <4>1, <4>3 DEF HistoryInv
      <4> QED
        BY <3>1, <4>2, <4>3
    <3> QED
      BY <3>1, <3>4, <3>5 DEF HistoryInv
  <2> QED
    BY <1>1, <2>4, <2>5 DEF Commit
<1>2. CASE Undo
  <2>1. undoStack \in Seq(Txns) /\ redoStack \in Seq(Txns) /\ undoStack # <<>>
    BY <1>2 DEF Undo, TypeOK
  <2>2. /\ undoStack' = Front(undoStack)
        /\ redoStack' = Append(redoStack, Last(undoStack))
        /\ UNCHANGED <<state, commits, commitTime>>
    BY <1>2 DEF Undo, handleVars
  <2>3. commitTime \in [Txns -> Nat]
    BY DEF TypeOK
  <2>4. /\ DOMAIN undoStack' = 1..(Len(undoStack) - 1)
        /\ DOMAIN redoStack' = 1..(Len(redoStack) + 1)
        /\ DOMAIN undoStack = 1..Len(undoStack) /\ DOMAIN redoStack = 1..Len(redoStack)
        /\ Len(undoStack) \in Nat \ {0} /\ Len(redoStack) \in Nat
        /\ \A i \in 1..(Len(undoStack) - 1) : undoStack'[i] = undoStack[i]
        /\ \A i \in 1..Len(redoStack) : redoStack'[i] = redoStack[i]
        /\ redoStack'[Len(redoStack) + 1] = undoStack[Len(undoStack)]
        /\ \A i \in 1..Len(undoStack) : undoStack[i] \in Txns
        /\ \A i \in 1..Len(redoStack) : redoStack[i] \in Txns
    <3> DEFINE rest == undoStack'
               more == redoStack'
    <3>1. rest = Front(undoStack) /\ more = Append(redoStack, Last(undoStack))
      BY <2>2
    <3> HIDE DEF rest, more
    <3>2. /\ DOMAIN rest = 1..(Len(undoStack) - 1) /\ DOMAIN more = 1..(Len(redoStack) + 1)
          /\ DOMAIN undoStack = 1..Len(undoStack) /\ DOMAIN redoStack = 1..Len(redoStack)
          /\ Len(undoStack) \in Nat \ {0} /\ Len(redoStack) \in Nat
          /\ \A i \in 1..(Len(undoStack) - 1) : rest[i] = undoStack[i]
          /\ \A i \in 1..Len(redoStack) : more[i] = redoStack[i]
          /\ more[Len(redoStack) + 1] = undoStack[Len(undoStack)]
          /\ \A i \in 1..Len(undoStack) : undoStack[i] \in Txns
          /\ \A i \in 1..Len(redoStack) : redoStack[i] \in Txns
      BY ONLY <2>1, <3>1, MoveTop
    <3> QED
      BY <3>2 DEF rest, more
  <2>5. StackedAreCommitted(undoStack)' /\ StackedAreCommitted(redoStack)'
    BY <2>2, <2>4 DEF HistoryInv, StackedAreCommitted
  <2>a. commitTime' = commitTime
    BY <2>2
  <2>b. /\ \A i, j \in 1..Len(undoStack) :
             i < j => commitTime[undoStack[i]] < commitTime[undoStack[j]]
        /\ \A i, j \in 1..Len(redoStack) :
             i < j => commitTime[redoStack[j]] < commitTime[redoStack[i]]
        /\ \A i \in 1..Len(undoStack), j \in 1..Len(redoStack) :
             commitTime[undoStack[i]] < commitTime[redoStack[j]]
    BY <2>4 DEF HistoryInv
  <2>6. ASSUME NEW i \in DOMAIN undoStack', NEW j \in DOMAIN undoStack', i < j
        PROVE  commitTime[undoStack'[i]] < commitTime[undoStack'[j]]
    <3>1. i \in 1..(Len(undoStack) - 1) /\ j \in 1..(Len(undoStack) - 1)
      BY <2>4
    <3>2. i \in 1..Len(undoStack) /\ j \in 1..Len(undoStack)
      BY <2>4, <3>1
    <3> QED
      BY <2>4, <2>6, <2>b, <3>1, <3>2
  <2>7. ASSUME NEW i \in DOMAIN redoStack', NEW j \in DOMAIN redoStack', i < j
        PROVE  commitTime[redoStack'[j]] < commitTime[redoStack'[i]]
    <3>1. i \in 1..Len(redoStack)
      BY <2>4, <2>7
    <3>2. CASE j \in 1..Len(redoStack)
      BY <2>4, <2>7, <2>b, <3>1, <3>2
    <3>3. CASE j = Len(redoStack) + 1
      BY <2>4, <2>b, <3>1, <3>3
    <3> QED
      BY <2>4, <3>2, <3>3
  <2>8. ASSUME NEW i \in DOMAIN undoStack', NEW j \in DOMAIN redoStack'
        PROVE  commitTime[undoStack'[i]] < commitTime[redoStack'[j]]
    <3>1. i \in 1..(Len(undoStack) - 1) /\ i \in 1..Len(undoStack) /\ i < Len(undoStack)
      BY <2>4
    <3>2. CASE j \in 1..Len(redoStack)
      BY <2>4, <2>b, <3>1, <3>2
    <3>3. CASE j = Len(redoStack) + 1
      BY <2>4, <2>b, <3>1, <3>3
    <3> QED
      BY <2>4, <3>2, <3>3
  <2> QED
    BY <2>5, <2>6, <2>7, <2>8, <2>a DEF HistoryInv
<1>3. CASE Redo
  <2>1. undoStack \in Seq(Txns) /\ redoStack \in Seq(Txns) /\ redoStack # <<>>
    BY <1>3 DEF Redo, TypeOK
  <2>2. /\ redoStack' = Front(redoStack)
        /\ undoStack' = Append(undoStack, Last(redoStack))
        /\ UNCHANGED <<state, commits, commitTime>>
    BY <1>3 DEF Redo, handleVars
  <2>3. commitTime \in [Txns -> Nat]
    BY DEF TypeOK
  <2>4. /\ DOMAIN redoStack' = 1..(Len(redoStack) - 1)
        /\ DOMAIN undoStack' = 1..(Len(undoStack) + 1)
        /\ DOMAIN redoStack = 1..Len(redoStack) /\ DOMAIN undoStack = 1..Len(undoStack)
        /\ Len(redoStack) \in Nat \ {0} /\ Len(undoStack) \in Nat
        /\ \A i \in 1..(Len(redoStack) - 1) : redoStack'[i] = redoStack[i]
        /\ \A i \in 1..Len(undoStack) : undoStack'[i] = undoStack[i]
        /\ undoStack'[Len(undoStack) + 1] = redoStack[Len(redoStack)]
        /\ \A i \in 1..Len(redoStack) : redoStack[i] \in Txns
        /\ \A i \in 1..Len(undoStack) : undoStack[i] \in Txns
    <3> DEFINE rest == redoStack'
               more == undoStack'
    <3>1. rest = Front(redoStack) /\ more = Append(undoStack, Last(redoStack))
      BY <2>2
    <3> HIDE DEF rest, more
    <3>2. /\ DOMAIN rest = 1..(Len(redoStack) - 1) /\ DOMAIN more = 1..(Len(undoStack) + 1)
          /\ DOMAIN redoStack = 1..Len(redoStack) /\ DOMAIN undoStack = 1..Len(undoStack)
          /\ Len(redoStack) \in Nat \ {0} /\ Len(undoStack) \in Nat
          /\ \A i \in 1..(Len(redoStack) - 1) : rest[i] = redoStack[i]
          /\ \A i \in 1..Len(undoStack) : more[i] = undoStack[i]
          /\ more[Len(undoStack) + 1] = redoStack[Len(redoStack)]
          /\ \A i \in 1..Len(redoStack) : redoStack[i] \in Txns
          /\ \A i \in 1..Len(undoStack) : undoStack[i] \in Txns
      BY ONLY <2>1, <3>1, MoveTop
    <3> QED
      BY <3>2 DEF rest, more
  <2>5. StackedAreCommitted(undoStack)' /\ StackedAreCommitted(redoStack)'
    BY <2>2, <2>4 DEF HistoryInv, StackedAreCommitted
  <2>a. commitTime' = commitTime
    BY <2>2
  <2>b. /\ \A i, j \in 1..Len(undoStack) :
             i < j => commitTime[undoStack[i]] < commitTime[undoStack[j]]
        /\ \A i, j \in 1..Len(redoStack) :
             i < j => commitTime[redoStack[j]] < commitTime[redoStack[i]]
        /\ \A i \in 1..Len(undoStack), j \in 1..Len(redoStack) :
             commitTime[undoStack[i]] < commitTime[redoStack[j]]
    BY <2>4 DEF HistoryInv
  <2>6. ASSUME NEW i \in DOMAIN undoStack', NEW j \in DOMAIN undoStack', i < j
        PROVE  commitTime[undoStack'[i]] < commitTime[undoStack'[j]]
    <3>1. i \in 1..Len(undoStack)
      BY <2>4, <2>6
    <3>2. CASE j \in 1..Len(undoStack)
      BY <2>4, <2>6, <2>b, <3>1, <3>2
    <3>3. CASE j = Len(undoStack) + 1
      BY <2>4, <2>b, <3>1, <3>3
    <3> QED
      BY <2>4, <3>2, <3>3
  <2>7. ASSUME NEW i \in DOMAIN redoStack', NEW j \in DOMAIN redoStack', i < j
        PROVE  commitTime[redoStack'[j]] < commitTime[redoStack'[i]]
    <3>1. i \in 1..(Len(redoStack) - 1) /\ j \in 1..(Len(redoStack) - 1)
      BY <2>4
    <3>2. i \in 1..Len(redoStack) /\ j \in 1..Len(redoStack)
      BY <2>4, <3>1
    <3> QED
      BY <2>4, <2>7, <2>b, <3>1, <3>2
  <2>8. ASSUME NEW i \in DOMAIN undoStack', NEW j \in DOMAIN redoStack'
        PROVE  commitTime[undoStack'[i]] < commitTime[redoStack'[j]]
    <3>1. j \in 1..(Len(redoStack) - 1) /\ j \in 1..Len(redoStack) /\ j < Len(redoStack)
      BY <2>4
    <3>2. CASE i \in 1..Len(undoStack)
      BY <2>4, <2>b, <3>1, <3>2
    <3>3. CASE i = Len(undoStack) + 1
      BY <2>4, <2>b, <3>1, <3>3
    <3> QED
      BY <2>4, <3>2, <3>3
  <2> QED
    BY <2>5, <2>6, <2>7, <2>8, <2>a DEF HistoryInv
<1>4. CASE ClearUndoHistory
  BY <1>4 DEF ClearUndoHistory, HistoryInv, StackedAreCommitted
<1>5. CASE \/ \E t \in Txns, isUndoable \in BOOLEAN : Begin(t, isUndoable)
           \/ \E t \in Txns, changes \in OperationChanges : Write(t, changes)
           \/ \E t \in Txns : \/ Fail(t) \/ RollbackActive(t) \/ RollbackFailed(t)
                             \/ RollbackThrows(t) \/ DestroyThrows(t)
           \/ UNCHANGED vars
  <2>1. UNCHANGED historyVars
    BY <1>5 DEF Begin, Write, Fail, RollbackActive, RollbackFailed,
                RollbackThrows, DestroyThrows, vars
  <2>2. \A t \in Txns : state[t] = "Committed" => state'[t] = "Committed"
    BY <1>5 DEF TypeOK, Begin, Write, Fail, RollbackActive, RollbackFailed,
                RollbackThrows, DestroyThrows, vars, handleVars
  <2> QED
    BY <2>1, <2>2, HistoryUnchanged
<1> QED
  BY <1>1, <1>2, <1>3, <1>4, <1>5 DEF Next

(* The undo steps, then the redo steps backwards, are in commit order.     *)
LEMMA StacksInOrder ==
  ASSUME TypeOK, HistoryInv
  PROVE  HistoryChronological
<1> DEFINE n == Len(undoStack)
           m == Len(redoStack)
           back == Reverse(redoStack)
           history == undoStack \o back
<1>1. n \in Nat /\ m \in Nat /\ undoStack \in Seq(Txns) /\ redoStack \in Seq(Txns)
  BY DEF TypeOK
<1>2. /\ back \in Seq(Txns) /\ Len(back) = m
      /\ \A i \in 1..m : back[i] = redoStack[m - i + 1]
  BY <1>1 DEF Reverse
<1>3. /\ DOMAIN history = 1..(n + m)
      /\ \A i \in 1..n : history[i] = undoStack[i]
      /\ \A i \in (n + 1)..(n + m) : i - n \in 1..m /\ history[i] = back[i - n]
  <2> HIDE DEF back, n, m
  <2>0. n = Len(undoStack)
    BY DEF n
  <2>1. /\ history \in Seq(Txns)
        /\ Len(history) = n + m
        /\ \A i \in 1..(n + m) :
             history[i] = IF i <= n THEN undoStack[i] ELSE back[i - n]
    BY <1>1, <1>2, <2>0, ConcatProperties
  <2> HIDE DEF history
  <2> QED
    BY <1>1, <2>1
<1>4. \A i \in (n + 1)..(n + m) :
        m - (i - n) + 1 \in 1..m /\ history[i] = redoStack[m - (i - n) + 1]
  <2> HIDE DEF history, back, n, m
  <2> QED
    BY <1>1, <1>2, <1>3
<1>5. SUFFICES ASSUME NEW i \in 1..(n + m), NEW j \in 1..(n + m), i < j
               PROVE  commitTime[history[i]] < commitTime[history[j]]
  BY <1>3 DEF HistoryChronological
<1>6. DOMAIN undoStack = 1..n /\ DOMAIN redoStack = 1..m
  BY <1>1
<1> HIDE DEF history, back, n, m
<1>7. CASE j <= n
  <2>1. i \in 1..n /\ j \in 1..n
    BY <1>1, <1>5, <1>7
  <2>2. commitTime[undoStack[i]] < commitTime[undoStack[j]]
    BY <1>5, <1>6, <2>1 DEF HistoryInv
  <2> QED
    BY <1>3, <2>1, <2>2
<1>8. CASE i <= n /\ j > n
  <2>1. i \in 1..n /\ j \in (n + 1)..(n + m)
    BY <1>1, <1>5, <1>8
  <2> QED
    BY <1>3, <1>4, <1>6, <2>1 DEF HistoryInv
<1>9. CASE i > n
  <2>1. i \in (n + 1)..(n + m) /\ j \in (n + 1)..(n + m)
    BY <1>1, <1>5, <1>9
  <2>2. m - (j - n) + 1 < m - (i - n) + 1
    BY <1>1, <1>5
  <2>3. \A k, l \in 1..m : k < l => commitTime[redoStack[l]] < commitTime[redoStack[k]]
    BY <1>6 DEF HistoryInv
  <2> QED
    BY <1>4, <2>1, <2>2, <2>3
<1> QED
  <2>1. i \in Nat /\ j \in Nat /\ (j <= n \/ (i <= n /\ j > n) \/ i > n)
    BY <1>1, <1>5
  <2> QED
    BY <1>7, <1>8, <1>9, <2>1
(* No step is redone after a step that was committed on top of its undoing,*)
(* and steps are undone latest first, whatever the transactions did.       *)
THEOREM HistoryInOrder == Spec => []HistoryChronological
<1>1. TypeOK /\ HistoryInv /\ [Next]_vars => HistoryInv'
  BY NextHistoryInv
<1>2. TypeOK /\ HistoryInv => HistoryChronological
  BY StacksInOrder
<1> QED
  BY <1>1, <1>2, InitHistoryInv, TypeCorrect, PTL DEF Spec

=============================================================================
