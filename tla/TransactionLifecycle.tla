------------------------ MODULE TransactionLifecycle ------------------------
(***************************************************************************)
(* The life of the Transaction handles of one DocumentEngine and of the    *)
(* engine's activeTransaction flag: beginTransaction, the write methods,   *)
(* commit, rollback, the destructor, undo and redo (src/engine.cpp).       *)
(*                                                                         *)
(* The engine is single-threaded, so each call is one step; the            *)
(* interleaving is that of several handles alive in one client, each in    *)
(* its own state, and of undo and redo between their calls.                *)
(*                                                                         *)
(* The document is reduced to inDoc, the handles whose uncommitted changes *)
(* it holds.  What the changes are, and whether applying and inverting     *)
(* them is right, is the subject of module Document.                       *)
(***************************************************************************)
EXTENDS Naturals, Sequences, SequencesExt

CONSTANTS
  Txns,             \* the Transaction handles; each is begun at most once
  MaxOps,           \* bound: operations recorded in one change set
  LateRollback,     \* may a client roll back a failed handle while another
                    \* transaction is active?
  RollbackCanThrow  \* may applying the inverse of a change set throw?

ASSUME LifecycleAssumption ==
  /\ MaxOps \in Nat \ {0}
  /\ LateRollback \in BOOLEAN
  /\ RollbackCanThrow \in BOOLEAN

(* The operation kinds createsUndoStep tells apart: a table row, its       *)
(* computed columns, and everything else (list elements, updates, removals *)
(* and rotations).                                                         *)
OperationKinds == {"ItemInserted", "ComputedColumnUpdated", "Edit"}

(* What one write method appends to the change set: its operation and,     *)
(* after an insert or update, a computed column.                           *)
OperationChanges ==
  { <<"ItemInserted">>, <<"Edit">>, <<"ItemInserted", "ComputedColumnUpdated">> }

(* "Unused" is a handle not begun yet, "Lost" one whose destructor         *)
(* swallowed a throwing rollback: it is gone, but never gave up the flag.  *)
TransactionStates ==
  {"Unused", "Active", "Failed", "Committed", "RolledBack", "Lost"}

VARIABLES
  activeTransaction,  \* DocumentEngine::Impl::activeTransaction
  state,              \* Transaction::Impl::state
  undoable,           \* TransactionOptions::undoable
  rollbackApplied,    \* Transaction::Impl::rollbackApplied
  changeSet,          \* Transaction::Impl::changeSet, as operation kinds
  inDoc,              \* handles whose uncommitted changes are in the document
  undoStack,          \* DocumentEngine::Impl::undoStack, as the handles that
  redoStack,          \*   committed the steps; and redoStack
  commits,            \* how many transactions have committed so far
  commitTime          \* the value of commits at which a handle committed

handleVars == <<state, undoable, rollbackApplied, changeSet>>
historyVars == <<undoStack, redoStack, commits, commitTime>>
vars == <<activeTransaction, handleVars, inDoc, historyVars>>

(* Table rows alone make an undo step only when the transaction is a       *)
(* single operation; any other nonempty change set makes one.              *)
CreatesUndoStep(changes) ==
  LET kinds == ToSet(changes)
      onlyInsertInitialization ==
        kinds \subseteq {"ItemInserted", "ComputedColumnUpdated"}
  IN  /\ changes # <<>>
      /\ "ItemInserted" \in kinds /\ onlyInsertInitialization
           => Len(changes) = 1

(* What may be on the stacks: the change set of a transaction that has     *)
(* committed, was begun as undoable and is worth an undo step.             *)
UndoStep(t) ==
  state[t] = "Committed" /\ undoable[t] /\ CreatesUndoStep(changeSet[t])

HoldsUndoSteps(stack) == \A i \in DOMAIN stack : UndoStep(stack[i])

(* The types of the variables, the stacks' among them: they hold undo      *)
(* steps, never the changes of a handle that is still open, that failed or *)
(* that asked for none.                                                    *)
TypeOK ==
  /\ activeTransaction \in BOOLEAN
  /\ state \in [Txns -> TransactionStates]
  /\ undoable \in [Txns -> BOOLEAN]
  /\ rollbackApplied \in [Txns -> BOOLEAN]
  /\ changeSet \in [Txns -> Seq(OperationKinds)]
  /\ inDoc \subseteq Txns
  /\ undoStack \in Seq(Txns) /\ HoldsUndoSteps(undoStack)
  /\ redoStack \in Seq(Txns) /\ HoldsUndoSteps(redoStack)
  /\ commits \in Nat
  /\ commitTime \in [Txns -> Nat]
-----------------------------------------------------------------------------
Init ==
  /\ activeTransaction = FALSE
  /\ state = [t \in Txns |-> "Unused"]
  /\ undoable = [t \in Txns |-> TRUE]
  /\ rollbackApplied = [t \in Txns |-> FALSE]
  /\ changeSet = [t \in Txns |-> <<>>]
  /\ inDoc = {}
  /\ undoStack = <<>>
  /\ redoStack = <<>>
  /\ commits = 0
  /\ commitTime = [t \in Txns |-> 0]

(* Mutant of Begin: the activeTransaction check is missing. *)
BeginUnchecked(t, isUndoable) ==
  /\ state[t] = "Unused"
  /\ activeTransaction' = TRUE
  /\ state' = [state EXCEPT ![t] = "Active"]
  /\ undoable' = [undoable EXCEPT ![t] = isUndoable]
  /\ UNCHANGED <<rollbackApplied, changeSet, inDoc, historyVars>>

(* DocumentEngine::beginTransaction *)
Begin(t, isUndoable) ==
  /\ state[t] = "Unused"
  /\ ~activeTransaction
  /\ activeTransaction' = TRUE
  /\ state' = [state EXCEPT ![t] = "Active"]
  /\ undoable' = [undoable EXCEPT ![t] = isUndoable]
  /\ UNCHANGED <<rollbackApplied, changeSet, inDoc, historyVars>>

(* A write method that succeeds: insert, remove, removeAt, update, rotate. *)
Write(t, changes) ==
  /\ state[t] = "Active"
  /\ Len(changeSet[t] \o changes) <= MaxOps
  /\ changeSet' = [changeSet EXCEPT ![t] = @ \o changes]
  /\ inDoc' = inDoc \cup {t}
  /\ UNCHANGED <<activeTransaction, state, undoable, rollbackApplied, historyVars>>

(* Mutants of Fail: the flag stays up; the journal is not applied. *)
FailKeepsFlag(t) ==
  /\ state[t] = "Active"
  /\ state' = [state EXCEPT ![t] = "Failed"]
  /\ inDoc' = inDoc \ {t}
  /\ rollbackApplied' = [rollbackApplied EXCEPT ![t] = TRUE]
  /\ UNCHANGED <<activeTransaction, undoable, changeSet, historyVars>>

FailKeepsChanges(t) ==
  /\ state[t] = "Active"
  /\ state' = [state EXCEPT ![t] = "Failed"]
  /\ activeTransaction' = FALSE
  /\ rollbackApplied' = [rollbackApplied EXCEPT ![t] = TRUE]
  /\ UNCHANGED <<undoable, changeSet, inDoc, historyVars>>

(* markFailed: a write method or a BeforeCommit hook threw; the journal    *)
(* puts the document back and the flag is given up.                        *)
Fail(t) ==
  /\ state[t] = "Active"
  /\ state' = [state EXCEPT ![t] = "Failed"]
  /\ inDoc' = IF rollbackApplied[t] THEN inDoc ELSE inDoc \ {t}
  /\ activeTransaction' = (activeTransaction /\ rollbackApplied[t])
  /\ rollbackApplied' = [rollbackApplied EXCEPT ![t] = TRUE]
  /\ UNCHANGED <<undoable, changeSet, historyVars>>

(* Mutants of Commit: the redo stack is kept; the options are not looked   *)
(* at, so that a transaction begun as not undoable is pushed too.          *)
CommitKeepsRedo(t) ==
  /\ state[t] = "Active"
  /\ undoStack' = IF undoable[t] /\ CreatesUndoStep(changeSet[t])
                    THEN Append(undoStack, t) ELSE undoStack
  /\ state' = [state EXCEPT ![t] = "Committed"]
  /\ activeTransaction' = FALSE
  /\ inDoc' = inDoc \ {t}
  /\ commits' = commits + 1
  /\ commitTime' = [commitTime EXCEPT ![t] = commits']
  /\ UNCHANGED <<redoStack, undoable, rollbackApplied, changeSet>>

CommitIgnoresOptions(t) ==
  /\ state[t] = "Active"
  /\ IF CreatesUndoStep(changeSet[t])
       THEN undoStack' = Append(undoStack, t) /\ redoStack' = <<>>
       ELSE UNCHANGED <<undoStack, redoStack>>
  /\ state' = [state EXCEPT ![t] = "Committed"]
  /\ activeTransaction' = FALSE
  /\ inDoc' = inDoc \ {t}
  /\ commits' = commits + 1
  /\ commitTime' = [commitTime EXCEPT ![t] = commits']
  /\ UNCHANGED <<undoable, rollbackApplied, changeSet>>

(* Transaction::commit, its BeforeCommit hooks having accepted the changes *)
Commit(t) ==
  /\ state[t] = "Active"
  /\ IF undoable[t] /\ CreatesUndoStep(changeSet[t])
       THEN undoStack' = Append(undoStack, t) /\ redoStack' = <<>>
       ELSE UNCHANGED <<undoStack, redoStack>>
  /\ state' = [state EXCEPT ![t] = "Committed"]
  /\ activeTransaction' = FALSE
  /\ inDoc' = inDoc \ {t}
  /\ commits' = commits + 1
  /\ commitTime' = [commitTime EXCEPT ![t] = commits']
  /\ UNCHANGED <<undoable, rollbackApplied, changeSet>>

(* Mutant of RollbackActive: the flag stays up. *)
RollbackKeepsFlag(t) ==
  /\ state[t] = "Active"
  /\ ~rollbackApplied[t]
  /\ state' = [state EXCEPT ![t] = "RolledBack"]
  /\ inDoc' = inDoc \ {t}
  /\ UNCHANGED <<activeTransaction, undoable, rollbackApplied, changeSet, historyVars>>

(* Transaction::rollback of an active transaction whose inverse applies,   *)
(* called by the client or by ~Transaction and operator=.                  *)
RollbackActive(t) ==
  /\ state[t] = "Active"
  /\ ~rollbackApplied[t]
  /\ state' = [state EXCEPT ![t] = "RolledBack"]
  /\ activeTransaction' = FALSE
  /\ inDoc' = inDoc \ {t}
  /\ UNCHANGED <<undoable, rollbackApplied, changeSet, historyVars>>

(* Transaction::rollback of a failed transaction: the journal has already  *)
(* been applied, so only the states change, the engine's flag among them,  *)
(* whoever holds it now.                                                   *)
RollbackFailed(t) ==
  /\ state[t] = "Failed"
  /\ rollbackApplied[t]
  /\ LateRollback \/ ~activeTransaction
  /\ state' = [state EXCEPT ![t] = "RolledBack"]
  /\ activeTransaction' = FALSE
  /\ UNCHANGED <<undoable, rollbackApplied, changeSet, inDoc, historyVars>>

(* Transaction::rollback whose inverse throws: the journal puts the        *)
(* document back and the exception leaves the transaction active.          *)
RollbackThrows(t) ==
  /\ RollbackCanThrow
  /\ state[t] = "Active"
  /\ ~rollbackApplied[t]
  /\ changeSet[t] # <<>>
  /\ inDoc' = inDoc \ {t}
  /\ UNCHANGED <<activeTransaction, handleVars, historyVars>>

(* ~Transaction and operator= swallow that exception: the handle is gone.  *)
DestroyThrows(t) ==
  /\ RollbackCanThrow
  /\ state[t] = "Active"
  /\ ~rollbackApplied[t]
  /\ changeSet[t] # <<>>
  /\ state' = [state EXCEPT ![t] = "Lost"]
  /\ inDoc' = inDoc \ {t}
  /\ UNCHANGED <<activeTransaction, undoable, rollbackApplied, changeSet, historyVars>>

(* Mutant of Undo: the activeTransaction check is missing. *)
UndoUnchecked ==
  /\ undoStack # <<>>
  /\ undoStack' = Front(undoStack)
  /\ redoStack' = Append(redoStack, Last(undoStack))
  /\ UNCHANGED <<activeTransaction, handleVars, inDoc, commits, commitTime>>

(* DocumentEngine::undo; the flag is up only inside the call. *)
Undo ==
  /\ undoStack # <<>>
  /\ ~activeTransaction
  /\ undoStack' = Front(undoStack)
  /\ redoStack' = Append(redoStack, Last(undoStack))
  /\ UNCHANGED <<activeTransaction, handleVars, inDoc, commits, commitTime>>

(* DocumentEngine::redo *)
Redo ==
  /\ redoStack # <<>>
  /\ ~activeTransaction
  /\ redoStack' = Front(redoStack)
  /\ undoStack' = Append(undoStack, Last(redoStack))
  /\ UNCHANGED <<activeTransaction, handleVars, inDoc, commits, commitTime>>

(* DocumentEngine::clearUndoHistory, allowed at any time *)
ClearUndoHistory ==
  /\ undoStack \o redoStack # <<>>
  /\ undoStack' = <<>>
  /\ redoStack' = <<>>
  /\ UNCHANGED <<activeTransaction, handleVars, inDoc, commits, commitTime>>

(* Every way a handle can stop being the writer *)
Finish(t) ==
  Commit(t) \/ RollbackActive(t) \/ Fail(t)

Next ==
  \/ \E t \in Txns, isUndoable \in BOOLEAN : Begin(t, isUndoable)
  \/ \E t \in Txns, changes \in OperationChanges : Write(t, changes)
  \/ \E t \in Txns : Fail(t)
  \/ \E t \in Txns : Commit(t)
  \/ \E t \in Txns : RollbackActive(t)
  \/ \E t \in Txns : RollbackFailed(t)
  \/ \E t \in Txns : RollbackThrows(t)
  \/ \E t \in Txns : DestroyThrows(t)
  \/ Undo
  \/ Redo
  \/ ClearUndoHistory

Spec == Init /\ [][Next]_vars

(* A Transaction is an RAII object: its scope ends, and if the transaction *)
(* is still active then, ~Transaction rolls it back.                       *)
FairSpec ==
  /\ Spec
  /\ \A t \in Txns : WF_vars(Finish(t) \/ DestroyThrows(t))
-----------------------------------------------------------------------------
(***************************************************************************)
(* Properties                                                              *)
(***************************************************************************)

(* The handles that hold the engine's write access. *)
Writers == {t \in Txns : state[t] \in {"Active", "Lost"}}

(* At most one transaction is active: beginTransaction refuses a second    *)
(* one, and nothing later makes room for it while the first still writes.  *)
SingleWriter ==
  \A t, u \in Txns : state[t] = "Active" /\ state[u] = "Active" => t = u

(* The flag is up exactly while some handle holds write access: it is not  *)
(* dropped under a writer, and outlives one only if ~Transaction swallowed *)
(* a throwing rollback.                                                    *)
FlagTracksWriter == activeTransaction <=> Writers # {}

(* Uncommitted changes are in the document only while the handle that made *)
(* them is active: a failed, rolled back or destroyed one leaves none.     *)
UncommittedHasWriter == inDoc \subseteq {t \in Txns : state[t] = "Active"}

(* What makes the three of them inductive: a lost writer counts as one too, *)
(* and the journal of a handle is applied only on its way out.             *)
WriterInv ==
  /\ \A t, u \in Writers : t = u
  /\ FlagTracksWriter
  /\ UncommittedHasWriter
  /\ \A t \in Txns : rollbackApplied[t] => state[t] \in {"Failed", "RolledBack"}

(* undo and redo never run over the uncommitted changes of a transaction,  *)
(* whose own rollback would then invert changes of another document.       *)
UndoIsolated == [][Undo \/ Redo => inDoc = {}]_vars

(* The steps that could be undone, then those that could be redone, are in *)
(* the order of their commits, each once: no step is redone after a step   *)
(* that was committed on top of its undoing.                               *)
HistoryChronological ==
  LET history == undoStack \o Reverse(redoStack)
  IN  \A i, j \in DOMAIN history :
        i < j => commitTime[history[i]] < commitTime[history[j]]

(* The same order stack by stack, with what makes it inductive: only steps *)
(* committed by now are on the stacks.                                     *)
StackedAreCommitted(stack) ==
  \A i \in DOMAIN stack :
    state[stack[i]] = "Committed" /\ commitTime[stack[i]] <= commits

HistoryInv ==
  /\ StackedAreCommitted(undoStack) /\ StackedAreCommitted(redoStack)
  /\ \A i, j \in DOMAIN undoStack :
       i < j => commitTime[undoStack[i]] < commitTime[undoStack[j]]
  /\ \A i, j \in DOMAIN redoStack :
       i < j => commitTime[redoStack[j]] < commitTime[redoStack[i]]
  /\ \A i \in DOMAIN undoStack, j \in DOMAIN redoStack :
       commitTime[undoStack[i]] < commitTime[redoStack[j]]

(* Write access is taken and given up the way engine.h promises. *)
Lock == INSTANCE WriterLock WITH writers <- Writers

WriterLockSpec == Lock!LockSpec

(* A client that keeps its transactions in scopes gets the engine back:    *)
(* whoever holds the flag gives it up, so another transaction can begin.   *)
WriterReleased == activeTransaction ~> ~activeTransaction

=============================================================================
