------------------------------ MODULE Document ------------------------------
(***************************************************************************)
(* The document of a DocumentEngine under the write methods of a           *)
(* Transaction, markFailed, rollback, commit, undo and redo                *)
(* (src/engine.cpp).                                                       *)
(*                                                                         *)
(* One transaction is open at a time, which is the subject of module       *)
(* TransactionLifecycle; ids are fresh, which is that of ItemIds.  Hooks   *)
(* and subscribers are left out, except for what they do to the document   *)
(* here: by throwing, they make a write fail.                              *)
(***************************************************************************)
EXTENDS Changes

CONSTANTS
  MaxOps,           \* bound: a transaction with so many operations in its
                    \*   change set writes no more
  MaxSteps,         \* bound: steps on the undo and redo stacks together
  InitialRows,      \* rows of the document at the start, without parents
  InitialElements,  \* elements of the first row's list at the start
  Methods,          \* the write methods the client uses
  FailAnywhere,     \* may a write fail after it moved elements of a list?
  UnsteppedCommits, \* may a transaction commit changes without an undo step?
  MixedCascades     \* may a removal cascade to a list in an order that its
                    \* inverse, run with other removals, cannot restore?

ASSUME DocumentAssumption ==
  /\ MaxOps \in Nat /\ MaxSteps \in Nat
  /\ InitialRows \in Nat /\ InitialElements \in Nat
  /\ InitialElements > 0 => InitialRows > 0
  /\ InitialRows + InitialElements <= MaxId
  /\ Methods \subseteq {"insertRow", "insertElem", "remove", "removeAt", "update", "rotate"}
  /\ FailAnywhere \in BOOLEAN
  /\ UnsteppedCommits \in BOOLEAN
  /\ MixedCascades \in BOOLEAN

VARIABLES
  doc,        \* Impl::items and Impl::listGroups, the groups by parent
  nextId,     \* the id generateItemId returns next
  open,       \* is a transaction active?
  base,       \* the document when it began
  changeSet,  \* Transaction::Impl::changeSet
  journal,    \* its rollbackItems and rollbackListGroups
  undoStack,  \* the steps that can be undone and redone: their change sets,
  redoStack   \*   and the documents before and after them

vars == <<doc, nextId, open, base, changeSet, journal, undoStack, redoStack>>

(* rollbackItems and rollbackListGroups: what the transaction's writes     *)
(* found when they first touched an item or a group.                       *)
EmptyJournal == [items |-> << >>, groups |-> << >>]

TypeOK ==
  /\ doc \in Documents /\ base \in Documents
  /\ nextId \in 1..(MaxId + 1)
  /\ open \in BOOLEAN
  /\ DOMAIN journal.items \subseteq Ids /\ DOMAIN journal.groups \subseteq Ids
  /\ \A k \in DOMAIN changeSet : changeSet[k].kind \in OperationKinds
  /\ Len(undoStack) + Len(redoStack) <= MaxSteps
-----------------------------------------------------------------------------
(* f, and g where f has no value *)
Overlay(f, g) ==
  [x \in DOMAIN f \cup DOMAIN g |-> IF x \in DOMAIN f THEN f[x] ELSE g[x]]

(* recordRollbackItem and recordRollbackListGroup: the first record stays. *)
Record(items, groups) ==
  [items |-> Overlay(journal.items, [id \in items |-> doc.items[id]]),
   groups |-> Overlay(journal.groups, [g \in groups |-> doc.groups[g]])]

(* restoreRollbackJournal *)
Restored(d, j) ==
  [items |-> Overlay(j.items, d.items), groups |-> Overlay(j.groups, d.groups)]

(* Does the listIndex of every element tell its place?  restoreRollback-   *)
(* Journal puts a group back without refreshListIndexes, so an element     *)
(* that only made way for another one keeps its new index.                 *)
Numbered(d) ==
  \A g \in Ids : \A k \in DOMAIN d.groups[g] : d.items[d.groups[g][k]].index = k - 1

(* markFailed, d being the document restoreRollbackJournal leaves: the     *)
(* transaction ends.  Its change set stays, and is of no use any more.     *)
(* Failures that leave indexes stale only happen if FailAnywhere.          *)
FailTo(d) ==
  /\ FailAnywhere \/ Numbered(d)
  /\ doc' = d
  /\ open' = FALSE
  /\ changeSet' = <<>>
  /\ journal' = EmptyJournal
  /\ base' = d
  /\ UNCHANGED <<undoStack, redoStack>>

(* What a write method does once it has validated its arguments and run    *)
(* its BeforeApply hooks: it records the items and groups it is about to   *)
(* change, applies its operations, of which result is what comes out, and  *)
(* runs hooks and subscribers; if anything throws, it fails.               *)
Write(operations, result, items, groups) ==
  /\ open
  /\ Len(changeSet) < MaxOps
  /\ \/ /\ result.ok
        /\ doc' = result.doc
        /\ changeSet' = changeSet \o operations
        /\ journal' = Record(items, groups)
        /\ UNCHANGED <<open, base, undoStack, redoStack>>
     \/ FailTo(Restored(result.doc, Record(items, groups)))

(* The groups recordRollbackListGroupForSnapshot records *)
GroupsOf(s) == IF Participates(s) THEN {s.parent} ELSE {}

-----------------------------------------------------------------------------
(* The write methods *)

InsertRow(parent) ==
  LET s == Row(parent)
  IN  /\ "insertRow" \in Methods
      /\ nextId <= MaxId
      /\ ValidParent(doc, nextId, s)
      /\ Write(<<ItemInserted(nextId, s)>>, InsertSnapshot(doc, nextId, s), {nextId}, {})
      /\ nextId' = nextId + 1

InsertElem(parent, index) ==
  LET s == Elem(parent, index)
      operation == IF parent = NoId THEN ItemInserted(nextId, s) ELSE ListInserted(nextId, s)
  IN  /\ "insertElem" \in Methods
      /\ nextId <= MaxId
      /\ ValidParent(doc, nextId, s)
      /\ IF parent = NoId THEN index = 0 ELSE InsertableAt(doc.groups[parent], index)
      /\ Write(<<operation>>, InsertSnapshot(doc, nextId, s), {nextId}, GroupsOf(s))
      /\ nextId' = nextId + 1

PresentIds == {id \in Ids : Present(doc, id)}

(* Mutant of Descendants: a removal reaches the children only. *)
Children(id) == {id} \cup {i \in Ids : Present(doc, i) /\ doc.items[i].parent = id}

(* id and its descendants *)
Descendants(id) == {i \in Ids : Present(doc, i) /\ id \in Lineage(doc, i)}

(* The orders in which remove may collect them: depth first, children in   *)
(* any order, that of the hash map of the items.                           *)
CascadeOrders(id) ==
  {order \in SetToSeqs(Descendants(id)) :
     /\ order[1] = id
     /\ \A k \in 2..Len(order) :
          doc.items[order[k]].parent \in Lineage(doc, order[k - 1])}

(* The lists of order run from their last element to their first. *)
ListsDescend(order) ==
  \A j, k \in DOMAIN order :
    LET s == doc.items[order[j]]
        t == doc.items[order[k]]
    IN  j < k /\ Participates(s) /\ Participates(t) /\ s.parent = t.parent
          => s.index > t.index

RemoveItem(id, order) ==
  /\ "remove" \in Methods
  /\ MixedCascades \/ changeSet = <<>> \/ ListsDescend(order)
  /\ Write([k \in DOMAIN order |->
              IF k = 1 THEN ItemRemoved(id, doc.items[id])
              ELSE CascadeRemoved(order[k], doc.items[order[k]])],
           Done(EraseSnapshots(doc, ToSet(order))),
           ToSet(order),
           {g \in Ids : \E i \in ToSet(order) : Contains(doc.groups[g], i)})
  /\ UNCHANGED nextId

(* removeAt: the element alone, whatever its children *)
RemoveAtIndex(g, index) ==
  LET id == doc.groups[g][index + 1]
      s == doc.items[id]
  IN  /\ "removeAt" \in Methods
      /\ Write(<<ListRemoved(id, s)>>, Done(EraseSnapshot(doc, id, s)), {id}, GroupsOf(s))
      /\ UNCHANGED nextId

(* update of the association: with a null parent, without a target index *)
Update(id, parent, targetIndex) ==
  LET old == doc.items[id]
      new == Reparented(old, parent, targetIndex)
  IN  /\ "update" \in Methods
      /\ Present(doc, id)
      /\ ValidParent(doc, id, new)
      /\ ~Participates(new) => targetIndex = 0
      /\ Write(<<Updated(id, old.parent, old.index, parent, targetIndex)>>,
               UpdateAssociation(doc, id, parent, targetIndex),
               {id}, GroupsOf(old) \cup GroupsOf(new))
      /\ UNCHANGED nextId

Rotate(g, startIndex, count, offset) ==
  /\ "rotate" \in Methods
  /\ startIndex + count <= Len(doc.groups[g])
  /\ Write(<<Rotated(g, startIndex, count, offset)>>,
           Done(RotateList(doc, g, startIndex, count, offset)),
           {}, IF count > 0 THEN {g} ELSE {})
  /\ UNCHANGED nextId

(* A write method throws before it changes anything: its arguments do not  *)
(* pass validation, or a BeforeApply hook throws; an insert may already    *)
(* have taken its id.  A BeforeCommit hook that throws does the same to    *)
(* commit.                                                                 *)
FailBefore ==
  /\ open
  /\ FailTo(Restored(doc, journal))
  /\ nextId' \in {nextId, nextId + 1} \cap 1..(MaxId + 1)

-----------------------------------------------------------------------------
(* Transactions and history *)

(* The first row's list holds the initial elements; the undo history has   *)
(* been cleared.                                                           *)
Init ==
  /\ doc = [items |-> [id \in Ids |->
                IF id <= InitialRows THEN Row(NoId)
                ELSE IF id <= InitialRows + InitialElements
                  THEN Elem(1, id - InitialRows - 1)
                ELSE Absent],
            groups |-> [g \in Ids |->
                IF g = 1 THEN [k \in 1..InitialElements |-> InitialRows + k] ELSE <<>>]]
  /\ nextId = InitialRows + InitialElements + 1
  /\ open = FALSE
  /\ base = doc
  /\ changeSet = <<>>
  /\ journal = EmptyJournal
  /\ undoStack = <<>>
  /\ redoStack = <<>>

Begin ==
  /\ ~open
  /\ Len(undoStack) + Len(redoStack) < MaxSteps
  /\ open' = TRUE
  /\ UNCHANGED <<doc, nextId, base, changeSet, journal, undoStack, redoStack>>

Commit(undoable) ==
  LET step == undoable /\ CreatesUndoStep(changeSet)
  IN  /\ open
      /\ step \/ changeSet = <<>> \/ UnsteppedCommits
      /\ undoStack' = IF step
                      THEN Append(undoStack, [operations |-> changeSet,
                                              before |-> base, after |-> doc])
                      ELSE undoStack
      /\ redoStack' = IF step THEN <<>> ELSE redoStack
      /\ open' = FALSE
      /\ changeSet' = <<>>
      /\ journal' = EmptyJournal
      /\ base' = doc
      /\ UNCHANGED <<doc, nextId>>

(* Transaction::rollback of an active transaction, or ~Transaction: the    *)
(* inverse is applied; if that throws, the journal puts the document back  *)
(* and the transaction stays active.                                       *)
RollbackTo(r) ==
  IF r.ok
    THEN /\ doc' = r.doc
         /\ open' = FALSE
         /\ changeSet' = <<>>
         /\ journal' = EmptyJournal
         /\ base' = r.doc
    ELSE /\ doc' = Restored(r.doc, journal)
         /\ UNCHANGED <<open, changeSet, journal, base>>

Rollback ==
  /\ open
  /\ RollbackTo(ApplyChangeSet(doc, InvertChangeSet(changeSet)))
  /\ UNCHANGED <<nextId, undoStack, redoStack>>

(* DocumentEngine::undo and redo: if the change set does not apply, what   *)
(* has been applied of it stays, and so do the stacks.                     *)
UndoTo(r) ==
  /\ doc' = r.doc
  /\ base' = r.doc
  /\ undoStack' = IF r.ok THEN Front(undoStack) ELSE undoStack
  /\ redoStack' = IF r.ok THEN Append(redoStack, Last(undoStack)) ELSE redoStack

Undo ==
  /\ ~open
  /\ undoStack # <<>>
  /\ UndoTo(ApplyChangeSet(doc, InvertChangeSet(Last(undoStack).operations)))
  /\ UNCHANGED <<nextId, open, changeSet, journal>>

(* Mutant of RedoTo: the step stays on the redo stack. *)
RedoKeepsStep(r) ==
  /\ doc' = r.doc
  /\ base' = r.doc
  /\ redoStack' = redoStack
  /\ undoStack' = IF r.ok THEN Append(undoStack, Last(redoStack)) ELSE undoStack

RedoTo(r) ==
  /\ doc' = r.doc
  /\ base' = r.doc
  /\ redoStack' = IF r.ok THEN Front(redoStack) ELSE redoStack
  /\ undoStack' = IF r.ok THEN Append(undoStack, Last(redoStack)) ELSE undoStack

Redo ==
  /\ ~open
  /\ redoStack # <<>>
  /\ RedoTo(ApplyChangeSet(doc, Last(redoStack).operations))
  /\ UNCHANGED <<nextId, open, changeSet, journal>>

(* What a transaction's client does short of committing *)
Edit ==
  \/ Begin
  \/ \E parent \in Ids \cup {NoId} : InsertRow(parent)
  \/ \E parent \in Ids \cup {NoId}, index \in Indexes : InsertElem(parent, index)
  \/ \E id \in PresentIds : \E order \in CascadeOrders(id) : RemoveItem(id, order)
  \/ \E g \in Ids : \E k \in DOMAIN doc.groups[g] : RemoveAtIndex(g, k - 1)
  \/ \E id \in Ids, parent \in Ids \cup {NoId}, targetIndex \in Indexes :
       Update(id, parent, targetIndex)
  \/ \E g \in Ids, startIndex \in Indexes, count \in Indexes, offset \in {-1, 1, 2} :
       Rotate(g, startIndex, count, offset)
  \/ FailBefore
  \/ Rollback

Next ==
  \/ Edit
  \/ \E undoable \in BOOLEAN : Commit(undoable)
  \/ Undo
  \/ Redo

Spec == Init /\ [][Next]_vars

-----------------------------------------------------------------------------
(***************************************************************************)
(* Properties                                                              *)
(***************************************************************************)

(* Every list group and the listIndex and parent of its elements agree:    *)
(* the indexes of a list are contiguous, and every element with a parent   *)
(* stands in its list, whatever was undone, rolled back or failed.         *)
ListsConsistent ==
  /\ \A g \in Ids : \A k \in DOMAIN doc.groups[g] :
       doc.items[doc.groups[g][k]] = Elem(g, k - 1)
  /\ \A id \in Ids :
       Participates(doc.items[id]) => Contains(doc.groups[doc.items[id].parent], id)

(* Every item with a parent has it in the document, and following parents  *)
(* ends: removals cascade, and no update, undo or redo closes a cycle.     *)
ParentsSound ==
  \A id \in Ids : doc.items[id].parent # NoId =>
    /\ Present(doc, doc.items[id].parent)
    /\ id \notin Lineage(doc, doc.items[id].parent)

History == INSTANCE EditHistory WITH
  document <- doc,
  draft <- open,
  past <- [k \in DOMAIN undoStack |-> undoStack[k].before],
  future <- [k \in DOMAIN redoStack |-> redoStack[k].after]

(* Commit, rollback, failure, undo and redo move through documents the way *)
(* an editor promises: rollback and failure restore the document the       *)
(* transaction began with, undo the one before the step, redo the one      *)
(* undone, exactly and at any distance.                                    *)
HistorySpec == History!HistorySpec

=============================================================================
