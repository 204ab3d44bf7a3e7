------------------------------ MODULE Recovery ------------------------------
(***************************************************************************)
(* Snapshots, the change log and recovery: DocumentEngine::createSnapshot, *)
(* restoreSnapshot and replayChangeSet (src/engine.cpp) around the         *)
(* document and its transactions, and ChangeSet::merge (src/change.cpp),   *)
(* which makes the change set AfterCommit subscribers get.                 *)
(*                                                                         *)
(* The application keeps a snapshot and, behind it, the change set of      *)
(* every commit, undo and redo, as its CommitResult gives it.  When the    *)
(* process ends, a new one restores the snapshot and replays the log.      *)
(***************************************************************************)
EXTENDS Document

CONSTANT MaxLog  \* bound: operations in the log and the open transaction

ASSUME RecoveryAssumption == MaxLog \in Nat

VARIABLES
  file,  \* the document the snapshot was taken of
  log    \* the change sets committed since

recoveryVars == <<vars, file, log>>

WithinBound == Len(FlattenSeq(log')) + Len(changeSet') <= MaxLog
-----------------------------------------------------------------------------
(* restoreSnapshot *)

EmptyDocument == [items |-> [id \in Ids |-> Absent], groups |-> [g \in Ids |-> <<>>]]

(* createSnapshot writes the items in the order of their hash map, which   *)
(* may be any.                                                             *)
SnapshotOrders(d) == SetToSeqs({id \in Ids : Present(d, id)})

(* Mutant of IsReady: the length of the list is not looked at. *)
ParentIsReady(d, s) == s.parent = NoId \/ Present(d, s.parent)

(* parentReady and listReady *)
IsReady(d, s) ==
  /\ s.parent = NoId \/ Present(d, s.parent)
  /\ Participates(s) => s.index <= Len(d.groups[s.parent])

(* One round over the snapshots still to be restored *)
RestoreRound(state, d) ==
  LET restore(acc, id) ==
        IF ~acc.ok THEN acc
        ELSE IF ~IsReady(acc.doc, d.items[id]) THEN [acc EXCEPT !.left = Append(@, id)]
        ELSE LET r == InsertSnapshot(acc.doc, id, d.items[id])
             IN  [acc EXCEPT !.ok = r.ok, !.doc = r.doc]
  IN  FoldLeft(restore, [state EXCEPT !.left = <<>>], state.left)

(* restoreSnapshot of the snapshot of d with its items in this order.  It  *)
(* throws when a round restores nothing, or an insertion does; what it has *)
(* restored by then stays.                                                 *)
RestoreSnapshot(d, order) ==
  LET round(state, id) == RestoreRound(state, d)
      last == FoldLeft(round, [ok |-> TRUE, doc |-> EmptyDocument, left |-> order], order)
  IN  [ok |-> last.ok /\ last.left = <<>>, doc |-> last.doc]

(* replayChangeSet, one after the other *)
ReplayLog(r, changeSets) ==
  LET replay(acc, operations) ==
        IF acc.ok THEN ApplyChangeSet(acc.doc, operations) ELSE acc
  IN  FoldLeft(replay, r, changeSets)
-----------------------------------------------------------------------------
(* ChangeSet::merge *)

SameColumn(a, b) == a.kind = "ColumnUpdated" /\ b.kind = "ColumnUpdated" /\ a.id = b.id

(* Mutant of Combined: the first target stays. *)
CombinedKeepsTarget(first, later) == [first EXCEPT !.new = later.new]

(* The first update's old value and index with the later one's new ones *)
Combined(first, later) ==
  Updated(first.id, first.old, first.oldListIndex, later.new, later.targetIndex)

(* An update joins the first one of its column, where that one stands. *)
Merge(operations) ==
  LET join(merged, op) ==
        IF \E k \in DOMAIN merged : SameColumn(merged[k], op)
          THEN LET k == CHOOSE k \in DOMAIN merged : SameColumn(merged[k], op)
               IN  [merged EXCEPT ![k] = Combined(@, op)]
          ELSE Append(merged, op)
  IN  FoldLeft(join, <<>>, operations)
-----------------------------------------------------------------------------
(* Actions *)

RecoveryInit ==
  /\ Init
  /\ file = doc
  /\ log = <<>>

(* The CommitResult's change set goes to the log. *)
Logged(operations) ==
  /\ log' = IF operations # <<>> THEN Append(log, operations) ELSE log
  /\ UNCHANGED file

LoggedCommit == \E undoable \in BOOLEAN : Commit(undoable) /\ Logged(changeSet)

(* undo and redo that throw have no CommitResult. *)
LoggedUndo ==
  /\ Undo
  /\ Logged(IF undoStack' = undoStack THEN <<>>
            ELSE InvertChangeSet(Last(undoStack).operations))

LoggedRedo ==
  /\ Redo
  /\ Logged(IF redoStack' = redoStack THEN <<>> ELSE Last(redoStack).operations)

(* createSnapshot, between transactions: the log starts anew. *)
Save ==
  /\ ~open
  /\ file' = doc
  /\ log' = <<>>
  /\ UNCHANGED vars

(* The process ends, with what it had not committed, and its successor     *)
(* recovers; it has no undo history.  It starts with the ids of the        *)
(* snapshot: that it gives none of the log's again is not shown here.      *)
Recover(order) ==
  /\ doc' = ReplayLog(RestoreSnapshot(file, order), log).doc
  /\ base' = doc'
  /\ open' = FALSE
  /\ changeSet' = <<>>
  /\ journal' = EmptyJournal
  /\ undoStack' = <<>>
  /\ redoStack' = <<>>
  /\ UNCHANGED <<nextId, file, log>>

RecoveryNext ==
  \/ Edit /\ UNCHANGED <<file, log>> /\ WithinBound
  \/ LoggedCommit
  \/ LoggedUndo /\ WithinBound
  \/ LoggedRedo /\ WithinBound
  \/ Save
  \/ \E order \in SnapshotOrders(file) : Recover(order)

RecoverySpec == RecoveryInit /\ [][RecoveryNext]_recoveryVars
-----------------------------------------------------------------------------
(***************************************************************************)
(* Properties                                                              *)
(***************************************************************************)

(* The snapshot and the log determine the committed document: only what   *)
(* is logged changes it.  Recovery, in particular, gives back exactly the  *)
(* document of the last commit, undo or redo, in whatever order the        *)
(* snapshot lists the items and whatever an open transaction did; lists    *)
(* have their order and indexes (include/dini/engine.h of restoreSnapshot  *)
(* and replayChangeSet: "Document state, indexes, list positions, parent   *)
(* relations ... are restored", "Document state is advanced").             *)
RecoveryExact ==
  [][Len(log') <= Len(log) => base' = base /\ (open' \/ doc' = base')]_recoveryVars

(* Whenever an item is updated twice, only it changes in between.          *)
UpdatesAdjacent(operations) ==
  \A j, k \in DOMAIN operations :
    j < k /\ SameColumn(operations[j], operations[k])
      => \A m \in j..k : SameColumn(operations[m], operations[k])

(* The merged change set, which AfterCommit hooks and subscribers get,     *)
(* makes of the document before the transaction the one after it, as long  *)
(* as nothing else changes between two updates of an item.                 *)
MergedCommitsReplay ==
  [][LoggedCommit /\ UpdatesAdjacent(changeSet)
       => ApplyChangeSet(base, Merge(changeSet)) = Done(doc)]_recoveryVars

=============================================================================
