------------------------------ MODULE Changes -------------------------------
(***************************************************************************)
(* Documents and the change operations on them, as functions: what         *)
(* insertSnapshot, eraseSnapshots, updateListGroup and the like do to the  *)
(* items and list groups of an engine (src/engine.cpp), and how a change   *)
(* set is inverted (src/change.cpp) and applied (applyChangeSet).          *)
(*                                                                         *)
(* A document holds rows and list elements.  A row may have a parent (an   *)
(* association of its table); an element's parent is the value of its      *)
(* list's association, and the elements with the same parent are a list    *)
(* group, whose order their listIndex repeats.  Values of plain columns,   *)
(* unique columns and variants are left out.                               *)
(***************************************************************************)
EXTENDS ListGroups

CONSTANTS
  MaxId,      \* bound: ids the generator gives out
  RowTarget   \* what a row's parent is: "row" or "elem"

ASSUME ChangesAssumption ==
  /\ MaxId \in Nat \ {0}
  /\ RowTarget \in {"row", "elem"}

Ids == 1..MaxId
NoId == 0
Indexes == 0..MaxId

(* ItemSnapshot: the kind of its container, its parentId and listIndex,    *)
(* which is 0 for a row and for an element without a parent.               *)
Snapshots == [kind : {"row", "elem"}, parent : Ids \cup {NoId}, index : Indexes]
Absent == [kind |-> "absent", parent |-> NoId, index |-> 0]

Row(parent) == [kind |-> "row", parent |-> parent, index |-> 0]
Elem(parent, index) == [kind |-> "elem", parent |-> parent, index |-> index]

Documents == [items : [Ids -> Snapshots \cup {Absent}], groups : [Ids -> Seq(Ids)]]
-----------------------------------------------------------------------------
(***************************************************************************)
(* Items and list groups                                                   *)
(***************************************************************************)
Present(d, id) == id \in Ids /\ d.items[id] # Absent

(* participatesInListGroup *)
Participates(s) == s.kind = "elem" /\ s.parent # NoId

(* refreshListIndexes *)
Refresh(d, g, startIndex) ==
  [d EXCEPT !.items = [id \in Ids |->
     IF /\ Contains(d.groups[g], id)
        /\ IndexOf(d.groups[g], id) >= startIndex
        /\ Present(d, id)
       THEN [@[id] EXCEPT !.index = IndexOf(d.groups[g], id)]
       ELSE @[id]]]

RemoveFromListGroup(d, id, s) ==
  IF Participates(s) /\ Contains(d.groups[s.parent], id)
    THEN Refresh([d EXCEPT !.groups[s.parent] = RemoveElement(@, id)],
                 s.parent, IndexOf(d.groups[s.parent], id))
    ELSE d

(* Results of operations that may throw: ok, and the document they leave.  *)
Done(d) == [ok |-> TRUE, doc |-> d]
Throws(d) == [ok |-> FALSE, doc |-> d]

(* Mutant of InsertIntoListGroup: the element behind the new one keeps its *)
(* index.                                                                  *)
InsertSkipsNext(d, id, s) ==
  IF ~Participates(s) THEN Done(d)
  ELSE IF ~InsertableAt(d.groups[s.parent], s.index) THEN Throws(d)
  ELSE Done(Refresh([d EXCEPT !.groups[s.parent] = InsertElement(@, s.index, id)],
                    s.parent, s.index + 2))

InsertIntoListGroup(d, id, s) ==
  IF ~Participates(s) THEN Done(d)
  ELSE IF ~InsertableAt(d.groups[s.parent], s.index) THEN Throws(d)
  ELSE Done(Refresh([d EXCEPT !.groups[s.parent] = InsertElement(@, s.index, id)],
                    s.parent, s.index + 1))

(* id and its ancestors, as far as they can be followed *)
Lineage(d, id) ==
  LET up[n \in 0..MaxId] ==
        IF n = 0 THEN id
        ELSE IF Present(d, up[n - 1]) THEN d.items[up[n - 1]].parent ELSE NoId
  IN  {up[n] : n \in 0..MaxId} \ {NoId}

(* validateParentRelations with ensureNoCycle *)
ValidParent(d, id, s) ==
  s.parent = NoId \/
  /\ Present(d, s.parent)
  /\ d.items[s.parent].kind = (IF s.kind = "elem" THEN "row" ELSE RowTarget)
  /\ \A a \in Lineage(d, s.parent) : a # id /\ Present(d, a)

(* id gets the snapshot s, if what came before has not thrown. *)
Stored(r, id, s) == IF r.ok THEN Done([r.doc EXCEPT !.items[id] = s]) ELSE r

(* insertSnapshot *)
InsertSnapshot(d, id, s) ==
  IF ValidParent(d, id, s) THEN Stored(InsertIntoListGroup(d, id, s), id, s) ELSE Throws(d)

(* eraseSnapshot *)
EraseSnapshot(d, id, s) ==
  [RemoveFromListGroup(d, id, s) EXCEPT !.items[id] = Absent]

(* eraseSnapshots: the groups that lost an element are renumbered *)
EraseSnapshots(d, removed) ==
  LET kept == [g \in Ids |-> RetainElements(d.groups[g], removed)]
  IN  [items |-> [id \in Ids |->
         IF id \in removed THEN Absent
         ELSE IF \E g \in Ids : kept[g] # d.groups[g] /\ Contains(kept[g], id)
           THEN LET g == CHOOSE g \in Ids : kept[g] # d.groups[g] /\ Contains(kept[g], id)
                IN  [d.items[id] EXCEPT !.index = IndexOf(kept[g], id)]
         ELSE d.items[id]],
       groups |-> kept]

(* The snapshot s with another parent.  An element needs the index to take *)
(* in its new list, counted after it has left the old one.                 *)
Reparented(s, parent, targetIndex) ==
  [s EXCEPT !.parent = parent,
            !.index = IF Participates([s EXCEPT !.parent = parent]) THEN targetIndex ELSE 0]

(* updateListGroup: it throws only after it has taken the element out. *)
UpdateListGroup(d, id, old, new) ==
  IF old = new THEN Done(d)
  ELSE InsertIntoListGroup(RemoveFromListGroup(d, id, old), id, new)

ReplaceSnapshot(d, id, old, new) ==
  IF ValidParent(d, id, new) THEN Stored(UpdateListGroup(d, id, old, new), id, new)
  ELSE Throws(d)

(* The association update of Transaction::update and of applyOperation *)
UpdateAssociation(d, id, parent, targetIndex) ==
  IF Present(d, id)
    THEN ReplaceSnapshot(d, id, d.items[id], Reparented(d.items[id], parent, targetIndex))
    ELSE Throws(d)

RotateList(d, g, startIndex, count, offset) ==
  Refresh([d EXCEPT !.groups[g] = RotateWindow(@, startIndex, count, offset)],
          g, startIndex)
-----------------------------------------------------------------------------
(***************************************************************************)
(* Change operations, their inverses and their application                 *)
(***************************************************************************)
ItemInserted(id, s) == [kind |-> "ItemInserted", id |-> id, item |-> s]
ItemRemoved(id, s) == [kind |-> "ItemRemoved", id |-> id, item |-> s]
CascadeRemoved(id, s) == [kind |-> "CascadeRemoved", id |-> id, item |-> s]
ListInserted(id, s) == [kind |-> "ListInserted", id |-> id, item |-> s]
ListRemoved(id, s) == [kind |-> "ListRemoved", id |-> id, item |-> s]

(* ColumnUpdated of an association column *)
Updated(id, old, oldListIndex, new, targetIndex) ==
  [kind |-> "ColumnUpdated", id |-> id, old |-> old, oldListIndex |-> oldListIndex,
   new |-> new, targetIndex |-> targetIndex]

Rotated(g, startIndex, count, offset) ==
  [kind |-> "ListRotated", group |-> g, startIndex |-> startIndex,
   count |-> count, offset |-> offset]

Removals == {"ItemRemoved", "CascadeRemoved", "ListRemoved"}

OperationKinds ==
  {"ItemInserted", "ListInserted", "ColumnUpdated", "ListRotated"} \cup Removals

(* Mutant of InvertOperation: a move is undone to the front of the list    *)
(* the element came from.                                                  *)
InvertForgetsIndex(op) ==
  CASE op.kind = "ItemInserted" -> ItemRemoved(op.id, op.item)
    [] op.kind \in {"ItemRemoved", "CascadeRemoved"} -> ItemInserted(op.id, op.item)
    [] op.kind = "ListInserted" -> ListRemoved(op.id, op.item)
    [] op.kind = "ListRemoved" -> ListInserted(op.id, op.item)
    [] op.kind = "ColumnUpdated" -> Updated(op.id, op.new, op.targetIndex, op.old, 0)
    [] op.kind = "ListRotated" ->
         Rotated(op.group, op.startIndex, op.count, -op.offset)

(* invertOperation *)
InvertOperation(op) ==
  CASE op.kind = "ItemInserted" -> ItemRemoved(op.id, op.item)
    [] op.kind \in {"ItemRemoved", "CascadeRemoved"} -> ItemInserted(op.id, op.item)
    [] op.kind = "ListInserted" -> ListRemoved(op.id, op.item)
    [] op.kind = "ListRemoved" -> ListInserted(op.id, op.item)
    [] op.kind = "ColumnUpdated" ->
         Updated(op.id, op.new, op.targetIndex, op.old,
                 IF op.old # NoId THEN op.oldListIndex ELSE 0)
    [] op.kind = "ListRotated" ->
         Rotated(op.group, op.startIndex, op.count, -op.offset)

(* Mutant of InvertChangeSet: the first change is undone first. *)
InvertInOrder(operations) == [k \in DOMAIN operations |-> InvertOperation(operations[k])]

(* ChangeSet::invert *)
InvertChangeSet(operations) ==
  Reverse([k \in DOMAIN operations |-> InvertOperation(operations[k])])

(* applyOperation *)
ApplyOperation(d, op) ==
  CASE op.kind \in {"ItemInserted", "ListInserted"} -> InsertSnapshot(d, op.id, op.item)
    [] op.kind \in Removals -> Done(EraseSnapshot(d, op.id, op.item))
    [] op.kind = "ColumnUpdated" -> UpdateAssociation(d, op.id, op.new, op.targetIndex)
    [] op.kind = "ListRotated" ->
         Done(RotateList(d, op.group, op.startIndex, op.count, op.offset))

(* What insertItemSnapshots plans for the group g: the elements of the run *)
(* that join it, in the order of the run                                   *)
JoiningRecords(run, g) ==
  LET join(records, op) ==
        IF Participates(op.item) /\ op.item.parent = g
          THEN Append(records, [id |-> op.id, index |-> op.item.index])
          ELSE records
  IN  FoldLeft(join, <<>>, run)

(* insertItemSnapshots: all items of the run at once, or none.  They may   *)
(* come in any order of parents and children; the groups they join are     *)
(* planned beforehand and renumbered afterwards.                           *)
InsertItemSnapshots(d, run) ==
  LET item(id) == (CHOOSE k \in DOMAIN run : run[k].id = id)
      ids == {run[k].id : k \in DOMAIN run}
      placed == [d EXCEPT !.items = [id \in Ids |->
                   IF id \in ids THEN run[item(id)].item ELSE @[id]]]
      joined == {run[k].item.parent : k \in {k \in DOMAIN run : Participates(run[k].item)}}
      grouped == [placed EXCEPT !.groups = [g \in Ids |->
                    IF g \in joined THEN PlanGroup(@[g], JoiningRecords(run, g)) ELSE @[g]]]
      renumber(acc, g) == Refresh(acc, g, 0)
  IN  IF /\ Cardinality(ids) = Len(run)
         /\ \A id \in ids : ~Present(d, id) /\ ValidParent(placed, id, placed.items[id])
         /\ \A g \in joined : Plannable(d.groups[g], JoiningRecords(run, g))
        THEN Done(FoldLeft(renumber, grouped, SetToSeq(joined)))
        ELSE Throws(d)

(* The runs applyChangeSet treats as a whole: consecutive item insertions, *)
(* consecutive removals, and every other operation by itself.              *)
Runs(operations) ==
  LET sameRun(a, b) == \/ a.kind = "ItemInserted" /\ b.kind = "ItemInserted"
                       \/ a.kind \in Removals /\ b.kind \in Removals
      extend(runs, op) ==
        IF runs # <<>> /\ sameRun(Last(Last(runs)), op)
          THEN Append(Front(runs), Append(Last(runs), op))
          ELSE Append(runs, <<op>>)
  IN  FoldLeft(extend, <<>>, operations)

(* One operation during applyChangeSet: an insertion that throws is put    *)
(* aside, anything else that throws ends the application.                  *)
StepTo(r, state, op) ==
  IF ~r.ok /\ op.kind \in {"ItemInserted", "ListInserted"}
    THEN [state EXCEPT !.pending = Append(@, op)]
    ELSE [state EXCEPT !.ok = r.ok, !.doc = r.doc]

Step(state, op) ==
  IF state.ok THEN StepTo(ApplyOperation(state.doc, op), state, op) ELSE state

(* A run that is not made at once is made step by step. *)
InsertRun(batch, state, run) ==
  IF batch.ok THEN [state EXCEPT !.doc = batch.doc] ELSE FoldLeft(Step, state, run)

ApplyRun(state, run) ==
  IF ~state.ok THEN state
  ELSE IF Len(run) > 1 /\ run[1].kind \in Removals
    THEN [state EXCEPT !.doc = EraseSnapshots(@, {run[k].id : k \in DOMAIN run})]
  ELSE InsertRun(IF Len(run) > 1 THEN InsertItemSnapshots(state.doc, run)
                 ELSE Throws(state.doc),
                 state, run)

(* One round over the pending insertions *)
Retry(state) == FoldLeft(Step, [state EXCEPT !.pending = <<>>], state.pending)

Outcome(state) == [ok |-> state.ok /\ state.pending = <<>>, doc |-> state.doc]

(* applyChangeSet: the runs in order, then the pending insertions, round   *)
(* after round, at most one for every operation; it throws when some stay  *)
(* pending.  What it has applied by then stays in the document.            *)
ApplyChangeSet(d, operations) ==
  LET start == [ok |-> TRUE, doc |-> d, pending |-> <<>>]
      round(state, op) == Retry(state)
  IN  Outcome(FoldLeft(round, FoldLeft(ApplyRun, start, Runs(operations)), operations))

(* createsUndoStep *)
CreatesUndoStep(operations) ==
  /\ operations # <<>>
  /\ (\A k \in DOMAIN operations : operations[k].kind = "ItemInserted")
       => Len(operations) = 1

=============================================================================
