------------------------------- MODULE Hooks --------------------------------
(***************************************************************************)
(* One transaction whose BeforeApply hooks write through their             *)
(* TransactionContext (src/engine.cpp).  A write that has been validated   *)
(* waits for its hooks; each of them may write, which starts another such  *)
(* write on a copy of the Transaction::Impl, copied back when it is done,  *)
(* or may change the values that are about to be applied.  Any exception   *)
(* ends the transaction.                                                   *)
(*                                                                         *)
(* The items are rows of one table without relations, with a plain column  *)
(* a, a unique column u and a column computed of both.  What hooks do is   *)
(* the application's; here it is anything, within the limits of Careless,  *)
(* except that hooks let exceptions pass.                                  *)
(***************************************************************************)
EXTENDS Integers, FiniteSets, SequencesExt

CONSTANTS
  MaxId,         \* bound: ids given out
  InitialItems,  \* items of the document at the start
  MaxOps,        \* bound: operations of a transaction, computed columns apart
  MaxHookDepth,  \* maxHookDepth
  Careless       \* what hooks do although it goes wrong: "overlap" writes of
                 \*   items that a write under way is about to change,
                 \*   "uniques" writes of u while an update waits

ASSUME HooksAssumption ==
  /\ MaxId \in Nat /\ InitialItems \in 0..MaxId
  /\ MaxOps \in Nat /\ MaxHookDepth \in Nat \ {0}
  /\ Careless \subseteq {"overlap", "uniques"}

VARIABLES
  doc,     \* Impl::items
  base,    \* the document when the transaction began
  nextId,  \* the id generateItemId returns next
  open,    \* is the transaction active?
  tx,      \* its Transaction::Impl: change set and rollbackItems
  frames   \* the writes under way, each one but the first in a hook of the
           \*   one before it

vars == <<doc, base, nextId, open, tx, frames>>

Ids == 1..MaxId
Columns == {"a", "u"}
Null == 0                       \* only of column u
ValuesOf(column) == IF column = "a" THEN {1, 2} ELSE {Null, 1, 2}

(* recomputeComputedColumns: some function of the other columns *)
Computed(a, u) == <<a, u>>
Item(a, u) == [a |-> a, u |-> u, c |-> Computed(a, u)]
Absent == [a |-> Null, u |-> Null, c |-> Computed(Null, Null)]
Recomputed(item) == [item EXCEPT !.c = Computed(item.a, item.u)]

Present(d, id) == d[id] # Absent
-----------------------------------------------------------------------------
(* Change sets *)

Inserted(id, item) == [kind |-> "ItemInserted", id |-> id, item |-> item]
Removed(id, item) == [kind |-> "ItemRemoved", id |-> id, item |-> item]
Updated(id, column, old, new) ==
  [kind |-> "ColumnUpdated", id |-> id, column |-> column, old |-> old, new |-> new]

(* What recomputeComputedColumns adds to a change set: the computed column, *)
(* if it has changed                                                       *)
ComputedOperations(id, old, new) ==
  IF old = new THEN <<>> ELSE <<Updated(id, "c", old, new)>>

(* insertChangeSetForSnapshot: the item that is inserted has the computed  *)
(* column already, and nevertheless a change of it from null comes behind. *)
InsertOperations(id, item) ==
  <<Inserted(id, item)>> \o ComputedOperations(id, Absent.c, item.c)

(* updateChangeSetForSnapshot *)
UpdateOperations(id, column, old, new) ==
  <<Updated(id, column, old[column], new[column])>> \o ComputedOperations(id, old.c, new.c)

(* invertOperation, ChangeSet::invert *)
InvertOperation(op) ==
  CASE op.kind = "ItemInserted" -> Removed(op.id, op.item)
    [] op.kind = "ItemRemoved" -> Inserted(op.id, op.item)
    [] OTHER -> Updated(op.id, op.column, op.new, op.old)

Invert(ops) == Reverse([k \in DOMAIN ops |-> InvertOperation(ops[k])])

(* validateUniqueColumns; the column does not take part when null *)
UniqueFree(d, id, item) ==
  item.u # Null => \A other \in Ids \ {id} : d[other].u # item.u

(* applyOperation; the result of one that throws is Broken.  A computed    *)
(* column is set like another one.                                         *)
Broken == << >>

ApplyOperation(d, op) ==
  IF d = Broken THEN Broken
  ELSE CASE op.kind = "ItemInserted" ->
              IF UniqueFree(d, op.id, op.item) THEN [d EXCEPT ![op.id] = op.item] ELSE Broken
         [] op.kind = "ItemRemoved" -> [d EXCEPT ![op.id] = Absent]
         [] OTHER ->
              LET new == [d[op.id] EXCEPT ![op.column] = op.new]
              IN  IF Present(d, op.id) /\ (op.column = "u" => UniqueFree(d, op.id, new))
                    THEN [d EXCEPT ![op.id] = new] ELSE Broken

(* applyChangeSet, without its second tries of an insertion: no change set *)
(* here has an insertion that fails                                        *)
Apply(d, ops) == FoldLeft(ApplyOperation, d, ops)
-----------------------------------------------------------------------------
(* The writes under way *)

EmptyTx == [ops |-> <<>>, journal |-> << >>]

(* recordRollbackItem: what an item first was is kept. *)
Recorded(journal, id, item) ==
  [k \in DOMAIN journal \cup {id} |-> IF k \in DOMAIN journal THEN journal[k] ELSE item]

(* restoreRollbackJournal *)
Restored(d, journal) ==
  [id \in Ids |-> IF id \in DOMAIN journal THEN journal[id] ELSE d[id]]

InHook == frames # <<>>
Top == Last(frames)
CurrentTx == IF InHook THEN Top.tx ELSE tx

(* The operations that MaxOps bounds: those of computed columns come with  *)
(* them.                                                                   *)
Counted(ops) == {k \in DOMAIN ops : ops[k].kind = "ColumnUpdated" => ops[k].column # "c"}

(* The context of the hooks that run now *)
MayWrite ==
  /\ open
  /\ InHook => Top.phase = "before"
  /\ Cardinality(Counted(CurrentTx.ops)) + Len(frames) < MaxOps

(* pendingBeforeApplySnapshot: that of the innermost insert or update      *)
PendingFrames == {k \in DOMAIN frames : frames[k].kind # "remove"}
Pending == Max(PendingFrames)

(* What careful hooks leave alone *)
Overlaps(id) == \E k \in DOMAIN frames : frames[k].id = id
UpdateWaits == \E k \in DOMAIN frames : frames[k].kind = "update"
MayTouch(id) == "overlap" \in Careless \/ ~Overlaps(id)
MaySetUnique == "uniques" \in Careless \/ ~UpdateWaits

(* A write, validated, comes to its BeforeApply hooks: runHooks throws at  *)
(* the maximum depth.                                                      *)
Start(frame) ==
  /\ MayWrite
  /\ Len(frames) < MaxHookDepth
  /\ frames' = Append(frames, frame)
  /\ UNCHANGED <<doc, base, open, tx>>

Frame(kind, id, column, old, new) ==
  [kind |-> kind, id |-> id, column |-> column, old |-> old, new |-> new,
   phase |-> "before", tx |-> CurrentTx]

Insert(a, u) ==
  /\ nextId <= MaxId
  /\ u # Null => MaySetUnique
  /\ UniqueFree(doc, nextId, Item(a, u))
  /\ Start(Frame("insert", nextId, "none", Absent, Item(a, u)))
  /\ nextId' = nextId + 1

RemoveItem(id) ==
  /\ Present(doc, id) /\ MayTouch(id)
  /\ Start(Frame("remove", id, "none", doc[id], Absent))
  /\ UNCHANGED nextId

Update(id, column, value) ==
  LET new == Recomputed([doc[id] EXCEPT ![column] = value])
  IN  /\ Present(doc, id) /\ MayTouch(id)
      /\ column = "u" => MaySetUnique /\ UniqueFree(doc, id, new)
      /\ Start(Frame("update", id, column, doc[id], new))
      /\ UNCHANGED nextId

(* Mutant of PendingOperations: they are left to the write itself. *)
NoPendingOperations(source, column, value) == <<>>

(* What the change set gets of an update of a pending item: if it is new,  *)
(* nothing, its insertion will have the value.                             *)
PendingOperations(source, column, value) ==
  IF source.kind = "update"
    THEN <<Updated(source.id, column, source.new[column], value)>> ELSE <<>>

(* updatePendingBeforeApplySource: a hook updates the item whose write it  *)
(* waits for, in the snapshot that will be applied.  The column that is    *)
(* being updated it may not change.                                        *)
UpdatePending(column, value) ==
  LET source == frames[Pending]
      new == Recomputed([source.new EXCEPT ![column] = value])
  IN  /\ MayWrite
      /\ PendingFrames # {}
      /\ source.column # column
      /\ column = "u" => MaySetUnique /\ UniqueFree(doc, source.id, new)
      /\ frames' = [k \in DOMAIN frames |->
           [frames[k] EXCEPT
              !.new = IF k = Pending THEN new ELSE @,
              !.tx.ops = IF k = Len(frames)
                           THEN @ \o PendingOperations(source, column, value) ELSE @]]
      /\ UNCHANGED <<doc, base, nextId, open, tx>>

(* The operation change of a write, made again after its hooks             *)
OperationsOf(frame) ==
  CASE frame.kind = "insert" -> InsertOperations(frame.id, frame.new)
    [] frame.kind = "remove" -> <<Removed(frame.id, frame.old)>>
    [] OTHER -> UpdateOperations(frame.id, frame.column, frame.old, frame.new)

(* Mutant of Applicable: an insert is not validated again. *)
AlwaysApplicable(frame) == TRUE

(* insertSnapshot validates again, updates and removals do not. *)
Applicable(frame) ==
  frame.kind = "insert" => UniqueFree(doc, frame.id, frame.new)

(* The BeforeApply hooks have returned: the write is recorded in the       *)
(* journal, if it is the first one of the item, and applied.  What its     *)
(* AfterApply hooks and subscribers do is read.                            *)
ApplyTop ==
  /\ InHook /\ Top.phase = "before"
  /\ Applicable(Top)
  /\ doc' = [doc EXCEPT ![Top.id] = Top.new]
  /\ frames' = [frames EXCEPT ![Len(frames)].phase = "after",
                              ![Len(frames)].tx =
                   [ops |-> @.ops \o OperationsOf(Top),
                    journal |-> Recorded(@.journal, Top.id, doc[Top.id])]]
  /\ UNCHANGED <<base, nextId, open, tx>>

(* Mutant of CopiedBack: only the change set is. *)
ChangeSetCopiedBack(outer, nested) == [outer EXCEPT !.ops = nested.ops]

(* What a TransactionContext method does with the copy it wrote through *)
CopiedBack(outer, nested) == nested

(* The write returns, to the client or to the hook that made it. *)
Return ==
  /\ InHook /\ Top.phase = "after"
  /\ LET outer == Front(frames)
     IN  IF outer = <<>>
           THEN tx' = CopiedBack(tx, Top.tx) /\ frames' = <<>>
           ELSE /\ frames' = [outer EXCEPT ![Len(outer)].tx = CopiedBack(@, Top.tx)]
                /\ UNCHANGED tx
  /\ UNCHANGED <<doc, base, nextId, open>>

(* Something throws: a validation, a hook, a subscriber, runHooks for its  *)
(* depth, a hook's write in a stage that does not allow it.  markFailed    *)
(* restores what the innermost write had recorded; the exception ends the  *)
(* writes around it, whose journals record less.                           *)
Fail ==
  /\ open
  /\ doc' = Restored(doc, CurrentTx.journal)
  /\ open' = FALSE
  /\ frames' = <<>>
  /\ tx' = EmptyTx
  /\ UNCHANGED <<base, nextId>>
-----------------------------------------------------------------------------
(* The client *)

Init ==
  /\ doc = [id \in Ids |-> IF id <= InitialItems THEN Item(1, id) ELSE Absent]
  /\ base = doc
  /\ nextId = InitialItems + 1
  /\ open = FALSE
  /\ tx = EmptyTx
  /\ frames = <<>>

Begin == ~open /\ open' = TRUE /\ UNCHANGED <<doc, base, nextId, tx, frames>>

(* Transaction::commit; the hooks around it cannot write. *)
Commit ==
  /\ open /\ ~InHook
  /\ base' = doc
  /\ open' = FALSE
  /\ tx' = EmptyTx
  /\ UNCHANGED <<doc, nextId, frames>>

Rollback ==
  /\ open /\ ~InHook
  /\ doc' = Apply(doc, Invert(tx.ops))
  /\ open' = FALSE
  /\ tx' = EmptyTx
  /\ UNCHANGED <<base, nextId, frames>>

Next ==
  \/ Begin
  \/ \E a \in ValuesOf("a"), u \in ValuesOf("u") : Insert(a, u)
  \/ \E id \in Ids : RemoveItem(id)
  \/ \E column \in Columns : \E value \in ValuesOf(column) :
       \/ \E id \in Ids : Update(id, column, value)
       \/ UpdatePending(column, value)
  \/ ApplyTop
  \/ Return
  \/ Fail
  \/ Commit
  \/ Rollback

Spec == Init /\ [][Next]_vars
-----------------------------------------------------------------------------
(***************************************************************************)
(* Properties                                                              *)
(***************************************************************************)

(* Whatever hooks added to it or changed in what was about to be applied,  *)
(* the change set of a transaction leads from the document it began with   *)
(* to the one it made, computed columns included, and its inverse leads    *)
(* back.                                                                   *)
ChangeSetExplainsDocument ==
  open /\ ~InHook => Apply(base, tx.ops) = doc /\ Apply(doc, Invert(tx.ops)) = base

(* A failure, at any depth of hooks, leaves nothing of the transaction:    *)
(* neither the client's writes nor those its hooks made in between.        *)
FailureUndoesEverything == ~open => doc = base

(* Two items never share a value of the unique column, even when a hook    *)
(* takes the value that an insert under way was validated with.            *)
UniqueValues ==
  \A i, j \in Ids : i # j /\ doc[i].u = doc[j].u => doc[i].u = Null

=============================================================================
