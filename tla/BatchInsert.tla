---------------------------- MODULE BatchInsert -----------------------------
(***************************************************************************)
(* Putting recorded elements back into one list group.  When several of    *)
(* them follow one another in a change set, applyChangeSet plans the whole *)
(* group at once (insertItemSnapshots and planInsertedListGroups); an      *)
(* element on its own is inserted at its recorded index, or, when the      *)
(* group is still too short, put aside and tried again.                    *)
(*                                                                         *)
(* A list loses elements one at a time, each recorded with its index; then *)
(* the change set that removed them is inverted and applied.               *)
(***************************************************************************)
EXTENDS ListGroups

CONSTANTS
  ListSize,      \* elements of the list at the start
  MaxRemovals    \* bound: elements removed before they are put back

ASSUME BatchInsertAssumption ==
  /\ ListSize \in Nat
  /\ MaxRemovals \in 0..ListSize

VARIABLES
  group,      \* the list group, a sequence of ids
  removed,    \* the records [id, index] of the removals, latest first: the
              \*   order in which the inverse change set inserts them
  mixed,      \* did a cascade follow other removals, recording elements in
              \*   another order than from the last to the first?
  reinserted  \* the group after the inverse, NotYet before it

vars == <<group, removed, mixed, reinserted>>

Elements == 1..ListSize

NotYet == <<0>>

Records == [id : Elements, index : 0..(ListSize - 1)]

TypeOK ==
  /\ group \in Seq(Elements)
  /\ removed \in Seq(Records) /\ Len(removed) <= MaxRemovals
  /\ mixed \in BOOLEAN
  /\ reinserted = NotYet \/ reinserted \in Seq(Elements)

FullList == [k \in 1..ListSize |-> k]

Init ==
  /\ group = FullList
  /\ removed = <<>>
  /\ mixed = FALSE
  /\ reinserted = NotYet

(* Transaction::remove or removeAt of an element *)
RemoveOne(id) ==
  /\ reinserted = NotYet
  /\ Len(removed) < MaxRemovals
  /\ Contains(group, id)
  /\ removed' = <<[id |-> id, index |-> IndexOf(group, id)]>> \o removed
  /\ group' = RemoveElement(group, id)
  /\ UNCHANGED <<mixed, reinserted>>

(* Transaction::remove of the list's parent: all that is left of the list  *)
(* goes, each element recorded with its index before any of them went, in  *)
(* an arbitrary order, that of the engine's hash map.                      *)
RemoveAll(order) ==
  /\ reinserted = NotYet
  /\ group # <<>>
  /\ Len(removed) + Len(group) <= MaxRemovals
  /\ removed' = Reverse([k \in DOMAIN order |->
                   [id |-> order[k], index |-> IndexOf(group, order[k])]]) \o removed
  /\ group' = <<>>
  /\ mixed' = (removed # <<>> /\ order # Reverse(group))
  /\ UNCHANGED reinserted

(* applyChangeSet of the inverse: its insertions form one run. *)
Reinsert ==
  /\ reinserted = NotYet
  /\ Plannable(group, removed)
  /\ reinserted' = PlanGroup(group, removed)
  /\ UNCHANGED <<group, removed, mixed>>

Next ==
  \/ \E id \in Elements : RemoveOne(id)
  \/ \E order \in SetToSeqs(ToSet(group)) : RemoveAll(order)
  \/ Reinsert

Spec == Init /\ [][Next]_vars
-----------------------------------------------------------------------------
(* One pass of applyOperation over the records still pending: those whose  *)
(* index the group allows by then are inserted, the others kept.           *)
OnePass(state) ==
  LET try(s, record) ==
        IF InsertableAt(s.group, record.index)
          THEN [s EXCEPT !.group = InsertElement(@, record.index, record.id)]
          ELSE [s EXCEPT !.pending = Append(@, record)]
  IN  FoldLeft(try, [group |-> state.group, pending |-> <<>>], state.pending)

(* The passes of applyChangeSet over its pending insertions *)
RetriedInserts(existing, inserts) ==
  LET pass[n \in 0..Len(inserts)] ==
        IF n = 0 THEN [group |-> existing, pending |-> inserts]
        ELSE OnePass(pass[n - 1])
  IN  pass[Len(inserts)]

(* Planning a group gives what inserting its elements one by one, with     *)
(* retries, gives; and there is a plan exactly when the retries succeed.   *)
PlanMatchesRetries ==
  LET retried == RetriedInserts(group, removed)
  IN  /\ Plannable(group, removed) <=> retried.pending = <<>>
      /\ reinserted # NotYet => reinserted = retried.group

(* Undoing the removals of a change set puts the list back as it was:      *)
(* single removals, a cascade in any order, and a cascade after single     *)
(* removals that records the elements from the last to the first.          *)
OrderedRemovalsUndone == [][Reinsert /\ ~mixed => reinserted' = FullList]_vars

(* All of them do, whatever order the hash map gives a cascade             *)
(* (include/dini/transaction.h of rollback: "Changes are reversed").       *)
RemovalsUndone == [][Reinsert => reinserted' = FullList]_vars

=============================================================================
