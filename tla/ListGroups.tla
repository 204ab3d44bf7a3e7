----------------------------- MODULE ListGroups -----------------------------
(***************************************************************************)
(* The order of list elements: what insertIntoListGroup,                   *)
(* removeFromListGroup, rotate and planInsertedListGroups (src/engine.cpp) *)
(* do to one list group, the sequence of the item ids that share a value   *)
(* of the list's association.                                              *)
(*                                                                         *)
(* List indexes count from 0 as in the code: the element at index i of a   *)
(* group g is g[i + 1].  An id occurs in a group once.                     *)
(***************************************************************************)
EXTENDS Integers, SequencesExt

(* Mutant of IndexOf: positions counted from 1. *)
IndexFromOne(group, id) == CHOOSE k \in DOMAIN group : group[k] = id

(* The index at which id stands in group. *)
IndexOf(group, id) == (CHOOSE k \in DOMAIN group : group[k] = id) - 1

(* insertIntoListGroup refuses an index beyond the end. *)
InsertableAt(group, index) == index \in 0..Len(group)

InsertElement(group, index, id) == InsertAt(group, index + 1, id)

(* removeFromListGroup: the recorded index and the search by id find the   *)
(* same place, an id being in a group once.                                *)
RemoveElement(group, id) ==
  IF Contains(group, id) THEN RemoveAt(group, IndexOf(group, id) + 1) ELSE group

(* eraseSnapshots, for one group *)
RetainElements(group, removed) ==
  LET keep(kept, id) == IF id \in removed THEN kept ELSE Append(kept, id)
  IN  FoldLeft(keep, <<>>, group)

(* std::rotate of the count elements from startIndex, offset to the left;  *)
(* a negative offset is brought into 0..(count - 1), as % does here.       *)
RotateWindow(group, startIndex, count, offset) ==
  IF count > 0 /\ startIndex + count <= Len(group)
    THEN [k \in DOMAIN group |->
            IF k \in (startIndex + 1)..(startIndex + count)
              THEN group[startIndex + 1 + ((k - 1 - startIndex + offset) % count)]
              ELSE group[k]]
    ELSE group

-----------------------------------------------------------------------------
(***************************************************************************)
(* Inserting a run of recorded elements, inserts, a sequence of records    *)
(* [id, index], into the group existing.  An index was recorded when the   *)
(* element was removed, at a time when the group had other elements.       *)
(***************************************************************************)

(* The run appends to the group: the indexes are exactly the next ones.    *)
ContiguousTail(existing, inserts) ==
  LET indexes == {inserts[p].index : p \in DOMAIN inserts}
  IN  indexes = Len(existing)..(Len(existing) + Len(inserts) - 1)

(* The positions that may be inserted next, done being those inserted. *)
Ready(existing, inserts, done) ==
  {p \in DOMAIN inserts \ ToSet(done) : inserts[p].index <= Len(existing) + Len(done)}

(* Mutant of NextPosition: every search starts at the first position. *)
FirstReady(ready, done) == Min(ready)

(* The next one at or after the cursor, which follows the one inserted     *)
(* last; past the end, the first one.                                      *)
NextPosition(ready, done) ==
  LET after == {p \in ready : done # <<>> /\ p > Last(done)}
  IN  Min(IF after # {} THEN after ELSE ready)

(* The order of insertion after n positions; it stops short of n when no   *)
(* position is ready.                                                      *)
InsertionOrder(existing, inserts) ==
  LET order[n \in 0..Len(inserts)] ==
        IF n = 0 THEN <<>>
        ELSE LET done == order[n - 1]
                 ready == Ready(existing, inserts, done)
             IN  IF ready = {} THEN done ELSE Append(done, NextPosition(ready, done))
  IN  order[Len(inserts)]

(* The slots up to the k-th that taken leaves free *)
FreeUpTo(taken, k) == {j \in 1..k : \A p \in DOMAIN taken : taken[p] # j}

(* FreeListSlotIndex::take: the free slot behind n free ones *)
FreeSlot(taken, slots, n) ==
  CHOOSE k \in FreeUpTo(taken, slots) : Cardinality(FreeUpTo(taken, k)) = n + 1

(* taken, where the position p has taken slot, too *)
Taking(taken, p, slot) ==
  [q \in DOMAIN taken \cup {p} |-> IF q = p THEN slot ELSE taken[q]]

(* Mutant of TakenSlots: slots are taken from the first insertion to the   *)
(* last.                                                                   *)
SlotsTakenForward(existing, inserts, order) ==
  LET slots == Len(existing) + Len(inserts)
      take(taken, p) ==
        LET last == Cardinality(FreeUpTo(taken, slots)) - 1
            index == IF inserts[p].index < last THEN inserts[p].index ELSE last
        IN  Taking(taken, p, FreeSlot(taken, slots, index))
  IN  FoldLeft(take, << >>, order)

(* The slots of the insertions, assigned from the last insertion to the    *)
(* first: each takes the free slot its index names among those that are    *)
(* free.                                                                   *)
TakenSlots(existing, inserts, order) ==
  LET taken[n \in 0..Len(order)] ==
        IF n = 0 THEN << >>
        ELSE LET p == order[Len(order) - n + 1]
             IN  Taking(taken[n - 1], p,
                        FreeSlot(taken[n - 1], Len(existing) + Len(inserts), inserts[p].index))
  IN  taken[Len(order)]

(* The planned group: the inserted elements in their slots, taken, and the *)
(* existing ones, in their order, in the slots left.                       *)
SlotPlacement(existing, inserts, taken) ==
  [k \in 1..(Len(existing) + Len(inserts)) |->
     IF \E p \in DOMAIN taken : taken[p] = k
       THEN inserts[CHOOSE p \in DOMAIN taken : taken[p] = k].id
       ELSE existing[Cardinality(FreeUpTo(taken, k))]]

(* The plan can be made when every element becomes ready at some point. *)
Plannable(existing, inserts) ==
  \/ ContiguousTail(existing, inserts)
  \/ Len(InsertionOrder(existing, inserts)) = Len(inserts)

(* planInsertedListGroups, for one group *)
PlanGroup(existing, inserts) ==
  IF ContiguousTail(existing, inserts)
    THEN existing \o [k \in DOMAIN inserts |->
           inserts[CHOOSE p \in DOMAIN inserts :
                     inserts[p].index = Len(existing) + k - 1].id]
    ELSE SlotPlacement(existing, inserts,
           TakenSlots(existing, inserts, InsertionOrder(existing, inserts)))

=============================================================================
