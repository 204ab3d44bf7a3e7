---------------------------- MODULE IntervalTree ----------------------------
(***************************************************************************)
(* The balanced tree an interval index keeps for each of its groups        *)
(* (IntervalRuntimeIndex::IntervalTree, src/support/runtime_index.cpp): a  *)
(* search tree by (start, end, id), a heap by priority, each node knowing  *)
(* the largest end below it, by which queries skip whole subtrees.         *)
(*                                                                         *)
(* The priority of an entry is a hash of it in the code; here it is any    *)
(* function of the entry, the constant Priority.                           *)
(***************************************************************************)
EXTENDS Integers

CONSTANT Priority(_)  \* priorityForInterval: the heap key of an entry

Nil == <<>>

(* IntervalEntry: [start, end, id] *)
EntryLess(e, f) ==
  \/ e.start < f.start
  \/ e.start = f.start /\ e.end < f.end
  \/ e.start = f.start /\ e.end = f.end /\ e.id < f.id

Leaf(e) ==
  [entry |-> e, maxEnd |-> e.end, priority |-> Priority(e), left |-> Nil, right |-> Nil]

MaxEnd(node, otherwise) == IF node = Nil THEN otherwise ELSE node.maxEnd
Larger(x, y) == IF x < y THEN y ELSE x

(* updateIntervalNode *)
Updated(node) ==
  [node EXCEPT !.maxEnd = Larger(Larger(node.entry.end, MaxEnd(node.left, node.entry.end)),
                                 MaxEnd(node.right, node.entry.end))]

RotateRight(node) ==
  Updated([node.left EXCEPT !.right = Updated([node EXCEPT !.left = node.left.right])])

RotateLeft(node) ==
  Updated([node.right EXCEPT !.left = Updated([node EXCEPT !.right = node.right.left])])

(* insertIntervalNode *)
RECURSIVE Insert(_, _)
Insert(node, e) ==
  LET intoLeft == [node EXCEPT !.left = Insert(node.left, e)]
      intoRight == [node EXCEPT !.right = Insert(node.right, e)]
  IN  CASE node = Nil -> Leaf(e)
        [] node # Nil /\ EntryLess(e, node.entry) ->
             Updated(IF intoLeft.left.priority < node.priority
                       THEN RotateRight(intoLeft) ELSE intoLeft)
        [] node # Nil /\ EntryLess(node.entry, e) ->
             Updated(IF intoRight.right.priority < node.priority
                       THEN RotateLeft(intoRight) ELSE intoRight)
        [] OTHER -> node

(* eraseIntervalNode; an empty tree stays empty *)
UpdatedOrNil(node) == IF node = Nil THEN Nil ELSE Updated(node)

RECURSIVE Erase(_, _)
Erase(node, e) ==
  UpdatedOrNil(
    CASE node = Nil -> Nil
      [] node # Nil /\ EntryLess(e, node.entry) ->
           [node EXCEPT !.left = Erase(node.left, e)]
      [] node # Nil /\ EntryLess(node.entry, e) ->
           [node EXCEPT !.right = Erase(node.right, e)]
      [] node # Nil /\ node.entry = e /\ node.left = Nil -> node.right
      [] node # Nil /\ node.entry = e /\ node.left # Nil /\ node.right = Nil -> node.left
      [] OTHER ->
           IF node.left.priority < node.right.priority
             THEN LET up == RotateRight(node) IN [up EXCEPT !.right = Erase(up.right, e)]
             ELSE LET up == RotateLeft(node) IN [up EXCEPT !.left = Erase(up.left, e)])

(* Mutant of QueryNode: a node that starts too late hides its left subtree. *)
RECURSIVE QueryNodeRightOnly(_, _, _)
QueryNodeRightOnly(node, start, end) ==
  IF node = Nil \/ ~(start < MaxEnd(node, start)) \/ ~(node.entry.start < end)
    THEN {}
    ELSE QueryNodeRightOnly(node.left, start, end)
         \cup (IF start < node.entry.end THEN {node.entry.id} ELSE {})
         \cup QueryNodeRightOnly(node.right, start, end)

(* queryIntervalNode: the ids of entries that overlap (start, end) *)
RECURSIVE QueryNode(_, _, _)
QueryNode(node, start, end) ==
  IF node = Nil \/ ~(start < MaxEnd(node, start))
    THEN {}
    ELSE QueryNode(node.left, start, end)
         \cup (IF node.entry.start < end
                 THEN (IF start < node.entry.end THEN {node.entry.id} ELSE {})
                      \cup QueryNode(node.right, start, end)
                 ELSE {})

(* IntervalTree::query *)
Query(root, start, end, excluded) ==
  IF start < end THEN QueryNode(root, start, end) \ excluded ELSE {}

RECURSIVE Entries(_)
Entries(node) ==
  IF node = Nil THEN {} ELSE {node.entry} \cup Entries(node.left) \cup Entries(node.right)

(* What every tree keeps up: search order, heap order, the right largest end. *)
RECURSIVE WellFormed(_)
WellFormed(node) ==
  node = Nil \/
    /\ \A e \in Entries(node.left) : EntryLess(e, node.entry)
    /\ \A e \in Entries(node.right) : EntryLess(node.entry, e)
    /\ \A child \in {node.left, node.right} \ {Nil} : node.priority <= child.priority
    /\ \A e \in Entries(node) : e.end <= node.maxEnd
    /\ \E e \in Entries(node) : e.end = node.maxEnd
    /\ WellFormed(node.left)
    /\ WellFormed(node.right)
=============================================================================
