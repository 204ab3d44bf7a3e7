----------------------------- MODULE RangeTree -----------------------------
(***************************************************************************)
(* The tree a range index answers conjunctions of comparisons with         *)
(* (ContainerRangeIndex, src/support/runtime_index.cpp): points are halved *)
(* by one dimension after the other; a node knows its points' ids and the  *)
(* bounds of the dimensions that some of its points have.                  *)
(*                                                                         *)
(* A point is [id, values], values a function from the dimensions the item *)
(* has a number in; a constraint is [field, op, value].                    *)
(***************************************************************************)
EXTENDS Integers, Sequences, FiniteSets
LOCAL INSTANCE SequencesExt

CONSTANT LeafSize  \* leafSize: 32 in the code

NoTree == <<>>

(* comparePredicate over numbers, as constraintContains *)
Compare(x, op, y) ==
  CASE op = "=" -> x = y
    [] op = "#" -> x # y
    [] op = ">" -> x > y
    [] op = "<" -> x < y
    [] op = ">=" -> x >= y
    [] op = "<=" -> x <= y

Dimensions(points) == UNION { DOMAIN p.values : p \in points }

Bounds(points) ==
  [d \in Dimensions(points) |->
     LET known == { p.values[d] : p \in { q \in points : d \in DOMAIN q.values } }
     IN  [min |-> CHOOSE x \in known : \A y \in known : x <= y,
          max |-> CHOOSE x \in known : \A y \in known : x >= y]]

(* stable_sort by one dimension; a point without it comes first *)
SplitValue(point, d) == IF d \in DOMAIN point.values THEN point.values[d] ELSE -1
StableSort(points, d) ==
  LET before(i, j) ==
        \/ SplitValue(points[i], d) < SplitValue(points[j], d)
        \/ SplitValue(points[i], d) = SplitValue(points[j], d) /\ i < j
      order == SetToSortSeq(DOMAIN points, before)
  IN  [i \in DOMAIN points |-> points[order[i]]]

(* The lambda "build": dimensions is the sequence of all dimensions. *)
RECURSIVE BuildTree(_, _, _)
BuildTree(points, dimensions, depth) ==
  IF points = <<>> THEN NoTree
  ELSE
    LET all == ToSet(points)
        node == [ids |-> { p.id : p \in all }, bounds |-> Bounds(all),
                 points |-> {}, left |-> NoTree, right |-> NoTree]
        sorted == StableSort(points, dimensions[(depth % Len(dimensions)) + 1])
        mid == Len(points) \div 2
    IN  IF Len(points) <= LeafSize \/ dimensions = <<>>
          THEN [node EXCEPT !.points = all]
          ELSE [node EXCEPT
                  !.left = BuildTree(SubSeq(sorted, 1, mid), dimensions, depth + 1),
                  !.right = BuildTree(SubSeq(sorted, mid + 1, Len(points)), dimensions, depth + 1)]

(* boundsOutside: no number between the bounds satisfies the constraint *)
BoundsOutside(c, b) ==
  CASE c.op = "=" -> c.value < b.min \/ c.value > b.max
    [] c.op = "#" -> b.min = b.max /\ b.min = c.value
    [] c.op = ">" -> b.max <= c.value
    [] c.op = "<" -> b.min >= c.value
    [] c.op = ">=" -> b.max < c.value
    [] c.op = "<=" -> b.min > c.value

(* boundsInside: every number between the bounds satisfies it *)
BoundsInside(c, b) ==
  CASE c.op = "=" -> b.min = b.max /\ b.min = c.value
    [] c.op = "#" -> c.value < b.min \/ c.value > b.max
    [] c.op = ">" -> b.min > c.value
    [] c.op = "<" -> b.max < c.value
    [] c.op = ">=" -> b.min >= c.value
    [] c.op = "<=" -> b.max <= c.value

PointMatches(p, constraints) ==
  \A c \in constraints :
    c.field \in DOMAIN p.values /\ Compare(p.values[c.field], c.op, c.value)

(* The lambda "visit".  A node whose bounds are inside all constraints is  *)
(* taken whole, points without one of the dimensions included.             *)
RECURSIVE Visit(_, _)
Visit(node, constraints) ==
  LET known == \A c \in constraints : c.field \in DOMAIN node.bounds
  IN  IF node = NoTree THEN {}
      ELSE IF ~known \/ \E c \in constraints : BoundsOutside(c, node.bounds[c.field])
        THEN {}
      ELSE IF \A c \in constraints : BoundsInside(c, node.bounds[c.field])
        THEN node.ids
      ELSE IF node.points # {}
        THEN { p.id : p \in { q \in node.points : PointMatches(q, constraints) } }
      ELSE Visit(node.left, constraints) \cup Visit(node.right, constraints)
=============================================================================
