------------------------------ MODULE MCSchema ------------------------------
(* Two builders and one restart; a column that every index takes and one    *)
(* that only the group of an ordered or interval index takes.               *)
EXTENDS Schema, TLC

Shapes == {[type |-> "number", indexed |-> TRUE, aggregate |-> TRUE],
           [type |-> "binary", indexed |-> FALSE, aggregate |-> FALSE]}

BuilderSymmetry == Permutations(Builders)
=============================================================================
