------------------------------ MODULE MCEvents ------------------------------
(* Cells and subscribers are interchangeable. *)
EXTENDS Events

Symmetry == Permutations(Cells) \cup Permutations(Subscribers)

=============================================================================
