---------------------------- MODULE MCSharedData ----------------------------
(* Two threads, three pointer objects, enough blocks for each of them to    *)
(* own one and for each thread to be making one.                            *)
EXTENDS SharedData, TLC

Symmetry == Permutations(Threads) \cup Permutations(Blocks)
=============================================================================
