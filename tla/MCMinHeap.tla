------------------------------ MODULE MCMinHeap ------------------------------
EXTENDS MinHeap, TLC

(* The heap treats all nodes alike. *)
Symmetry == Permutations(Node)
=============================================================================
