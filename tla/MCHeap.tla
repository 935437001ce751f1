------------------------------- MODULE MCHeap -------------------------------
(* Heap with interchangeable nodes. *)
EXTENDS Heap, TLC

Symmetry == Permutations(Nodes)
=============================================================================
