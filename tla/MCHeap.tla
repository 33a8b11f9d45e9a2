------------------------------- MODULE MCHeap -------------------------------
(* An instance of Heap for TLC.  The guest's contents are interchangeable. *)
EXTENDS Heap, TLC

TagSymmetry == Permutations(Tags)
=============================================================================
