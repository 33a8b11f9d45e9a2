------------------------------ MODULE MCThreads ------------------------------
(* Instances of Threads for TLC. *)
EXTENDS Threads

\* No handler tells one critical section from another.
CSSymmetry == Permutations(CriticalSections)
=============================================================================
