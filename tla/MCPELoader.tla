----------------------------- MODULE MCPELoader -----------------------------
(* An instance of PELoader for TLC. *)
EXTENDS PELoader

\* No handler tells one file name from another.
DllSymmetry == Permutations(Dlls)
=============================================================================
