----------------------------- MODULE MCContexts -----------------------------
(* Instances of Contexts for TLC. *)
EXTENDS Contexts
=============================================================================
