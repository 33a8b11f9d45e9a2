----------------------------- MODULE MCLCDWindow -----------------------------
(* An instance of LCDWindow for TLC. *)
EXTENDS LCDWindow
=============================================================================
