----------------------------- MODULE MCUIEvents -----------------------------
(* An instance of UIEvents for TLC. *)
EXTENDS UIEvents

\* A key of the main block, the same key of the numeric pad, and a key that the
\* keymap does not know.
MCVirtualKeys == {"1", "VK_NUMPAD1", "VK_F1"}
=============================================================================
