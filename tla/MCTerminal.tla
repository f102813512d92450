----------------------------- MODULE MCTerminal -----------------------------
(* One terminal session; nothing is bounded. *)
EXTENDS Terminal
=============================================================================
