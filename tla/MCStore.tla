------------------------------ MODULE MCStore ------------------------------
(* Small instances of Store. *)
EXTENDS Store

CONSTANTS gui, cli, k1, k2

MCScripts == <<2, 1>>
=============================================================================
