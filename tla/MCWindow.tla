------------------------------ MODULE MCWindow ------------------------------
(* Small instances of Window. *)
EXTENDS Window

CONSTANTS p1, p2, d1, d2

MCHome == [d \in Drives |-> p1]
MCPresses == [a \in Areas |-> IF a = "driver" THEN 1 ELSE 2]
=============================================================================
