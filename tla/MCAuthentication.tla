-------------------------- MODULE MCAuthentication --------------------------
(* Small instances of Authentication for TLC. *)
EXTENDS Authentication, TLC

CONSTANTS c1, c2, c3, p1, p2, a1, a2, a3, d1

Symmetry == Permutations(Callers)
=============================================================================
