------------------------------ MODULE MCSecrets ------------------------------
(***************************************************************************)
(* Small instances of Secrets: only one profile sees managed nodes.         *)
(***************************************************************************)
EXTENDS Secrets, TLC

CONSTANTS p1, p2, i1, i2, r1, r2

Symmetry == Permutations(Relays)

MCReach == p1 :> {r1, r2} @@ p2 :> {}
=============================================================================
