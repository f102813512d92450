---------------------------- MODULE MCDriveMount ----------------------------
(* Small instances of DriveMount.                                          *)
EXTENDS DriveMount, TLC

CONSTANTS a1, a2, d1, d2, g1, g2, s

\* All drives want the same letter.
OneLetter == [d \in Drives |-> s]

\* One application with two drives, or two applications that share one drive.
Mix == Cardinality(acted) <= 1 \/ row[d2] = "unsaved"

Symmetry == Permutations(Targets) \cup Permutations(Apps)
=============================================================================
