--------------------------- MODULE MCConnections ----------------------------
(***************************************************************************)
(* Small instances of Connections.                                         *)
(***************************************************************************)
EXTENDS Connections, TLC

CONSTANTS c1, c2, c3, t1, t2, e1, e2, r1, p1, p2

Symmetry == Permutations(Callers)

\* A tunnel beside a terminal or a foreground session, and each kind of managed
\* connection with every fault.
MCScenarios == {
  [ops |-> {t1, e1}, faults |-> {}],
  [ops |-> {t1, r1}, faults |-> {"end"}],
  [ops |-> {t1}, faults |-> FaultKinds],
  [ops |-> {e1}, faults |-> FaultKinds]}
\* One terminal, and nothing fails.
MCTerminalOnly == {[ops |-> {e1}, faults |-> {}]}
=============================================================================
