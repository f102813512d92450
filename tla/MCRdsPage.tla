----------------------------- MODULE MCRdsPage ------------------------------
(***************************************************************************)
(* Small instances of RdsPage.                                             *)
(***************************************************************************)
EXTENDS RdsPage, TLC

CONSTANTS o1, o2, A, B

Symmetry == Permutations(Tunnels)

\* Two tunnels whose starts may fail late; one tunnel while other tasks fail; the
\* editor of a patient user and of one who is not.
Uses(tunnels, faults) ==
  [tunnels |-> tunnels, faults |-> faults, presses |-> 0, patient |-> FALSE]
Edits(presses_, patient) ==
  [tunnels |-> {}, faults |-> {}, presses |-> presses_, patient |-> patient]
MCScenarios ==
  {Uses({o1, o2}, {"late"}), Uses({o1}, {"other"}), Edits(2, TRUE), Edits(2, FALSE)}
\* Two tunnels, and tasks other than starts fail.
MCOthersFail == {Uses({o1, o2}, {"other"})}

\* Profile A lists two relays, its saved session the second; profile B has none.
MCRelays == A :> <<"x", "y">> @@ B :> <<>>
MCEndpoint == A :> "ea" @@ B :> "eb"
MCStored == {Row(1, A, [host |-> "h", port |-> 2, relay |-> "y"])}
=============================================================================
