------------------------------ MODULE OneShot -------------------------------
(***************************************************************************)
(* What the two operation coordinators promise together, with no word of   *)
(* tables, locks, threads or AWS: a request that had to wait for an MFA    *)
(* code is offered once, claimed by at most one resume, and then either    *)
(* delivered exactly once or closed for good.                              *)
(***************************************************************************)
EXTENDS Naturals

CONSTANT Requests

VARIABLES fate, runs

Fates == {"unused", "running", "offered", "claimed", "delivered", "closed"}

TypeOK == fate \in [Requests -> Fates] /\ runs \in [Requests -> Nat]

Init == fate = [r \in Requests |-> "unused"] /\ runs = [r \in Requests |-> 0]

\* One request goes on, and any number of overdue offers close with it.
Offers == {k \in Requests : fate[k] = "offered"}

Move(r, from, to) ==
  /\ fate[r] \in from
  /\ \E dead \in SUBSET Offers :
       fate' = [k \in Requests |-> IF k = r THEN to
                                   ELSE IF k \in dead THEN "closed" ELSE fate[k]]
  /\ UNCHANGED runs

Start(r) == Move(r, {"unused"}, "running")
Offer(r) == Move(r, {"running"}, "offered")
Claim(r) == Move(r, {"offered"}, "claimed")
Close(r) == Move(r, {"running", "offered", "claimed"}, "closed")

Deliver(r) ==
  /\ fate[r] = "claimed"
  /\ fate' = [fate EXCEPT ![r] = "delivered"]
  /\ runs' = [runs EXCEPT ![r] = @ + 1]

Lapse ==
  /\ \E dead \in SUBSET Offers :
       fate' = [k \in Requests |-> IF k \in dead THEN "closed" ELSE fate[k]]
  /\ UNCHANGED runs

Next ==
  \/ \E r \in Requests :
       Start(r) \/ Offer(r) \/ Claim(r) \/ Close(r) \/ Deliver(r)
  \/ Lapse

Spec == Init /\ [][Next]_<<fate, runs>>

\* What follows from the promise: nothing is delivered twice, and a request
\* that was closed never ran.
AtMostOnce == \A r \in Requests : runs[r] = IF fate[r] = "delivered" THEN 1 ELSE 0
=============================================================================
