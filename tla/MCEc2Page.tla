------------------------------ MODULE MCEc2Page ------------------------------
(* Two profiles and two regions; one instance at home in each profile. *)
EXTENDS Ec2Page

CONSTANTS p1, p2, r1, r2, i1, i2

MCScope(i) == IF i = i1 THEN <<p1, r1>> ELSE <<p2, r2>>
=============================================================================
