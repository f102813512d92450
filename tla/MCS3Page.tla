------------------------------ MODULE MCS3Page ------------------------------
(***************************************************************************)
(* Small instances of S3Page: three places, of two profiles.                 *)
(***************************************************************************)
EXTENDS S3Page, TLC

CONSTANTS k1, k2, p1, p2, a1, a2, b1

MCOwner == a1 :> p1 @@ a2 :> p1 @@ b1 :> p2

\* What users do is checked one after another: a session has one purpose.
MCUses == {
  {"upload", "refused", "lost"},
  {"download", "refused", "others"},
  {"rename", "delete", "navigate", "refused", "lost", "others"}}
=============================================================================
