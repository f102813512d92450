\* Two profiles, one secret, two relays of the first profile.  Users stop.
SPECIFICATION SecretsSpec
CONSTANTS
  p1 = p1  p2 = p2  i1 = i1  i2 = i2  r1 = r1  r2 = r2
  None = None
  PageProfiles = {p1, p2}
  Home = p1
  Ids = {i1}
  Relays = {r1, r2}
  Reach <- MCReach
  Uses = {{"relayed"}, {"saved", "reveal"}}
  MaxPolls = 2
  MaxResults = 3
  MaxChanges = 1
  MaxRevisions = 2
SYMMETRY Symmetry
INVARIANTS PageIsOfItsProfile SendsWhatWasAgreed RevealsExpire FlagsAreBacked
CHECK_DEADLOCK FALSE
