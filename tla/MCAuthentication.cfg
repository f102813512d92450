\* Two threads, a feature operation and a sign-in with one place in each table, every
\* fault, one profile update.
SPECIFICATION FairSpec
CONSTANTS
  c1 = c1  c2 = c2  c3 = c3  p1 = p1  p2 = p2
  a1 = a1  a2 = a2  a3 = a3  d1 = d1
  Nobody = Nobody
  Callers = {c1, c2}
  Profiles = {p1}
  ActionRequests = {a1}
  DirectRequests = {d1}
  MaxPending = 1
  ChallengeLife = 1
  SessionLife = 1
  MaxClock = 1
  MaxRevision = 2
  Faults = {"reject", "network", "sts", "share"}
INVARIANTS StoresAgree WorksAsCurrentIdentity TablesAgree
PROPERTIES ResumesOnce KeepsDialogs CallsReturn
