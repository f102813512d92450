\* Two threads; two connections of different kinds, or one and every fault.
SPECIFICATION FairSpec
CONSTANTS
  c1 = c1  c2 = c2  c3 = c3  t1 = t1  t2 = t2
  e1 = e1  e2 = e2  r1 = r1  p1 = p1  p2 = p2
  Nobody = Nobody
  Callers = {c1, c2}
  Tunnels = {t1}
  Terminals = {e1}
  Runs = {r1}
  Profiles = {p1}
  Scenarios <- MCScenarios
INVARIANTS EndedOnce NothingLeaks
PROPERTIES DeletesWhenClean CallsReturn
