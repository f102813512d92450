\* Two tunnels; tasks other than starts may fail.
SPECIFICATION Spec
CONSTANTS
  o1 = o1  o2 = o2  A = A  B = B
  None = None
  Tunnels = {o1, o2}
  Scenarios <- MCOthersFail
  Profiles = {A, B}  MaxId = 2  Hosts = {"g"}  Ports = {1, 2}  NewPort = 1  Blank = Blank
  Relays <- MCRelays  Endpoint <- MCEndpoint  Stored <- MCStored
SYMMETRY Symmetry
INVARIANTS QuitLeavesNothing
CHECK_DEADLOCK FALSE
