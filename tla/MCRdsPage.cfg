\* Two tunnels, or one and more faults, or the editor.  The page stops when its window is closed.
SPECIFICATION FairSpec
CONSTANTS
  o1 = o1  o2 = o2  A = A  B = B
  None = None
  Tunnels = {o1, o2}
  Scenarios <- MCScenarios
  Profiles = {A, B}  MaxId = 2  Hosts = {"g"}  Ports = {1, 2}  NewPort = 1  Blank = Blank
  Relays <- MCRelays  Endpoint <- MCEndpoint  Stored <- MCStored
INVARIANTS QuitIsComplete ConnectsAsShown
PROPERTIES QuitCompletes
CHECK_DEADLOCK FALSE
