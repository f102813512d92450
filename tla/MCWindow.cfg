\* Two profiles, two drives of the first; the mounts, the installer or the profiles
\* at a time, with presses while they run.  The window stops when it is closed.
SPECIFICATION FairSpec
CONSTANTS
  p1 = p1  p2 = p2  d1 = d1  d2 = d2
  Nobody = Nobody
  Profiles = {p1, p2}
  Drives = {d1, d2}
  Home <- MCHome
  MaxPresses <- MCPresses
  Areas = {"mounts", "driver", "profiles"}
  Faults = {"unmount", "observe", "marker"}
INVARIANTS QuitReleasesDrives SettledAgrees
PROPERTIES QuitEnds RowsCatchUp
CHECK_DEADLOCK FALSE
