\* One application and two drives that want one letter, or two applications and
\* one drive; every fault.
SPECIFICATION Spec
CONSTANTS
  a1 = a1  a2 = a2  d1 = d1  d2 = d2  g1 = g1  g2 = g2  s = s
  None = None
  Apps = {a1, a2}
  Drives = {d1, d2}
  Targets = {g1, g2}
  Letters = {s}
  Letter <- OneLetter
  Faults = {"crash", "die", "disk", "slow"}
SYMMETRY Symmetry
CONSTRAINT Mix
INVARIANTS DrivesOfOneApplication OneOwner UnsentStaysBound
PROPERTIES LeavesNoVolume
