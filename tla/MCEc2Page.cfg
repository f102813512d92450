\* The EC2 page of two profiles: lists, starts and terminals.  The page is
\* idle when nothing is pressed.
SPECIFICATION FairSpec
CHECK_DEADLOCK FALSE
CONSTANTS
  p1 = p1
  p2 = p2
  r1 = r1
  r2 = r2
  i1 = i1
  i2 = i2
  Profiles = {p1, p2}
  Regions = {r1, r2}
  Instances = {i1, i2}
  Scope <- MCScope
  Terminals = {"o1"}
  None = None
  Stopped = {i1}
  MaxChanges = 2
  MaxTasks = 2
INVARIANTS RowsAreOfTheScope
PROPERTIES BusyEnds StartedIsSeen
