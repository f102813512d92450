\* The GUI and the CLI share one store of two migrations and three rows at most.
\* Users stop.
SPECIFICATION Spec
CONSTANTS
  gui = gui  cli = cli  k1 = k1  k2 = k2  None = None
  Procs = {gui, cli}
  MaxId = 3
  Names = {1, 4}
  Keys = {k1, k2}
  Scripts <- MCScripts
  MaxOps = 2
  MaxOpens = 3
  Kinds = {"create", "clone", "update", "use", "delete", "refresh", "import"}
  Faults = {"crash", "file", "locked"}
INVARIANTS SchemaIsComplete OpensAgain DefaultStands SessionFollowsEdit
CHECK_DEADLOCK FALSE
