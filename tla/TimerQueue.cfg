\* Two connections, three nodes; the clock wraps within two timeouts.
CONSTANTS
  Period = 4
  Timeouts = {1, 2}
  Conns = {c1, c2}
  Nodes = {n1, n2, n3}
  None = None
SPECIFICATION BusySpec
INVARIANT HoldersLinked
PROPERTIES NotEarly NothingOverdue LeavesInTime
CHECK_DEADLOCK FALSE
