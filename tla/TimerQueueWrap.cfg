\* One connection, whose deleted node waits behind one that never expires.
CONSTANTS
  Period = 4
  Timeouts = {1, 2}
  Conns = {c1}
  Nodes = {n1, n2}
  None = None
SPECIFICATION BusySpec
PROPERTY DeletedLeaves
CHECK_DEADLOCK FALSE
