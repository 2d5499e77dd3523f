\* One loop, two connections at a time, descriptors and objects reused.
CONSTANTS
  Loops = {l1}
  Fds = {f1, f2}
  Https = {h1, h2}
  None = None
SPECIFICATION Spec
SYMMETRY Symmetry
INVARIANTS HandlerAlive OneTimer TimerGuard Attended NoLostEdge
PROPERTY NoCutResponse
CHECK_DEADLOCK FALSE
