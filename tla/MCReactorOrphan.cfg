\* One connection is enough for output that nobody watches.
CONSTANTS
  Loops = {l1}
  Fds = {f1}
  Https = {h1}
  None = None
SPECIFICATION Spec
INVARIANT OutputWatched
CHECK_DEADLOCK FALSE
