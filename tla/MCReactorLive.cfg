\* Two loops and a single descriptor, which goes from loop to loop; no symmetry.
CONSTANTS
  Loops = {l1, l2}
  Fds = {f1}
  Https = {h1, h2}
  None = None
SPECIFICATION FairSpec
INVARIANT TablesOwned
PROPERTIES OutputRetried RequestRead
CHECK_DEADLOCK FALSE
