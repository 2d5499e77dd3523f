\* One connection after the other; requests of two reads, a small send buffer.
CONSTANTS
  Loops = {l1}
  Fds = {f1}
  Https = {h1}
  None = None
  MAX_BUFF = 2
  SendBuffer = 2
  MaxSent = 3
  MaxMade = 5
SPECIFICATION FairIO
PROPERTIES Spec Streams AllWritten
CHECK_DEADLOCK FALSE
