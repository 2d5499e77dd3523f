\* Buffers of two lines, dropped when more than two wait; every second write
\* is flushed, and a repeated write may run two lines ahead.
CONSTANTS
  NBuffers = 7
  Capacity = 3
  Limit = 2
  MaxLines = 6
  FlushEveryN = 2
  MaxAhead = 3
SPECIFICATION FairLog
INVARIANTS AssertsHold NoSharing NothingLost DiskInOrder Flushed
PROPERTY OnDisk
CHECK_DEADLOCK FALSE
