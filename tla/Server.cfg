\* Two loops; the third descriptor is beyond the limit.
CONSTANTS
  NumThreads = 2
  NFds = 3
  MAXFDS = 3
  MaxBacklog = 2
SPECIFICATION FairServer
INVARIANTS LoopsUsable ThreadOutlived BacklogWatched FdHeld
PROPERTIES Started QuitTaken Adopted
CHECK_DEADLOCK FALSE
