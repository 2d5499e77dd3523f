\* Three tasks, two other threads, an eventfd that is full at 2.
CONSTANTS
  Tasks = {t1, t2, t3}
  Callers = {p1, p2}
  MaxCounter = 2
SPECIFICATION FairSpec
INVARIANT NoLostWakeup
PROPERTIES FifoSpec QueuedRuns RunningQuits
CHECK_DEADLOCK FALSE
