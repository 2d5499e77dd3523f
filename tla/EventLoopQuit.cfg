\* One task and one other thread are enough to lose a quit.
CONSTANTS
  Tasks = {t1}
  Callers = {p1}
  MaxCounter = 2
SPECIFICATION FairSpec
PROPERTY QuitEnds
CHECK_DEADLOCK FALSE
