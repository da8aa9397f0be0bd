CONSTANTS
  f1 = f1
  d1 = d1
  Files = {f1}
  Disks = {d1}
  MaxThreads = 2
  MaxToken = 2
  MaxSessions = 1
SPECIFICATION Spec
PROPERTY ShownBeforeExecuted
CHECK_DEADLOCK FALSE
