CONSTANTS
  t1 = t1
  t2 = t2
  Threads = {t1, t2}
  TTL = 2
  Timeout = 1
  IsAdmin = TRUE
  MaxClock = 6
  MaxInvalidations = 0
SPECIFICATION Spec
INVARIANT ErrorIsRecent
