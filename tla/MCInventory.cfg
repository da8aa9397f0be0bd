CONSTANTS
  t1 = t1
  t2 = t2
  Threads = {t1, t2}
  TTL = 2
  Timeout = 1
  IsAdmin = FALSE
  MaxClock = 4
  MaxInvalidations = 1
SPECIFICATION FairSpec
INVARIANTS
  TypeOK
  BoundedStaleness
  ForceIsFresh
  StaleDataFades
PROPERTY CallsReturn
