CONSTANTS
  f1 = f1
  d1 = d1
  Files = {f1}
  Disks = {d1}
  MaxThreads = 2
  MaxToken = 2
  MaxSessions = 2
SPECIFICATION FairSpec
INVARIANTS
  TypeOK
  PreflightIsUnderWay
  ReadyMeansCurrent
  OneSession
  SelectionIsVisible
PROPERTIES
  RefreshIsNotForgotten
  ReadySessionsWereReviewed
  ImplementsContract
  PreflightSettles
  SessionSettles
CHECK_DEADLOCK FALSE
