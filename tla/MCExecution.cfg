SPECIFICATION FairSpec
CONSTANTS
  Targets <- MCTargets
  Levels <- MCLevels
  MaxSessions = 2
  MaxTargets <- MCMaxTargets
  MaxSecond = 0
INVARIANTS
  TypeOK
  ResultsAnswerTheRequest
  ReportsAreHonest
  CompletedSessionsAreReported
  OneTerminalEvent
PROPERTIES
  FreshInventoryAfterCompletion
  ImplementsContract
  SessionsEnd
