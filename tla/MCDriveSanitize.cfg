CONSTANTS
  BusTypes <- MCBusTypes
  MediaTypes <- MCMediaTypes
  MaxLetters = 2
  MaxAttempts = 3
  StaleLastError = FALSE
SPECIFICATION FairSpec
INVARIANTS
  TypeOK
  MediaTouchedOnlyIfPermitted
  ClaimsAreEarned
  RetriesOnlyTransientErrors
  EveryLockReleased
PROPERTIES
  ImplementsContract
  Termination
