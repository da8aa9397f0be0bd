CONSTANTS
  BusTypes <- MCBusTypes
  MediaTypes <- MCMediaTypes
  MaxLetters = 1
  MaxBlocks = 3
  StaleLastError = FALSE
SPECIFICATION FairSpec
INVARIANTS
  TypeOK
  ReleasedOnlyWhenOverwritten
  FallbackSuccessLeavesNothing
PROPERTIES
  ImplementsContract
  Termination
