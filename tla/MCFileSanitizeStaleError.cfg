CONSTANTS
  BusTypes <- MCBusTypes
  MediaTypes <- MCMediaTypes
  MaxLetters = 1
  MaxBlocks = 2
  StaleLastError = TRUE
SPECIFICATION Spec
INVARIANT FailuresAreNotSuccess
