CONSTANTS
  BusTypes <- MCBusTypes
  MediaTypes <- MCMediaTypes
  MaxLetters = 2
  MaxAttempts = 3
  StaleLastError = FALSE
SPECIFICATION Spec
INVARIANT DismountedDuringSanitize
