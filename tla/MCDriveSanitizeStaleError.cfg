CONSTANTS
  BusTypes <- MCBusTypes
  MediaTypes <- MCMediaTypes
  MaxLetters = 2
  MaxAttempts = 3
  StaleLastError = TRUE
SPECIFICATION Spec
PROPERTY RefusalsAreNotSuccess
