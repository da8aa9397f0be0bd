CONSTANTS
  BusTypes <- MCBusTypes
  MediaTypes <- MCMediaTypes
  MaxLetters = 1
  MaxBlocks = 2
  StaleLastError = FALSE
SPECIFICATION Spec
PROPERTY RenamedBeforeOverwrite
