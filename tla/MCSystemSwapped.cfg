CONSTANTS
  system = system
  hdd = hdd
  stick = stick
  None = None
  Devices = {system, hdd, stick}
  Facts <- MCFacts
  Numbers <- MCNumbers
  BusTypes <- MCBusTypes
  MediaTypes <- MCMediaTypes
  MaxLetters = 1
  StaleLastError = FALSE
  MaxUnplugs = 1
  MaxSessions = 1
SPECIFICATION Spec
INVARIANT ReportedDiskIsErased
