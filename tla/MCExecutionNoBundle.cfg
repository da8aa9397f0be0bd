SPECIFICATION Spec
CONSTANTS
  Targets <- MCTarget
  Levels <- MCLevels
  MaxSessions = 1
  MaxTargets <- MCOneTarget
  MaxSecond = 1
PROPERTY
  BundleIsAlwaysBuilt
