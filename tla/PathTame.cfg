\* Every path whose last term is a name or has a slash after it.
SPECIFICATION Spec
CONSTANTS
  MaxLen = 8
  Tame = TRUE
INVARIANTS Normalized RoomForUps ValidNamesArePaths
CHECK_DEADLOCK FALSE
