\* Every path.
SPECIFICATION Spec
CONSTANTS
  MaxLen = 4
  Tame = FALSE
INVARIANT StaysInside
CHECK_DEADLOCK FALSE
