\* Any call may fail; the user may retry or close.
SPECIFICATION Spec
CONSTANTS
  PerMsg = 2
  MaxChunks = 5
  MaxEvents = 2
  Faults = TRUE
  Refusals = TRUE
INVARIANTS TypeOK SingleRead NoLostWakeup NoStrandedMessage NoReadOutlives
PROPERTY AllDelivered
CHECK_DEADLOCK FALSE
