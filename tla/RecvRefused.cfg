\* The driver may refuse a read request.
SPECIFICATION Safety
CONSTANTS
  PerMsg = 2
  MaxChunks = 5
  MaxEvents = 2
  Faults = FALSE
  Refusals = TRUE
INVARIANTS DeinitAssertion
CHECK_DEADLOCK FALSE
