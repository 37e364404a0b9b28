\* Requests of two chunks, at most three accepted; replies of two chunks.
SPECIFICATION Spec
CONSTANTS
  PerReq = 2
  Base = 1
  MaxMem = 5
  SizeMax = 15
  Cumulative = TRUE
  MaxSent = 6
  MaxRefused = 1
  BadInput = TRUE
  PerMsg = 2
  MaxEvents = 2
  MaxWrites = 2
  Faults = TRUE
INVARIANTS TypeOK NoStrandedRequest AccountExact DeinitAssertion
PROPERTIES RefinesRecv RequestsAnswered
CHECK_DEADLOCK FALSE
