\* Two lookups against failures, timeouts and a client that removes entries.
SPECIFICATION Spec
CONSTANTS
  PFs = {p1, p2}
  Root = Root
  A = A
  F1 = F1
  F2 = F2
  NoFile = NoFile
  a = a
  b = b
  Files <- FileSet
  Names <- NameSet
  Calls <- FaultyCalls
  InitLinks <- LinkSet
  Shared <- Edited
  Faults = TRUE
INVARIANTS TypeOK OneOutstanding EditsExcludeLookups
PROPERTIES UntouchedAfterReport RefinesWalk EveryLookupReports
