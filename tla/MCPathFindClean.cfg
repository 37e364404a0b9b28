\* Three lookups on a host that never fails and a tree nobody else edits.
SPECIFICATION Spec
CONSTANTS
  PFs = {p1, p2, p3}
  Root = Root
  A = A
  F1 = F1
  F2 = F2
  NoFile = NoFile
  a = a
  b = b
  Files <- FileSet
  Names <- NameSet
  Calls <- CleanCalls
  InitLinks <- LinkSet
  Shared <- NoShared
  Faults = FALSE
INVARIANTS Resolved NoFalseMiss
CHECK_DEADLOCK FALSE
