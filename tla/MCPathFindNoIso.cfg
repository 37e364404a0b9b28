\* A lookup of an absolute path by a caller that gives a base and no iso.
SPECIFICATION Spec
CONSTANTS
  PFs = {p1}
  Root = Root
  A = A
  F1 = F1
  F2 = F2
  NoFile = NoFile
  a = a
  b = b
  Files <- FileSet
  Names <- NameSet
  Calls <- NoIsoCalls
  InitLinks <- LinkSet
  Shared <- NoShared
  Faults = FALSE
INVARIANT RootLookupHasIso
CHECK_DEADLOCK FALSE
