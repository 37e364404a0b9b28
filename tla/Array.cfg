\* Any block may be refused, and one that cannot shrink keeps its cells.
SPECIFICATION Spec
CONSTANTS
  Ptr = {a, b}
  NULL = NULL
  Junk = Junk
  MaxN = 4
  GrowFails = TRUE
  ShrinkFails = TRUE
INVARIANT TypeOK
PROPERTIES ListUnlessStuck NothingLost
