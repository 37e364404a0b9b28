\* Any block may be refused, with a limit on the size and without.
SPECIFICATION Spec
CONSTANTS
  Chunks <- MCChunks
  MaxRoom = 3
  MaxSize = 5
  Limits = {0, 3}
  Junk = Junk
  GrowFails = TRUE
  ShrinkFails = TRUE
INVARIANT TypeOK
PROPERTY ImplementsString
