\* Integers of three bits and their sign, sizes of six bits.
SPECIFICATION Spec
CONSTANTS
  NUL = "0"
  Fold <- Letters
  IMax = 7
  SizeMax = 63
  Unroll = 8
  Texts <- TextSet
  Maps <- MapSet
  Roots <- RootSet
  Tables <- TableSet
  Shapes <- ShapeSet
INVARIANTS KeysExact FieldsComplete ValuesKept ConvertsEach
CHECK_DEADLOCK FALSE
