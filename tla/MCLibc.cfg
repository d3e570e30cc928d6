SPECIFICATION Spec
CONSTANTS
  INT_MAX = 127
  IntSize = 4
  UintSize = 3
  HexSize = 2
  Formats <- MCFormats
  Chars <- MCChars
  Ints <- MCInts
  Uints <- MCUints
  Strings <- MCStrings
  MemSize = 4
  UCHAR_MAX = 2
INVARIANTS
  PrintsAsTold
  AsDefined
