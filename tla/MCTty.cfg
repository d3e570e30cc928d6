\* Three rows of two columns, two characters, calls of up to two of them;
\* lengths that wrap two columns past the edge, which calls run past.
SPECIFICATION Spec
CONSTANTS
  WIDTH = 2
  HEIGHT = 3
  LENGTHS = 4
  Glyphs = {a, b}
  Newline = Newline
  Blank = Blank
  MaxWrite = 2
  MaxColumn = 4
  Unknown = Unknown
INVARIANTS
  TypeOK
  RestBlank
PROPERTY ScreenSpec
