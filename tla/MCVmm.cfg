\* One caller with masked interrupts; frames run out before the space does,
\* and the table of free ranges can fill up.
SPECIFICATION Spec
CONSTANTS
  Threads = {t1}
  Spaces = {"kernel", "user"}
  SpaceStart <- MCStart
  SpacePages <- MCPages
  SPACE_SIZE = 2
  TablePages = 4
  Frame = {f1, f2, f3, f4, f5, f6}
  Sizes = {1, 2, 3}
  None = None
SYMMETRY Frames
INVARIANTS
  TypeOK
  FramesOnce
  SpaceTiled
  MappedExactly
  SortedBySize
  FitsWhenRoom
  TlbCoherent
PROPERTY RangeAllocatorSpec
