\* One page at first, two more below it the heap can grow into.
SPECIFICATION Spec
CONSTANTS
  Space = {1, 2, 4}
  InitPages = 1
  PageUnits = 6
  AddressSpace = 64
  Leftover = 0
  Sizes = {0, 9, 40}
INVARIANTS
  TypeOK
  ListLinked
  BlocksTile
  MergedWhenFree
PROPERTY RangeAllocatorSpec
