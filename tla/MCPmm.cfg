SPECIFICATION FairSpec
CONSTANTS
  MemoryMaps <- MCMaps
  PageSize = 2
  AddressSpace = 24
  FirstPage = 2
INVARIANTS
  TypeOK
  NoDoubleOwnership
  Conservation
  OnlyWholeRamPages
  SlotsFitPages
PROPERTIES
  PageAllocatorSpec
  CoalesceEnds
