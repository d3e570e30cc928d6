\* A request that leaves no room for the header of a remainder in its new pages.
SPECIFICATION Spec
CONSTANTS
  Space = {1, 2, 4, 5}
  InitPages = 2
  PageUnits = 6
  AddressSpace = 64
  Leftover = 0
  Sizes = {24}
INVARIANT BlocksTile
