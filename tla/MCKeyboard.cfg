\* A patient typist: a key is handled before the next byte arrives.
SPECIFICATION FairSpec
CONSTANTS
  Shifts = {LShift}
  Ctrls = {RCtrl}
  Alts = {}
  Caps = Caps
  Num = Num
  Scroll = Scroll
  Characters = {"a", "7", "/"}
  us_querty <- MCAscii
  Keypad = {"7"}
  Extended = {RCtrl, "/"}
  Pause = Pause
  StackSize = 16
  MaxKeys = 4
  Patient = TRUE
INVARIANTS
  TypeOK
  ModifiersAreThoseHeld
  TypedAsPressed
PROPERTIES
  EventuallySettled
CHECK_DEADLOCK FALSE
