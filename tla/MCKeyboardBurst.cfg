\* Interrupts at any step of the thread: keys wait together on the stack, and
\* one is pushed while another is popped.
SPECIFICATION Spec
CONSTANTS
  Shifts = {LShift}
  Ctrls = {RCtrl}
  Alts = {}
  Caps = Caps
  Num = Num
  Scroll = Scroll
  Characters = {"a", "7", "/"}
  us_querty <- MCAscii
  Keypad = {"7"}
  Extended = {RCtrl, "/"}
  Pause = Pause
  StackSize = 16
  MaxKeys = 2
  Patient = FALSE
INVARIANT ModifiersAreThoseHeld
CHECK_DEADLOCK FALSE
