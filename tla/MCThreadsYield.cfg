\* A thread that yields with interrupts enabled.
SPECIFICATION Spec
CONSTANTS
  FirmwareMasks <- MCMasks
  Dirs = {d0}
  Given = {d0, NULL}
  NULL = NULL
  BootDir = d0
  Stacks = {s0, s1, s2}
  Boot = s0
  TCB_MAX_THREADS = 3
  MaxDepth = 2
  Creators = {s0}
  Killers = {}
  Quitters = {}
  Overlap = FALSE
  Yielders = {s1}
  Computing = {}
  TicksInYield = TRUE
  Keys = FALSE
  Junk = Junk
INVARIANT SavesOwnStack
