\* A thread that keeps a value in EAX while the timer ticks.
SPECIFICATION Spec
CONSTANTS
  FirmwareMasks <- MCMasks
  Dirs = {d0}
  Given = {d0, NULL}
  NULL = NULL
  BootDir = d0
  Stacks = {s0, s1, s2}
  Boot = s0
  TCB_MAX_THREADS = 3
  MaxDepth = 2
  Creators = {s0}
  Killers = {}
  Quitters = {}
  Overlap = FALSE
  Yielders = {}
  Computing = {s0}
  TicksInYield = TRUE
  Keys = FALSE
  Junk = Junk
INVARIANT ScratchKept
