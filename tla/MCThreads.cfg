\* Boot, then threads created, preempted, yielding and killed.
SPECIFICATION FairSpec
CONSTANTS
  FirmwareMasks <- MCMasks
  Stacks = {s0, s1, s2}
  Boot = s0
  TCB_MAX_THREADS = 3
  MaxDepth = 2
  Dirs = {d0, d1}
  Given = {d1, NULL}
  NULL = NULL
  BootDir = d0
  Creators = {s0}
  Killers = {s0}
  Quitters = {s1}
  Overlap = FALSE
  Yielders = {s1}
  Computing = {s0}
  TicksInYield = FALSE
  Keys = TRUE
  Junk = Junk
INVARIANTS
  TypeOK
  ContextsKept
  StacksAccounted
  InterruptsHaveStubs
  EoiNeverOwed
PROPERTY EveryThreadRuns
