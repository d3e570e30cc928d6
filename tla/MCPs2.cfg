\* Every pair of ports, with prompt and with late answers.
SPECIFICATION FairSpec
CONSTANTS
  KindsOne = {"broken", "empty", "keyboard", "mouse", "faulty"}
  KindsTwo = {"absent", "broken", "empty", "keyboard", "mouse", "faulty"}
  Configs = {{0, 2, 6}, {0, 1, 2, 6}}
  Leftovers = {28}
INVARIANTS
  TypeOK
  KeyboardUsable
  NoPhantomKeyboard
  PanicsWithoutPorts
PROPERTIES
  InitEnds
CHECK_DEADLOCK FALSE
