SPECIFICATION Spec
CONSTANTS
  Channels = {c1, c2}
  SMP = FALSE
  MaxFrames = 2
  MaxCommands = 0
SYMMETRY Interchange
CHECK_DEADLOCK FALSE
INVARIANTS TypeInv Pairing
