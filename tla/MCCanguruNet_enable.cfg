SPECIFICATION Spec
CONSTANTS
  Channels = {c1, c2}
  SMP = TRUE
  MaxFrames = 0
  MaxCommands = 3
CHECK_DEADLOCK FALSE
INVARIANT EnableAgrees
