SPECIFICATION Spec
CONSTANTS
  Channels = {c1, c2}
  SMP = TRUE
  MaxFrames = 2
  MaxCommands = 0
SYMMETRY Interchange
CHECK_DEADLOCK FALSE
INVARIANTS Balance AwakeIsEmpty KernelEnd CountedOnce
