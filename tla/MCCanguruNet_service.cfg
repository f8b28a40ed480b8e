SPECIFICATION FairSpec
CONSTANTS
  Channels = {c1, c2}
  SMP = TRUE
  MaxFrames = 1
  MaxCommands = 0
CHECK_DEADLOCK FALSE
PROPERTIES KeepsService QueueWakes
