SPECIFICATION FairSpec
CONSTANTS
  GURU_MAX_URBS = 2
  Channels = {c1}
  MaxMsgs = 1
  MaxSends = 3
CHECK_DEADLOCK FALSE
PROPERTY LastCloseFrees
