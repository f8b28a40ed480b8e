SPECIFICATION FairSpec
CONSTANTS
  GURU_MAX_URBS = 2
  Channels = {c1}
  MaxMsgs = 3
  MaxSends = 2
CHECK_DEADLOCK FALSE
INVARIANTS TypeInv RingConserved InOrder NotOverwritten 
PROPERTY KeepsReceiving
