SPECIFICATION Spec
CONSTANTS
  CAN_STD_ID_MASK = 1
  CAN_EXT_ID_MASK = 7
  LIN_ID_MASK = 1
  Stamps = 2
  Tick = 3
  MaxTime = 3
  Ids = {1, 3, 6}
  Lengths = {3, 8, 9, 64}
  Count = 1
INVARIANTS RoundTrip StampsExact
CHECK_DEADLOCK FALSE
