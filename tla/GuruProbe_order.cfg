SPECIFICATION Spec
CONSTANTS
  CANGURU_CHANNEL_COUNT = 2
  LINGURU_CHANNEL_COUNT = 2
  CAN_MBUS_CHANNEL_COUNT = 2
  LIN_MBUS_CHANNEL_COUNT = 2
CHECK_DEADLOCK FALSE
INVARIANTS   NothingLeft
