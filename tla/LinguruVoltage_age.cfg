SPECIFICATION FairSpec
CONSTANTS
  Readers = {r1, r2}
  MaxRequests = 4
CHECK_DEADLOCK FALSE
INVARIANTS TypeInv LagBounded QuietIsFresh
PROPERTY ReadReturns
