SPECIFICATION DrvSpec
CONSTANTS
  Guru = {g1, g2, g3}
  GURU_DEV_MAX = 2
  File = {f1, f2}
  NULL = NULL
SYMMETRY Interchange
CHECK_DEADLOCK FALSE
INVARIANTS TypeInv NodeKept NoStranger MapSound TableAgrees OpenReachesPresent NeedsClass OutIsClean
PROPERTY RefusedOnlyWhenFull
