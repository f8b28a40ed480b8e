SPECIFICATION Spec
CONSTANTS
  Rates = {1, 2}
  MaxUnsent = 3
INVARIANTS Configured FdConfigured SameRates  TerminationAgrees
