CONSTANTS
  Items = {1, 2}
  COLD_CANDIDATES = 1
SPECIFICATION Spec
INVARIANT ClaimsGuardSweeps
PROPERTY EveryItemIsSwept
