SPECIFICATION PromisesSpec
CONSTANTS
  None = None
  Minute = 3
  DayLength = 4
  Second = 2
  Tasks = {t1, t2}
  LimitsSet <- PromiseLimits
  HeadersSet <- PromiseHeaders
  MaxTime = 4
  MaxGrants = 2
  MaxFeedbacks = 1
SYMMETRY TaskSymmetry
INVARIANTS
  PromiseKept
