SPECIFICATION PromisesSpec
CONSTANTS
  None = None
  Minute = 3
  DayLength = 5
  Second = 2
  Tasks = {t1}
  LimitsSet <- TightLimits
  HeadersSet <- KnownHeaders
  MaxTime = 6
  MaxGrants = 3
  MaxFeedbacks = 1
INVARIANTS
  ClockPromiseKept
