SPECIFICATION Spec
CONSTANTS
  None = None
  Minute = 3
  DayLength = 4
  Second = 1
  Tasks = {t1, t2}
  LimitsSet <- BudgetLimits
  HeadersSet <- NoHeaders
  MaxTime = 6
  MaxGrants = 4
  MaxFeedbacks = 0
SYMMETRY TaskSymmetry
INVARIANTS
  DispatchIsPaidFor
  LedgerInv
PROPERTIES
  BudgetsRespected
