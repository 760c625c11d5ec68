SPECIFICATION Spec
CONSTANTS
  None = None
  Minute = 2
  DayLength = 3
  Second = 1
  Tasks = {t1, t2}
  LimitsSet <- LooseLimits
  HeadersSet <- AnyHeaders
  MaxTime = 3
  MaxGrants = 3
  MaxFeedbacks = 2
SYMMETRY TaskSymmetry
INVARIANTS
  TypeOK
  CooldownInv
PROPERTIES
  CooldownHonoured
  NoResurrectedAllowance
