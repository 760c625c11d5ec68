SPECIFICATION FairSpec
CONSTANTS
  None = None
  k1 = k1
  k2 = k2
  p1 = p1
  p2 = p2
  Callers = {c1, c2}
  Keys = {k1, k2}
  Providers = {p1, p2}
  ProviderOf <- ProviderEach
  AdapterOf <- OneOfEach
  KindOf <- AddressAndUrl
  MaxSharedLookups = 2
  MaxConcurrency <- OnePermit
  MaxOutbound = 1
CHECK_DEADLOCK FALSE
PROPERTIES
  FlightsAreLookupTasks
  FlightsEnd
  CallersAnswered
INVARIANTS
  OwnReport
  AttemptsBounded
