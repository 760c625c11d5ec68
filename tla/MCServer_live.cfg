SPECIFICATION FairSpec
CONSTANTS
  Clients = {c1, c2}
  Lookups = {l1}
  MaxConcurrentRequests = 1
  HealthLimit = 2
PROPERTIES
  ShutdownEnds
  AvailabilityReturns
