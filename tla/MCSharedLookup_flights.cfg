SPECIFICATION Spec
CONSTANTS
  None = None
  k1 = k1
  k2 = k2
  p1 = p1
  p2 = p2
  Callers = {c1, c2, c3}
  Keys = {k1, k2, k3}
  Providers = {p1}
  ProviderOf <- SameProvider
  AdapterOf <- OneAbuseipdb
  KindOf <- Addresses
  MaxSharedLookups = 2
  MaxConcurrency <- OnePermit
  MaxOutbound = 1
SYMMETRY CallerAndKeySymmetry
CHECK_DEADLOCK FALSE
INVARIANTS
  TypeOK
  SingleFlight
  FetchOnlyWhatIsMissing
  PermitsAccounted
PROPERTIES
  KeptReport
  NoStaleJoin
