SPECIFICATION ProcessSpec
CONSTANTS
  Clients = {c1, c2, c3, c4, c5}
  Lookups = {l1}
  MaxConcurrentRequests = 1
  HealthLimit = 2
  Us = us
  Processes = {us, them}
  None = None
SYMMETRY PlaceSymmetry
INVARIANTS
  ProcessTypeOK
  StorageClosesLast
  PermitsAccounted
  RequestsBounded
  OneWholeDatabase
  UsersHaveTheLock
PROPERTIES
  CreateFromEmpty
