SPECIFICATION Spec
CONSTANTS
  None = None
  Keys = {1, 2, 3}
  Classes = {"found"}
  Sizes = {1, 3}
  Configs <- LooseAndTight
  Chunk = 2
  MaxTime = 2
  MaxReports = 3
INVARIANTS
  TypeOK
  NoResurrection
  CacheBounded
PROPERTIES
  NothingLostEarly
  ToldIsServable
