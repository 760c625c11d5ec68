SPECIFICATION Spec
CONSTANTS
  Missing = Missing
  OtherType = OtherType
  None = None
  Kinds <- MCKinds
  Texts <- MCTexts
  Values = {"ab", "8"}
  LookupOf <- MCLookupOf
  EnabledOrder <- MCEnabled
  KnownProviders = {"A", "V"}
  MaxBatch = 2
  DetailLimit = 2
  RawBudget = 10
  EnvelopeLimit = 84
  FrameSize = 5
  ReasonSize = 3
  Headers <- MCHeaders
  Bodies <- MCBodies
  Chunks = {1, 2}
  MaxRequestBytes = 3
  Buffered = 4
  Outcomes <- MCOutcomes
CHECK_DEADLOCK FALSE
INVARIANTS
  TypeOK
  OwnAnswers
  WholeBatch
  EachLookedUpOnce
  RawWithinBudget
  NoLateOverflow
PROPERTIES
  RequestAnswered
