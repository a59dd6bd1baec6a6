\* One viewer at a time, ACP v1 agent: the guarantees of the filter and the fences.
CONSTANTS
  Sessions = {s1, s2, s3}
  NoSession = NoSession
  Switching = Switching
  Remembered = s1
  Usage = TRUE
  CloseOnTurnEnd = TRUE
  RequestTimeout = FALSE
  AgentV2 = FALSE
  Overlap = FALSE
  CancelHandles = {h1}
  MaxTurnSeq = 4
  MaxRequests = 0
  MaxGeneration = 3
SYMMETRY SessionSymmetry
SPECIFICATION Spec
INVARIANTS
  TypeOK
  QuotaIsOurs
  TranscriptIsOurs
  BusyWhileTurnRuns
  FetchHoldsSlot
PROPERTIES
  ErrorIsOurs
  NewSessionAsksQuota
CHECK_DEADLOCK FALSE
