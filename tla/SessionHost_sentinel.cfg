CONSTANTS
  Sessions = {s1, s2, s3}
  NoSession = NoSession
  Switching = Switching
  Remembered = NoSession
  Usage = FALSE
  CloseOnTurnEnd = FALSE
  RequestTimeout = FALSE
  AgentV2 = FALSE
  Overlap = TRUE
  CancelHandles = {}
  MaxTurnSeq = 3
  MaxRequests = 0
  MaxGeneration = 3
SPECIFICATION Spec
INVARIANTS SentinelIsTransient
CHECK_DEADLOCK FALSE
