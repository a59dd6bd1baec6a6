\* Several viewers at once, ACP v2 agent: after a cold start a session switch and a prompt, or two prompts, overlap, under fair timers.
CONSTANTS
  Sessions = {s1, s2}
  NoSession = NoSession
  Switching = Switching
  Remembered = NoSession
  Usage = TRUE
  CloseOnTurnEnd = FALSE
  RequestTimeout = TRUE
  AgentV2 = TRUE
  Overlap = TRUE
  CancelHandles = {}
  MaxTurnSeq = 2
  MaxRequests = 2
  MaxGeneration = 2
SPECIFICATION FairSpec
INVARIANTS
  RequestsAreKept
PROPERTIES
  NothingWaitsForEver
CHECK_DEADLOCK FALSE
