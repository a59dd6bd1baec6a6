\* The host is rebuilt with a new session, and its versions start again.
CONSTANTS
  Viewers = {v1}
  BufferSize = 2
  Interleaves = FALSE
  Switches = "none"
  MaxStates = 4
  MaxRestarts = 1
  MaxDrops = 1
SPECIFICATION FairSpec
PROPERTIES
  ReconnectIsCurrent
  EverythingArrives
CHECK_DEADLOCK FALSE
