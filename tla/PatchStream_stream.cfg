\* One viewer and one host: a connection lost and reopened at any point, switches to new and old sessions.
CONSTANTS
  Viewers = {v1}
  BufferSize = 2
  Interleaves = FALSE
  Switches = "any"
  MaxStates = 5
  MaxRestarts = 0
  MaxDrops = 1
SPECIFICATION Spec
INVARIANTS
  TypeOK
  WatermarkIsTrue
PROPERTIES
  SharedStates
CHECK_DEADLOCK FALSE
