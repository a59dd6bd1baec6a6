SPECIFICATION Spec
CONSTANTS
  Sockets = {w1, w2, w3}
  Streams = {r1, r2}
  Clients = {c1, c2}
  MaxHosts = 2
  None = None
CHECK_DEADLOCK FALSE
INVARIANTS TypeOK OneOwner NothingOrphaned RowsFollowStreams
PROPERTIES TakeoverIsTold RowSurvivesOldStream RequestsAnswered
