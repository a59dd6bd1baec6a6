\* One tab, at most two methods at a time: one loss of a socket or an agent, one call that fails, one act of the user.
CONSTANTS
  Sessions <- TwoSessions
  Agents <- TwoAgents
  Sockets <- ThreeSockets
  Flows <- TwoFlows
  MaxAttempts = 2
  MaxBreaks = 1
  MaxRefusals = 1
  MaxActs = 1
  Null = Null
SPECIFICATION Spec
INVARIANTS
  TypeOK
  NothingIsStranded
  FrozenIsReleased
PROPERTIES
  HistoryKept
CHECK_DEADLOCK FALSE
