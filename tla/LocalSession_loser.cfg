\* The warm attempt of a tab that has lost its agent to another client.
CONSTANTS
  Sessions <- TwoSessions
  Agents <- TwoAgents
  Sockets <- ThreeSockets
  Flows <- TwoFlows
  MaxAttempts = 1
  MaxBreaks = 2
  MaxRefusals = 0
  MaxActs = 1
  Null = Null
SPECIFICATION Spec
PROPERTIES
  LostIsTerminal
CHECK_DEADLOCK FALSE
