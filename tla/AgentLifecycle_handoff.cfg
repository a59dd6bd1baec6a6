\* One session is enough: the browser opens it and its PATCH reaches the row.
CONSTANTS
  Agents = {a1, a2}
  MaxSessions = 1
  MaxBoots = 1
SPECIFICATION Spec
INVARIANT HandoffIsWarm
CHECK_DEADLOCK FALSE
