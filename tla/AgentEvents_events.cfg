\* One agent and its subscriber, which is opened with closeOnTurnEnd.
CONSTANTS
  child = child
  parent = parent
  Agents = {child, parent}
  Pairs <- ChildAndParent
  Closing = {parent}
  Acts <- ChildsTurns
  Turns = {1, 2, 3}
SPECIFICATION FairSpec
INVARIANTS
  TypeOK
  StallOncePerTurn
PROPERTIES
  SilenceIsNoticed
  TurnEndsArrive
CHECK_DEADLOCK FALSE
