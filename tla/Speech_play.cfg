CONSTANTS
  Bubbles = 2
  PerBubble = 2
  Composed <- Tools
  Lookahead = 2
  MaxSegments = 3
  MaxEvents = 1
  None = None
SPECIFICATION FairSpec
CHECK_DEADLOCK FALSE
INVARIANTS TypeOK ParkedLeavesNothing ReadyHasAudio
PROPERTIES PlaysInOrder EverySegmentSettles
