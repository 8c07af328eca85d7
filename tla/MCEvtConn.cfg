\* EvtConn: two connections, so that a notify can reach the wrong emit thread.
SPECIFICATION Spec
CONSTANTS
  Conns = {c1, c2}
  MaxPending = 1
  Spurious = TRUE
INVARIANTS
  ConnectionsSound
PROPERTIES
  FramesSentUnlessForsaken
  StopEnds
CHECK_DEADLOCK FALSE
