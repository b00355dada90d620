SPECIFICATION FairSpec
CONSTANTS
  BufSize = 4
  Total = 12
  Boundary <- MCBoundary
  Worker = {w1, w2}
  MaxQueued = 2
  Nobody = Nobody
CHECK_DEADLOCK FALSE
INVARIANTS
  TypeOK
  BufferGeometry
  BufferContent
  NoWholeMessageLeft
  InputSeen
  OnlyOversizeStalls
PROPERTIES
  EveryMessageHandled
