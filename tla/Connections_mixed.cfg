SPECIFICATION Spec
CONSTANTS
  Fd = {f1}
  Worker = {w1, w2}
  Loop = Loop
  MaxConns = 2
  MaxQueued = 1
  Talker = {1, 2}
  None = None
CHECK_DEADLOCK FALSE
INVARIANT OneRelationship
