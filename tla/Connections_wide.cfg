SPECIFICATION Spec
CONSTANTS
  Fd = {f1, f2}
  Worker = {w1, w2}
  Loop = Loop
  MaxConns = 3
  MaxQueued = 1
  Talker = {1, 2, 3}
  None = None
CHECK_DEADLOCK FALSE
SYMMETRY Symmetry
INVARIANTS
  TypeOK
  TableMatchesKernel
  NobodyForgotten
