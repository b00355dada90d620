SPECIFICATION FairSpec
CONSTANTS
  Worker = {w1, w2}
  Loop = Loop
  Nobody = Nobody
  MaxSent = 1
  MaxQueued = 1
CHECK_DEADLOCK FALSE
PROPERTY QuitReturns
