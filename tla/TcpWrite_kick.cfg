SPECIFICATION Spec
CONSTANTS
  Sender = {s1, s2}
  Worker = {w1, w2}
  Sizes <- MCSizes
  MaxBytes = 4
  SndBuf = 2
  LowWater = 2
  MaxQueued = 2
  Nobody = Nobody
CHECK_DEADLOCK FALSE
INVARIANT SurvivesDisconnect
