SPECIFICATION FairSpec
CONSTANTS
  Sender = {s1, s2}
  Worker = {w1, w2}
  Sizes <- MCSizes
  MaxBytes = 4
  SndBuf = 2
  LowWater = 2
  MaxQueued = 1
  Nobody = Nobody
CHECK_DEADLOCK FALSE
INVARIANTS
  TypeOK
  WireInOrder
  NoStrandedRequest
PROPERTY EveryRequestWritten
