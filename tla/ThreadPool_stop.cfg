SPECIFICATION FairSpec
CONSTANTS
  Worker = {w1, w2}
  Producer = {p1}
  Task = {t1}
  NoTask = NoTask
  Nobody = Nobody
CHECK_DEADLOCK FALSE
PROPERTY StopReturns
