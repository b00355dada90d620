SPECIFICATION FairSpec
CONSTANTS
  Worker = {w1, w2}
  Producer = {p1, p2}
  Task = {t1, t2, t3}
  NoTask = NoTask
  Nobody = Nobody
CHECK_DEADLOCK FALSE
INVARIANTS
  TypeOK
  NoSleepWhileBacklog
PROPERTIES
  ImplementsTaskPool
  EveryTaskRuns
  StopReturnsOutsideWindow
