SPECIFICATION FairSpec
CONSTANTS
  Worker = {w1, w2}
  Loop = Loop
  Nobody = Nobody
  MaxSent = 2
  MaxQueued = 1
CHECK_DEADLOCK FALSE
INVARIANTS
  TypeOK
  JournalInOrder
  FileSafeWhileUp
PROPERTIES
  QuitReturnsIfHeard
