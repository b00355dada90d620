SPECIFICATION FairSpec
CONSTANT MaxTyped = 4
CHECK_DEADLOCK FALSE
INVARIANTS
  TypeOK
  Backlog
  FreedLast
PROPERTY QuitAloneStops
