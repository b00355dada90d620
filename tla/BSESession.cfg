SPECIFICATION Spec
CONSTANTS
  Code = {a}
  Monitored = {a}
  Fd = {f1, f2}
  Worker = {w1, w2}
  Loop = Loop
  MaxConns = 2
  NoCode = NoCode
  None = None
CHECK_DEADLOCK FALSE
SYMMETRY Symmetry
INVARIANTS
  TypeOK
  TablesAgree
  WriteOnItsWay
