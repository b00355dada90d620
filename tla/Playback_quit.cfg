SPECIFICATION FairPlayback
CONSTANTS
  Code = {"a", "b"}
  Fd = {f1}
  Worker = {w1, w2}
  FileSize = 3
  JnlRate <- MCJnlRate
  SlicePerSec = 2
  DftBufSize = 2
  MaxPlaybacks = 2
  Target = {"a", "b", "all"}
  All = "all"
  NoCode = "none"
CHECK_DEADLOCK FALSE
PROPERTY QuitEnds
