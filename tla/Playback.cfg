SPECIFICATION FairPlayback
CONSTANTS
  Code = {"a", "b"}
  Fd = {f1}
  Worker = {w1, w2}
  FileSize = 3
  JnlRate <- MCSlowRate
  SlicePerSec = 2
  DftBufSize = 2
  MaxPlaybacks = 2
  Target = {"all"}
  All = "all"
  NoCode = "none"
CHECK_DEADLOCK FALSE
INVARIANTS
  PlaybackTypeOK
  CancelHeardOnceOpen
PROPERTY EveryPlaybackEnds
