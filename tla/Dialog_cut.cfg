SPECIFICATION Spec
CONSTANTS
  Client <- MCClient
  Account <- MCAccount
  Player = {p1}
  FileSize = 3
  Boundary <- MCBoundary
  PwdLen = 2
  SlicePerSec = 2
  DftBufSize = 3
  MaxPlaybacks = 1
  MaxBroadcasts = 1
CHECK_DEADLOCK FALSE
INVARIANT FramesAlwaysIntact
