SPECIFICATION Spec
CONSTANTS
  Warm = {TRUE}
  MaxInc = 1
  MaxGen = 1
  MaxOccupy = 1
  MaxChunks = 2
  QueueCap = 1
CONSTRAINTS
  SocketNotClosed
  OneHasMore
  WritesPromptly
INVARIANTS
  ResponseFirst
\* A line whose socket and upstream have closed stops.
CHECK_DEADLOCK FALSE
