SPECIFICATION MCSpec
CONSTANTS
  Warm = {TRUE}
  MaxInc = 1
  MaxGen = 1
  MaxOccupy = 1
  MaxChunks = 2
  QueueCap = 1
  MaxReads = 4
  MaxPipes = 2
  Entries = 2
  ProxyCap = 1
CONSTRAINTS
  SocketNotClosed
  OneHasMore
  WritesPromptly
INVARIANTS OccupiesAnswered InOrder
PROPERTIES LineServed BytesServed ChunksArrive
\* A line whose socket and upstream have closed stops.
CHECK_DEADLOCK FALSE
