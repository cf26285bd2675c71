SPECIFICATION FairSpec
CONSTANTS
  Warm = {TRUE, FALSE}
  MaxInc = 2
  MaxGen = 2
  MaxOccupy = 2
  MaxChunks = 1
  QueueCap = 2
  MaxReceived = 3
INVARIANTS
  ResumeAfterAnswer
  ResponseExactlyOnce
PROPERTIES
  SocketSettles
\* A served socket ends and the line stops.
CHECK_DEADLOCK FALSE
