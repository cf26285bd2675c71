SPECIFICATION FairSpec
CONSTANTS
  MaxInc = 2
  MaxGen = 1
  MaxChunks = 1
INVARIANTS
  OneUpstream
  SessionHasOwner
  InflightHasTask
PROPERTIES
  HandshakeSettles
\* A retired line stops.
CHECK_DEADLOCK FALSE
