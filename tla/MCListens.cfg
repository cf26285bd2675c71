SPECIFICATION MCSpec
CONSTANTS
  Lines = {c, p}
  ProxyLines = {p}
  Warm = {p}
  Kinds <- LineKinds
  PipeLines = {c}
  MaxBlobs = 2
  FeedCap = 1
  StreamCap = 1
  MaxWrites = 4
  c = c
  p = p
INVARIANTS FramesKept NeverMismatched OthersUnaffected ListenLosesNothing
PROPERTY EveryBlobSettles
\* Lines end and peers fall silent.
CHECK_DEADLOCK FALSE
