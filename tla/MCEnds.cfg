SPECIFICATION MCSpec
CONSTANTS
  Identities = {a, b, c}
  None = None
  Target = 2
  Requests = {r1, r2}
  Kinds <- MCKinds
  NumDeliveries = 2
  ListenEntries = 2
  PostEntries = 2
  QueueCap = 1
  MaxBody = 1
  FaultSets <- MCFaultSets
\* Nothing is left to do when every identity was used and the gateway has ended.
CHECK_DEADLOCK FALSE
INVARIANTS ListenHasUser OwnersRun DeliveriesServed RepliesExplained
PROPERTIES WarmerReturns OthersAnswered
