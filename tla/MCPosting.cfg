SPECIFICATION MCSpec
CONSTANTS
  NumJobs = 3
  Queue = 2
  Permits = 2
  MaxEntries = 2
  AnswerSets = {{"ok", "error", "timeout"}, {"ok"}, {"error"}, {"timeout"}}
  Nodes = {g, b}
  Good = {g}
  Posts = {j1}
  Workers = {w1}
  Unnamed = Unnamed
  None = None
  PageSize = 1
  MaxTries = 2
  MaxRecords = 2
CHECK_DEADLOCK FALSE
INVARIANTS PermitsKept JobsAccounted StartedInOrder PoolServes
PROPERTIES PostsSettle PoolRecovers
