SPECIFICATION Spec
CONSTANTS
  Daemons = {d1, d2}
  Cleaners = {c1}
  None = None
INVARIANTS
  CleanupSparesOthers
CHECK_DEADLOCK FALSE
