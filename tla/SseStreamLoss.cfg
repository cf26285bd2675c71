SPECIFICATION Spec
CONSTANTS
  MaxWrites = 3
INVARIANTS
  NothingLost
CHECK_DEADLOCK FALSE
