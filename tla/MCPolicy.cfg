SPECIFICATION Spec
CONSTANTS
  Attempts = 3
INVARIANT PolicyFollows
CHECK_DEADLOCK FALSE
