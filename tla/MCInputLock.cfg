SPECIFICATION Spec
CONSTANTS
  Attempts = 2
INVARIANTS InputLocked
CHECK_DEADLOCK FALSE
