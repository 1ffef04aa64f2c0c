SPECIFICATION Spec
CONSTANTS
  Attempts = 3
INVARIANTS NoLostRequest PolicySettles
PROPERTIES NoReopen NoRetryAfterBlock OutageEnds
CHECK_DEADLOCK FALSE
