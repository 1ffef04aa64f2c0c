SPECIFICATION Spec
CONSTANTS
  Attempts = 2
PROPERTIES KeyChangeEnds
CHECK_DEADLOCK FALSE
