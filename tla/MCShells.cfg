CONSTANTS
  s1 = s1
  s2 = s2
  q1 = q1
  q2 = q2
  Session <- OneSession
  Req <- MCReqs
  MaxInFlight = 2
  MaxId = 3
  Rekeys <- MCRekeys
  SerialShell = FALSE
SPECIFICATION Spec
INVARIANTS
  ShellsReleased
CHECK_DEADLOCK FALSE
