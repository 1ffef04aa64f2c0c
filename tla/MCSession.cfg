CONSTANTS
  s1 = s1
  s2 = s2
  q1 = q1
  q2 = q2
  Session <- MCSessions
  Req <- MCReqs
  MaxInFlight = 2
  MaxId = 3
  Rekeys <- MCRekeys
  SerialShell = TRUE
SPECIFICATION Spec
INVARIANTS
  ReleasedWhenClosed
  TablesAgree
  TrustBeforeReady
PROPERTIES
  Isolation
  FailureReportedOnce
  ChallengeResolved
CHECK_DEADLOCK FALSE
