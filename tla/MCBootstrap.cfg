SPECIFICATION Spec
CONSTANTS
  Worker = {w1, w2}
  N = 3
  Damaged = {3}
  KvBatch = 2
  VerifyBatch = 2
  CleanupBatch = 2
  MaxFaults = 2
INVARIANTS OpenWhenMigrated
PROPERTIES MigrationSpec PhaseForward Completes TabsSettle
CHECK_DEADLOCK FALSE
