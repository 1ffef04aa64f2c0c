SPECIFICATION LifecycleSpec
CONSTANTS
  k1 = k1
  c1 = c1
  c2 = c2
  SessionKey = {k1}
  LeaseId = {c1, c2}
  KeyOf <- MCKeyOf
  LeaseMs = 6
  HeartbeatMs = 2
  RpcMax = 1
  StartMax = 13
  SessionLimit = 1
  GlobalLimit = 2
INVARIANTS ActiveWithinLimit
