SPECIFICATION Spec
CONSTANTS
  SessionKey = {k1, k2}
  LeaseId = {i1, i2, i3}
  Request = {r1, r2}
  LeaseMs = 2
  SessionLimit = 2
  GlobalLimit = 3
  MaxTime = 5
INVARIANTS WithinLimits OneSlotPerLease
PROPERTIES NoEviction RefusalJustified PoolSpec
SYMMETRY Symmetry
