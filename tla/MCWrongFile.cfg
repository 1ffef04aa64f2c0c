CONSTANTS
  Dirs <- MCDirs
  Names <- MCNames
  Start = "a"
  Other = "b"
  Old = "f"
  MaxInFlight = 2
  Outside = 1
  MaxOps = 2
  MaxClicks = 4
  MaxVersion = 4
  MaxInode = 3
  MaxLosses = 1
SPECIFICATION Spec
INVARIANT SaveReachesItsFile
CHECK_DEADLOCK FALSE
