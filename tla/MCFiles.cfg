CONSTANTS
  Dirs <- MCDirs
  Names <- MCNames
  Start = "a"
  Other = "b"
  Old = "f"
  MaxInFlight = 2
  Outside = 1
  MaxOps = 2
  MaxClicks = 3
  MaxVersion = 4
  MaxInode = 3
  MaxLosses = 1
SPECIFICATION Spec
INVARIANTS ShownIsCurrent NoHandleLeft SavedMeansStored
CHECK_DEADLOCK FALSE
