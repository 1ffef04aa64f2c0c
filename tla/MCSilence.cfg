CONSTANTS
  MaxChunks = 5
  MaxWrites = 5
  KeyChunks <- MCKeyChunks
  LastShake = 2
  ReadMax = 3
  QueueMax = 3
  CountMax = 2
SPECIFICATION LinkSpec
PROPERTY SilenceNoticed
CHECK_DEADLOCK FALSE
