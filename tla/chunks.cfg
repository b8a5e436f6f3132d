SPECIFICATION Spec
CONSTANTS
  ChunkLen = 4
  SuperAt = {0, 8}
  Batch = 1
  MaxCalls = 3
  Volumes <- VolumesDef
  Balances <- BalancesDef
  Sizes <- SizesDef
INVARIANTS VolumeExact
PROPERTIES CopiesKept AsAsked CallEnds
CHECK_DEADLOCK FALSE
