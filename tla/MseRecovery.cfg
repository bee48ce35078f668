SPECIFICATION FairSpec
CONSTANTS
  MaxPackets = 5
INVARIANTS
  TypeOK
  BufferCurrent
  StartsWithKey
  NoSilentGap
PROPERTIES
  PendingDrains
CHECK_DEADLOCK FALSE
