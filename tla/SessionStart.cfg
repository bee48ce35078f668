SPECIFICATION FairSpec
CONSTANTS
  Stoppers = {"disconnect"}
  MaxAttempts = 2
INVARIANTS
  TypeOK
  ControlReady
  FailedStart
  CleanStop
PROPERTIES
  StopUnblocks
  ImplementsLife
