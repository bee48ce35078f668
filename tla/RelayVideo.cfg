SPECIFICATION VideoSpec
CONSTANTS
  c1 = c1
  c2 = c2
  Nobody = Nobody
  Clients = {c1}
  Cap = 3
  MaxVideo = 3
  MaxAudio = 0
  MaxDevice = 0
INVARIANTS
  TypeOK
  ChainUnbroken
  LatestQueued
PROPERTIES
  ImplementsChannel
ACTION_CONSTRAINT NobodyControls
