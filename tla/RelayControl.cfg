SPECIFICATION CrowdedSpec
CONSTANTS
  c1 = c1
  c2 = c2
  Nobody = Nobody
  Clients = {c1, c2}
  Cap = 1
  MaxVideo = 0
  MaxAudio = 100
  MaxDevice = 0
VIEW View
INVARIANTS
  ControlExclusive
  ControllerPresent
PROPERTIES
  JoinsComplete
