SPECIFICATION FairSpec
CONSTANTS
  r1 = r1
  r2 = r2
  r3 = r3
  Relays = {r1, r2, r3}
  NoRelay = NoRelay
  None = None
  Data <- MCData
INVARIANTS
  TypeOK
  InStep
  OneMore
  ControlFramed
PROPERTIES
  HandoverEnds
  ClosedEnds
CHECK_DEADLOCK FALSE
