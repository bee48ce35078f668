SPECIFICATION Spec
CONSTANTS
  r1 = r1
  r2 = r2
  r3 = r3
  d1 = d1
  d2 = d2
  None = None
  Connects = {r1, r2}
  Takedowns = {d1, d2}
INVARIANTS
  TypeOK
  LiveRelayListed
  ListedAlive
PROPERTIES
  SessionsLive
