SPECIFICATION FairPlayerSpec
CONSTANTS
  None = None
  a1 = a1
  a2 = a2
  k1 = k1
  k2 = k2
  k3 = k3
  Changes = {a1, a2}
  MaxRequests = 2
  Sockets = {k1, k2, k3}
INVARIANTS
  PlayerTypeOK
  NeverStranded
  SocketsBounded
  ControlAgrees
PROPERTIES
  ConnectsAgain
