SPECIFICATION FairSpec
CONSTANTS
  d1 = d1
  d2 = d2
  p1 = p1
  p2 = p2
  s1 = s1
  s2 = s2
  Devices = {d1, d2}
  Ports = {p1, p2}
  Sessions = {s1, s2}
  Nothing = Nothing
  Other = Other
INVARIANTS
  TypeOK
  StaleGone
  LeadsHome
PROPERTIES
  StartsUp
