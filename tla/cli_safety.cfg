SPECIFICATION Spec
CONSTANTS
  c1 = c1
  c2 = c2
  c3 = c3
  Clients <- ThreeClients
  Objects <- TwoObjects
  LINKS = 2
  SERIALS = 8
  MaxConn = 3
SYMMETRY ClientSymmetry
INVARIANTS
  TypeOK
  RefCountExact
  ConnectionReferenced
  ClientKeepsConnection
PROPERTIES
  ReleasedWhenRead
