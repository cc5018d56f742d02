SPECIFICATION Spec
CONSTANTS
  u1 = u1
  Udps = {u1}
  Objects = {1, 2}
  LINKS = 2
  SERIALS = 5
  MaxConn = 3
  MaxPackets = 2
INVARIANTS
  TypeOK
  StreamsAccounted
  LinksAccounted
  OwnPackets
PROPERTIES
  ListenerStays
  NothingOverwritten
CHECK_DEADLOCK FALSE
