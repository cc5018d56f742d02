SPECIFICATION Spec
CONSTANTS
  Links <- TwoLinks
  Builds <- AllBuilds
  Kinds <- TcpAndUdp
  MaxConn = 2
  MaxData = 2
  MaxUart = 2
  SERIALS = 32
  CallOps <- LinkOps
INVARIANTS
  TypeOK
  HandleMeansConnection
  AvailableExact
  ClosingEnds
  AcceptedOnce
  OldHandleRefused
  ViewBehindWire
PROPERTIES
  SyncRestoresView
