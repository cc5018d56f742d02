SPECIFICATION FairSpec
CONSTANTS
  Links <- TwoLinks
  Builds <- AllBuilds
  Kinds <- TcpOnly
  MaxConn = 1
  MaxData = 2
  MaxUart = 3
  SERIALS = 32
  CallOps <- Ops
PROPERTIES
  EveryCallReturns
