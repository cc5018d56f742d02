SPECIFICATION Spec
CONSTANTS
  Links <- TwoLinks
  Builds <- OnlyAT2
  Kinds <- TcpOnly
  MaxConn = 3
  MaxData = 1
  MaxUart = 2
  SERIALS = 32
  CallOps <- Ops
INVARIANTS HandleNeverRevives
