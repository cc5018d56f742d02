SPECIFICATION FairSpec
CONSTANTS
  Ops = {"staIpQuery", "listAP", "recvDataWithInfo", "sendStream", "bleConnect", "serverEnd"}
  TIMEOUT_COUNT = 1
  IGNORED_LIMIT = 1
  CarryOn = TRUE
  MaxUart = 1
  MaxLate = 1
PROPERTY EveryCallReturns
CHECK_DEADLOCK FALSE
