SPECIFICATION Spec
CONSTANTS
  Ops = {"setName"}
  TIMEOUT_COUNT = 1
  IGNORED_LIMIT = 1
  CarryOn = FALSE
  MaxUart = 1
  MaxLate = 1
INVARIANT SuccessIsReal
CHECK_DEADLOCK FALSE
