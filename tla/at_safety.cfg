SPECIFICATION Spec
CONSTANTS
  Ops <- AllOps
  TIMEOUT_COUNT = 2
  IGNORED_LIMIT = 1
  CarryOn = FALSE
  MaxUart = 1
  MaxLate = 2
INVARIANTS
  TypeOK
  NothingOwed
  ParsesOwnAnswer
  FailureExplained
  RefusalReported
CHECK_DEADLOCK FALSE
