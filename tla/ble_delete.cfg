SPECIFICATION DeletingSpec
CONSTANTS
  MAX_BLE_CONNECTIONS = 1
  Addresses = {a1}
  a1 = a1
  Objects = {1, 2}
  MaxLines = 1
  Roles = {"client"}
INVARIANT DeletedOnce
CHECK_DEADLOCK FALSE
