SPECIFICATION Spec
CONSTANTS
  MAX_BLE_CONNECTIONS = 2
  Addresses = {a1, a2}
  a1 = a1
  a2 = a2
  Objects = {1, 2}
  MaxLines = 2
  Roles = {"client"}
SYMMETRY Symmetry
INVARIANTS
  TypeOK
  SlotsLive
  TableFollowsFirmware
  ScanResultsOwed
  
CHECK_DEADLOCK FALSE
