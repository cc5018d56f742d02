SPECIFICATION Spec
CONSTANTS
  TxSize = 2
  RxSize = 2
  Data <- MCData
  Sizes = {0, 1, 2, 3}
  MaxAccepted = 6
  MaxReceived = 3
INVARIANT TypeOK
PROPERTIES TransmitIsPipe ReceiveIsPipe NothingUnreadDropped
CHECK_DEADLOCK FALSE
