\* A stream of two bytes into a buffer of one.
CONSTANTS
  MaxBytes <- MCMaxBytes
  RcvSize = 1
  InFlight <- MCInFlight
  MaxPending = 1
SPECIFICATION TcpLiveSpec
INVARIANTS
  StreamInOrder
PROPERTIES
  BytesArrive
  CloseEnds
CHECK_DEADLOCK FALSE
