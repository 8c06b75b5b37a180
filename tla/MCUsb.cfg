\* As host: one device with a HID interface, plugged in twice; a client thread
\* sets its reports.  As device: two starts, two resets of the bus, and a host
\* that opens the serial port twice.
CONSTANTS
  NUM_CHANNELS = 3
  NUM_ENDPOINTS = 2
  nullptr = nullptr
  MaxPlugs = 2
  Requested <- MCAsk
  MaxPacket = 2
  MaxResets = 2
  MaxStarts = 2
  MaxOpens = 2
  MaxOutput = 1
SPECIFICATION BothSpec
INVARIANTS
  ChannelsAgree
  PendingEnded
  ReinitClean
  EndedTransferIsOver
  OnlyFourAssertionsFail
  AddressAgrees
  StoppedIsClosed
CHECK_DEADLOCK FALSE
